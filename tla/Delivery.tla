------------------------------ MODULE Delivery ------------------------------
(***************************************************************************)
(* Why a link delivers what it accepts: the invariant behind NoLoss,       *)
(* InOrder, WindowsAgree and SpaceComesBack of module LinkProperties.      *)
(*                                                                         *)
(* A packet names its message by an index, which counts modulo MaxIndex;   *)
(* the invariant says how far apart the messages can be that are in the    *)
(* buffers and on the line at the same time, so that the index tells them  *)
(* apart.  It is about one direction: the writer w of the sender, which    *)
(* has accepted the messages up to acc, the packets c on the line, and the *)
(* reader r of the receiver, which has delivered those up to del.          *)
(*                                                                         *)
(*   first   the messages up to this one are over and done with            *)
(*   e       the sender's window: no older message is in its buffer        *)
(*   gap     the length of the window: no message is sent that is gap or   *)
(*           more newer than the oldest in the buffer                      *)
(***************************************************************************)
EXTENDS LinkProperties

(* The slot or packet x holds one of the messages first + 1 .. acc. *)
Carries(x, first, acc) ==
  x.data \in first + 1 .. acc /\ x.index = IndexOf(x.data)

(* A packet received in full, or one on the line, that holds a message. *)
IsData(x) == x.state = "parsed" /\ x.index \in DataIndices
HasData(f) == f.index \in DataIndices

(* The sender numbers its messages, and holds what is not delivered. *)
SenderInv(w, acc, del, first) ==
  /\ w.current = IndexOf(acc)
  /\ ~w.started => acc = 0
  /\ \A s \in Slots : IF w.slot[s].index \in DataIndices
                        THEN Carries(w.slot[s], first, acc)
                        ELSE w.slot[s].data = 0
  /\ \A s, t \in Slots :
       w.slot[s].data = w.slot[t].data => s = t \/ w.slot[s].data = 0
  /\ \A n \in del + 1 .. acc : \E s \in Slots : w.slot[s].data = n

WindowInv(w, acc, del, e, gap) ==
  /\ e <= acc + 1
  /\ del < e + gap
  /\ \A s \in Slots : w.slot[s].index \in DataIndices => w.slot[s].data >= e

(* A message sent in a window no later than e, that the receiver is not    *)
(* too far ahead of.                                                       *)
Timely(x, acc, del, first, e, gap) ==
  /\ Carries(x, first, acc)
  /\ x.data < e + gap
  /\ del < x.data + gap

(* While a packet is being received the others are new, and no two the same.*)
ReceiverInv(r, acc, del, first, e, gap) ==
  /\ r.last = IndexOf(del)
  /\ \A s \in Slots : r.slot[s].state # "parsed" => r.slot[s].index = 0
  /\ \A s \in Slots : IsData(r.slot[s]) =>
       /\ Timely(r.slot[s], acc, del, first, e, gap)
       /\ \A t \in Slots : IsData(r.slot[t]) => r.slot[t].data < r.slot[s].data + gap
  /\ r.current # NoSlot =>
       \A s, t \in Slots : IsData(r.slot[s]) /\ IsData(r.slot[t]) =>
         /\ r.slot[s].data > del
         /\ r.slot[s].data = r.slot[t].data => s = t

(* What was sent before a packet is not too far ahead of it either. *)
LineInv(c, r, acc, del, first, e, gap) ==
  \A i \in 1 .. Len(c) : HasData(c[i]) =>
    /\ Timely(c[i], acc, del, first, e, gap)
    /\ \A s \in Slots : IsData(r.slot[s]) => r.slot[s].data < c[i].data + gap
    /\ \A j \in 1 .. i - 1 : HasData(c[j]) => c[j].data < c[i].data + gap

DirectionInv(w, c, r, acc, del, first, e, gap) ==
  /\ first <= del /\ del <= acc
  /\ SenderInv(w, acc, del, first)
  /\ WindowInv(w, acc, del, e, gap)
  /\ ReceiverInv(r, acc, del, first, e, gap)
  /\ LineInv(c, r, acc, del, first, e, gap)

Direction(d, first, e, gap) ==
  DirectionInv(wr[d], chan[Peer(d)], rd[Peer(d)], accepted[d], delivered[Peer(d)],
               first, e, gap)

-----------------------------------------------------------------------------
(***************************************************************************)
(* Of any number of messages: the window is the one NextPacket scans, from *)
(* the index UpdateNextIndex has moved it to.                              *)
(***************************************************************************)
Scans(d, e) ==
  /\ wr[d].started => wr[d].earliest = IndexOf(e)
  /\ Direction(d, 0, e, MaxGap)

ScanInv == \A d \in Devices : \E e \in 1 .. accepted[d] + 1 : Scans(d, e)

(* A start ack that a writer takes as a second one puts the window back to *)
(* the first message (StartSequence), which must not be behind by then.    *)
StartAcksAreEarly ==
  \A d \in Devices :
    wr[d].started /\ rd[d].outAck = StartAck => accepted[d] <= MaxGap

(***************************************************************************)
(* Of so few messages that no two of them share an index, after the first  *)
(* of a session are over: the window is all of them.                       *)
(***************************************************************************)
Lap == MaxIndex - BufferSize

(* An ack says "delivered" of a message of this session that was. *)
Confirms(ack) == ack.index # 0 /\ ~ack.error

Earned(ack, del, first) ==
  Confirms(ack) => \E m \in first + 1 .. del : ack.index = IndexOf(m)

(* The acks of the messages that d has sent, wherever they are. *)
AcksFor(d) ==
  AcksInTransit(d) \cup {rd[Peer(d)].inAck} \cup {wr[Peer(d)].slot[s].ack : s \in Slots}

ShortInv(first) ==
  \A d \in Devices :
    /\ Direction(d, first[d], first[d] + 1, Lap)
    /\ \A ack \in AcksFor(d) : Earned(ack, delivered[Peer(d)], first[d])

(***************************************************************************)
(* When only one device sends, acks travel alone, in the order they were   *)
(* earned.  An ack that is late, since its message was sent twice, is      *)
(* still ahead of every ack of a message more than a window newer: those   *)
(* messages fill the sender's buffer, so that none with the same index can *)
(* be in it.                                                               *)
(***************************************************************************)
Punctual(ack, ahead, w, acc, del) ==
  Confirms(ack) =>
    \E m \in 1 .. del :
      /\ ack.index = IndexOf(m)
      /\ \A n \in m + MaxGap .. acc :
           /\ \E s \in Slots : w.slot[s].data = n
           /\ \A other \in ahead : Confirms(other) => other.index # IndexOf(n)

(* The acks on their way back to the sender: the one that waits for its    *)
(* writer, those on the line, and the one that waits for the receiver's.   *)
AcksAhead(out, c, i) == {out} \cup {c[j].ack : j \in 1 .. i - 1}

AcksInOrder(out, c, in, w, acc, del) ==
  /\ Punctual(out, {}, w, acc, del)
  /\ \A i \in 1 .. Len(c) : Punctual(c[i].ack, AcksAhead(out, c, i), w, acc, del)
  /\ Punctual(in, AcksAhead(out, c, Len(c) + 1), w, acc, del)

Listens(d) ==
  /\ \A s \in Slots : wr[d].slot[s].index = 0
  /\ rd[d].outAck = NoAck
  /\ rd[d].inAck # StartAck
  /\ \A i \in 1 .. Len(chan[d]) : chan[d][i].ack = NoAck /\ chan[d][i].index # StartIndex

Talks(d) ==
  /\ \A s \in Slots : wr[d].slot[s].ack = NoAck
  /\ rd[d].inAck = NoAck
  /\ rd[d].outAck # StartAck
  /\ \A i \in 1 .. Len(chan[d]) : chan[d][i].index = 0 /\ chan[d][i].ack # StartAck

OneWayInv(d) ==
  /\ Talks(d)
  /\ Listens(Peer(d))
  /\ AcksInOrder(rd[d].outAck, chan[d], rd[Peer(d)].inAck,
                 wr[d], accepted[d], delivered[Peer(d)])
=============================================================================
