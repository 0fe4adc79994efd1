--------------------------- MODULE LinkProperties ---------------------------
(***************************************************************************)
(* What a link promises and the hazards it must survive, as properties of  *)
(* module Link.                                                            *)
(***************************************************************************)
EXTENDS Link

(* README "in-order packet delivery": Receive never skips, repeats or      *)
(* reorders a message, whatever PopPacket finds in the ring buffer.        *)
InOrder ==
  [][\A d \in Devices :
       delivered'[d] # delivered[d] => delivered'[d] = delivered[d] + 1]_vars

(* README "guaranteed packet delivery": a message Transmit has accepted    *)
(* stays in the sender's buffer, to be sent again, until it is delivered.  *)
NoLoss ==
  \A d \in Devices : \A n \in delivered[Peer(d)] + 1 .. accepted[d] :
    \E s \in Slots : Live(wr[d], s) /\ wr[d].slot[s].data = n

(* A reader whose buffer Cleanup cannot make room in holds the packet the  *)
(* program must take next, so "No buffer space left" is never for ever.    *)
SpaceComesBack ==
  \A d \in Devices :
    rd[d].current = NoSlot /\ NoSpaceLeft(rd[d])
      => \E s \in Slots : Poppable(rd[d], s)

InTransit(d) == {chan[d][i] : i \in DOMAIN chan[d]}

(* "it's always clear from local context" which lap an index belongs to:   *)
(* InRange takes a packet for new exactly when its message is new, so the  *)
(* reader neither takes an old packet for a new one nor acks "a future     *)
(* packet we're throwing away".                                            *)
WindowsAgree ==
  \A d \in Devices : \A f \in InTransit(d) :
    f.index \in DataIndices =>
      (InRange(rd[d].last, f.index) <=> f.data > delivered[d])

AcksInTransit(d) == {f.ack : f \in InTransit(d)} \cup {rd[d].outAck}

(* An ack on its way to a writer only ever removes a message the peer has  *)
(* delivered: no ack outlives its packet until the index is used again.    *)
AcksAreTrue ==
  \A d \in Devices : \A ack \in AcksInTransit(d) : \A s \in Slots :
    /\ ack.index # 0
    /\ ~ack.error
    /\ wr[d].slot[s].index = ack.index
    => wr[d].slot[s].data <= delivered[Peer(d)]

(* README 5, "N and N+2 are acked before N+1 means retransmit N+1": an ack *)
(* on its way to a writer makes it send again what is older than the       *)
(* message acked, all of it and nothing newer, across the wrap-around.     *)
(* A scan must be shorter than half a lap for that, as in the source.      *)
SkippedAreResent ==
  \A d \in Devices : \A ack \in AcksInTransit(d) :
    LET w == wr[d]
        Pending(v, s) == v.slot[s].pending
    IN \A s, t \in {u \in Slots : Live(w, u)} :
         /\ ack.index = w.slot[t].index
         /\ ~ack.error
         /\ s # t
         => (Pending(HandleAck(w, ack), s) <=>
               Pending(w, s) \/ w.slot[s].data < w.slot[t].data)

(* Of the packets in a ring buffer only one, the last to come, has the     *)
(* index of another, however often a packet is sent again while the        *)
(* program does not take it: so Cleanup, which drops one duplicate of each *)
(* packet and leaves the loop (commlink.cc:107), leaves none.              *)
OthersDiffer(r, c) ==
  \A t, u \in Slots \ {c} :
    t # u /\ r.slot[t].index = r.slot[u].index => r.slot[t].index = 0

OneMayRepeat(r) ==
  /\ \A s \in Slots : r.slot[s].state = "free" => r.slot[s] = FreeRx
  /\ \E c \in Slots :
       /\ r.current # NoSlot => r.current = c
       /\ OthersDiffer(r, c)

OneNewPacket == \A d \in Devices : OneMayRepeat(rd[d])

-----------------------------------------------------------------------------
(* The opening of a sequence. *)

(* A message in a reader, on its way to it or already taken from it. *)
HoldsData(d) ==
  \/ rd[d].last # 0
  \/ \E s \in Slots : rd[d].slot[s].state = "parsed" /\ rd[d].slot[s].index \in DataIndices

(* A reader that must Clear its buffer, since an opening packet is on its  *)
(* way or none has come yet, has no message to lose and no index to forget.*)
ClearDiscardsNothing ==
  \A d \in Devices :
    (~rd[d].started \/ \E f \in InTransit(d) : f.index = StartIndex)
      => ~HoldsData(d)

(* README: "A transmitter may not start sending data until its start       *)
(* sequence has been acknowledged": data never meets a reader that would   *)
(* discard it.                                                             *)
DataMeetsStartedReader ==
  \A d \in Devices :
    (wr[Peer(d)].started \/ \E f \in InTransit(d) : f.index \in DataIndices)
      => rd[d].started

(***************************************************************************)
(* Why the opening is safe, as an inductive invariant.  For a device d and *)
(* its peer p: only a started reader sends the start ack, so a started     *)
(* writer has a started reader before it; a writer holds its opening       *)
(* packet or data, never both, so data follows every opening packet on the *)
(* line; and nothing of a writer that has not started can have arrived.    *)
(***************************************************************************)
StartAcksAreEarned(d) ==
  /\ rd[d].inAck = StartAck => rd[d].started
  /\ \A s \in Slots : wr[d].slot[s].ack = StartAck => rd[d].started
  /\ \A i \in 1 .. Len(chan[d]) : chan[d][i].ack = StartAck => rd[Peer(d)].started
  /\ rd[d].outAck = StartAck => rd[Peer(d)].started
  /\ wr[d].started => rd[Peer(d)].started

WriterOpensOrSends(d) ==
  \A s \in Slots :
    IF wr[d].started THEN wr[d].slot[s].index # StartIndex
                     ELSE wr[d].slot[s].index \notin DataIndices

LineOpensThenSends(d) ==
  /\ ~wr[Peer(d)].started => ~HoldsData(d)
  /\ \A i \in 1 .. Len(chan[d]) :
       /\ chan[d][i].index \in DataIndices => wr[Peer(d)].started
       /\ chan[d][i].index = StartIndex =>
            /\ ~HoldsData(d)
            /\ \A j \in 1 .. i - 1 : chan[d][j].index \notin DataIndices

HandshakeInv ==
  \A d \in Devices :
    StartAcksAreEarned(d) /\ WriterOpensOrSends(d) /\ LineOpensThenSends(d)
=============================================================================
