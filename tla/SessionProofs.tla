--------------------------- MODULE SessionProofs ---------------------------
(***************************************************************************)
(* Proofs that the acks of a link are true: when no index comes round in   *)
(* the session, and when only one device sends, however much.  With module *)
(* DeliveryProofs this makes the link deliver what it accepts.             *)
(***************************************************************************)
EXTENDS Session, DeliveryProofs

-----------------------------------------------------------------------------
(* Sessions too short for an index to come round. *)

(* An ack of d's messages is an old one, or has just been earned.          *)
AcksEarned(d, first) ==
  \A ack \in AcksFor(d)' :
    ack \in AcksFor(d) \cup {NoAck} \/ Earned(ack, delivered'[Peer(d)], first)

LEMMA AcksForIs ==
  ASSUME TypeOK, NEW d \in Devices, NEW ack
  PROVE  ack \in AcksFor(d) <=>
           \/ \E i \in 1 .. Len(chan[d]) : ack = chan[d][i].ack
           \/ ack = rd[d].outAck
           \/ ack = rd[Peer(d)].inAck
           \/ \E s \in Slots : ack = wr[Peer(d)].slot[s].ack
<1>1. DOMAIN chan[d] = 1 .. Len(chan[d])
  BY DEF TypeOK
<1>2. ack \in AcksInTransit(d) <=> (\E i \in DOMAIN chan[d] : ack = chan[d][i].ack) \/ ack = rd[d].outAck
  BY DEF AcksInTransit, InTransit
<1> QED
  BY <1>1, <1>2 DEF AcksFor

LEMMA AcksForNextIs ==
  ASSUME TypeOK', NEW d \in Devices, NEW ack
  PROVE  ack \in AcksFor(d)' <=>
           \/ \E i \in 1 .. Len(chan'[d]) : ack = chan'[d][i].ack
           \/ ack = rd'[d].outAck
           \/ ack = rd'[Peer(d)].inAck
           \/ \E s \in Slots : ack = wr'[Peer(d)].slot[s].ack
<1>1. DOMAIN chan'[d] = 1 .. Len(chan'[d])
  BY DEF TypeOK
<1>2. ack \in AcksInTransit(d)' <=>
        (\E i \in DOMAIN chan'[d] : ack = chan'[d][i].ack) \/ ack = rd'[d].outAck
  BY DEF AcksInTransit, InTransit
<1> QED
  BY <1>1, <1>2 DEF AcksFor

LEMMA ReadEarnsAcks ==
  ASSUME TypeOK, TypeOK', HandshakeInv, NEW a \in Devices, SoundRead(a) \/ FaultyRead(a),
         NEW d \in Devices, NEW first, NEW e, NEW gap, DirSound(d, first, e, gap)
  PROVE  AcksEarned(d, first)
<1> DEFINE p == Peer(d)
<1>1. PICK q, b : ReadStep(a, q, b)
  BY AnyReadStep
<1>2. /\ wr' = wr /\ delivered' = delivered
      /\ rd'[a] = q /\ chan'[a] = b
      /\ \A x \in Devices : x # a => rd'[x] = rd[x] /\ chan'[x] = chan[x]
      /\ Reads(rd[a], chan[a], q, b)
  BY <1>1 DEF ReadStep, TypeOK
<1>3. p \in Devices /\ p # d /\ (a = d \/ a = p)
  BY PeerFacts
<1>4. chan[a] \in Seq(Frames) /\ chan[d] \in Seq(Frames) /\ chan[p] \in Seq(Frames)
  BY <1>3 DEF TypeOK
<1>5. SUFFICES ASSUME NEW ack \in AcksFor(d)'
               PROVE  ack \in AcksFor(d) \cup {NoAck} \/ Earned(ack, delivered[p], first)
  BY <1>2 DEF AcksEarned
<1>6. \/ \E i \in 1 .. Len(chan'[d]) : ack = chan'[d][i].ack
      \/ ack = rd'[d].outAck
      \/ ack = rd'[p].inAck
      \/ \E s \in Slots : ack = wr'[p].slot[s].ack
  BY AcksForNextIs, <1>5
<1> HIDE DEF p
<1>7. CASE a = d
  <2>1. \A i \in 1 .. Len(b) : \E j \in 1 .. Len(chan[d]) : b[i] = chan[d][j]
    <3>1. b = chan[d] \/ (chan[d] # <<>> /\ b = Tail(chan[d]))
      BY <1>2, <1>7 DEF Reads
    <3>2. chan[d] # <<>> => \A i \in 1 .. Len(Tail(chan[d])) :
            i + 1 \in 1 .. Len(chan[d]) /\ Tail(chan[d])[i] = chan[d][i + 1]
      BY <1>4
    <3> QED
      BY <3>1, <3>2
  <2>2. \/ q.outAck \in {rd[d].outAck, NoAck}
        \/ chan[d] # <<>> /\ q.outAck = chan[d][1].ack /\ 1 \in 1 .. Len(chan[d])
    BY <1>2, <1>4, <1>7 DEF Reads, Receives
  <2> QED
    BY <1>2, <1>3, <1>6, <1>7, <2>1, <2>2, AcksForIs DEF p
<1>8. CASE a = p
  <2>1. CASE ack # q.inAck \/ ack = rd[p].inAck
    BY <1>2, <1>3, <1>6, <1>8, <2>1, AcksForIs DEF p
  <2>2. CASE ack = q.inAck /\ ack # rd[p].inAck
    <3>1. ASSUME Confirms(ack)
          PROVE  \E m \in first + 1 .. delivered[p] : ack.index = IndexOf(m)
      <4> DEFINE f == Head(chan[p])
      <4>1. /\ chan[p] # <<>> /\ HasData(f) /\ ack.index = f.index
            /\ ~InRange(rd[p].last, f.index)
        BY <1>2, <1>8, <2>2, <3>1 DEF Reads, Receives
      <4>2. f = chan[p][1] /\ 1 \in 1 .. Len(chan[p])
        BY <1>4, <4>1
      <4>3. Sound(wr[d], chan[p], rd[p], accepted[d], delivered[p], first, e, gap)
        BY DEF DirSound, p
      <4> HIDE DEF f
      <4>4. Timely(f, accepted[d], delivered[p], first, e, gap)
        BY <4>1, <4>2, <4>3 DEF Sound, DirectionInv, LineInv
      <4>5. /\ f.data \in first + 1 .. accepted[d] /\ f.index = IndexOf(f.data)
            /\ ~(f.data > delivered[p])
        BY <4>1, <4>3, <4>4, SoundFacts DEF Timely, Carries
      <4>6. delivered[p] \in Nat /\ first \in Nat /\ accepted[d] \in Nat
        BY <4>3 DEF Sound
      <4> QED
        BY <4>1, <4>5, <4>6
    <3> QED
      BY <3>1 DEF Earned
  <2> QED
    BY <2>1, <2>2
<1> QED
  BY <1>3, <1>7, <1>8

LEMMA ReceiveEarnsAcks ==
  ASSUME TypeOK, TypeOK', NEW a \in Devices, Receive(a),
         NEW d \in Devices, NEW first, NEW e, NEW gap, DirSound(d, first, e, gap)
  PROVE  AcksEarned(d, first)
<1> DEFINE p == Peer(d)
<1>1. p \in Devices /\ p # d /\ (a = d \/ a = p) /\ Peer(p) = d
  BY PeerFacts
<1> HIDE DEF p
<1>2. SUFFICES ASSUME NEW ack \in AcksFor(d)'
               PROVE  ack \in AcksFor(d) \cup {NoAck} \/ Earned(ack, delivered'[p], first)
  BY DEF AcksEarned, p
<1>3. \/ \E i \in 1 .. Len(chan'[d]) : ack = chan'[d][i].ack
      \/ ack = rd'[d].outAck
      \/ ack = rd'[p].inAck
      \/ \E s \in Slots : ack = wr'[p].slot[s].ack
  BY AcksForNextIs, <1>2 DEF p
<1>4. CASE a = d
  <2>1. PICK s \in Slots : rd' = [rd EXCEPT ![d] = PopPacket(rd[d], s)]
    BY <1>4 DEF Receive
  <2>2. /\ rd'[d].outAck = rd[d].outAck /\ rd'[p] = rd[p]
        /\ wr' = wr /\ chan' = chan
    BY <1>1, <1>4, <2>1 DEF Receive, PopPacket, TypeOK, Readers
  <2> QED
    BY <1>3, <2>2, AcksForIs DEF p
<1>5. CASE a = p
  <2>1. PICK q \in Readers : /\ rd' = [rd EXCEPT ![p] = q]
                             /\ q.inAck = OkAck(IndexOf(delivered[p] + 1))
    BY <1>1, <1>5, ReceiveTakes
  <2>2. /\ delivered' = [delivered EXCEPT ![p] = delivered[p] + 1]
        /\ UNCHANGED <<wr, chan, accepted>>
    BY <1>1, <1>5, ReceiveTakes
  <2>3. /\ rd'[d] = rd[d] /\ rd'[p] = q /\ delivered'[p] = delivered[p] + 1
    BY <1>1, <2>1, <2>2 DEF TypeOK
  <2>4. first <= delivered[p] /\ first \in Nat /\ delivered[p] \in Nat
    BY DEF DirSound, Sound, DirectionInv, p
  <2>5. Earned(q.inAck, delivered'[p], first)
    <3>1. q.inAck.index = IndexOf(delivered[p] + 1) /\ delivered[p] + 1 \in first + 1 .. delivered'[p]
      BY <2>1, <2>3, <2>4 DEF OkAck
    <3> QED
      BY <3>1 DEF Earned
  <2> QED
    BY <1>3, <2>2, <2>3, <2>5, AcksForIs DEF p
<1> QED
  BY <1>1, <1>4, <1>5

LEMMA TransmitKeepsAcks ==
  ASSUME TypeOK, TypeOK', NEW a \in Devices, Transmit(a), NEW d \in Devices
  PROVE  AcksFor(d)' \subseteq AcksFor(d) \cup {NoAck}
<1> DEFINE p == Peer(d)
<1>1. PICK s \in Slots : wr' = [wr EXCEPT ![a] = AddToOutgoingQueue(wr[a], s, accepted[a] + 1)]
  BY DEF Transmit
<1>2. wr[a] \in Writers /\ accepted[a] + 1 \in Nat /\ rd' = rd /\ chan' = chan
  BY DEF TypeOK, Transmit
<1> DEFINE q == AddToOutgoingQueue(wr[a], s, accepted[a] + 1)
<1>3. \A t \in Slots : q.slot[t].ack \in {NoAck, wr[a].slot[t].ack}
  BY <1>2, AddFacts
<1> HIDE DEF q
<1>4. p \in Devices
  BY PeerFacts
<1>5. \A t \in Slots : wr'[p].slot[t].ack \in {NoAck, wr[p].slot[t].ack}
  BY <1>1, <1>3, <1>4 DEF q, TypeOK
<1> SUFFICES ASSUME NEW ack \in AcksFor(d)'
             PROVE  ack \in AcksFor(d) \cup {NoAck}
  OBVIOUS
<1>6. \/ \E i \in 1 .. Len(chan'[d]) : ack = chan'[d][i].ack
      \/ ack = rd'[d].outAck
      \/ ack = rd'[p].inAck
      \/ \E t \in Slots : ack = wr'[p].slot[t].ack
  BY AcksForNextIs
<1> QED
  BY <1>2, <1>5, <1>6, AcksForIs

LEMMA WriteKeepsAcks ==
  ASSUME TypeOK, TypeOK', NEW a \in Devices, NEW timedOut \in BOOLEAN, Write(a, timedOut),
         NEW d \in Devices
  PROVE  AcksFor(d)' \subseteq AcksFor(d) \cup {NoAck}
<1> DEFINE p == Peer(d)
<1>1. PICK w, q, r, f : WriteStep(a, w, q, r, f)
  BY AnyWriteStep
<1>2. p \in Devices /\ p # d /\ (a = d \/ a = p) /\ Peer(p) = d
  BY PeerFacts
<1> SUFFICES ASSUME NEW ack \in AcksFor(d)'
             PROVE  ack \in AcksFor(d) \cup {NoAck}
  OBVIOUS
<1>3. \/ \E i \in 1 .. Len(chan'[d]) : ack = chan'[d][i].ack
      \/ ack = rd'[d].outAck
      \/ ack = rd'[p].inAck
      \/ \E t \in Slots : ack = wr'[p].slot[t].ack
  BY AcksForNextIs
<1> HIDE DEF p
<1>4. CASE a = d
  <2>1. chan'[d] = chan[d] /\ rd'[d].outAck = NoAck /\ rd'[p] = rd[p] /\ wr'[p] = wr[p]
    BY <1>1, <1>2, <1>4 DEF WriteStep, TypeOK, p
  <2> QED
    BY <1>3, <2>1, AcksForIs DEF p
<1>5. CASE a = p
  <2>1. /\ chan'[d] \in {chan[d], Append(chan[d], f)} /\ rd'[d] = rd[d]
        /\ rd'[p].inAck \in {NoAck, rd[p].inAck}
        /\ \A t \in Slots : wr'[p].slot[t].ack \in {NoAck, wr[p].slot[t].ack, rd[p].inAck}
        /\ f.ack \in {NoAck, rd[p].inAck} \/ \E t \in Slots : f.ack = wr[p].slot[t].ack
    BY <1>1, <1>2, <1>5, ZenonT(60) DEF WriteStep, TypeOK, Follows, KeepsSlots
  <2>2. ASSUME NEW i \in 1 .. Len(chan'[d])
        PROVE  chan'[d][i].ack \in AcksFor(d) \cup {NoAck}
    <3>1. chan[d] \in Seq(Frames)
      BY DEF TypeOK
    <3>2. f.ack \in AcksFor(d) \cup {NoAck}
      BY <2>1, AcksForIs DEF p
    <3>3. CASE chan'[d] = chan[d]
      BY <2>2, <3>3, AcksForIs
    <3>4. CASE chan'[d] = Append(chan[d], f)
      <4>1. \/ i \in 1 .. Len(chan[d]) /\ Append(chan[d], f)[i] = chan[d][i]
            \/ Append(chan[d], f)[i] = f
        BY <2>2, <3>1, <3>4
      <4> QED
        BY <3>2, <3>4, <4>1, AcksForIs
    <3> QED
      BY <2>1, <3>3, <3>4
  <2>3. \A t \in Slots : wr'[p].slot[t].ack \in AcksFor(d) \cup {NoAck}
    BY <2>1, AcksForIs DEF p
  <2> QED
    BY <1>3, <2>1, <2>2, <2>3, AcksForIs DEF p
<1> QED
  BY <1>2, <1>4, <1>5

LEMMA StepEarnsAcks ==
  ASSUME TypeOK, TypeOK', HandshakeInv, [Next]_vars,
         NEW d \in Devices, NEW first, NEW e, NEW gap, DirSound(d, first, e, gap)
  PROVE  AcksEarned(d, first)
<1>1. CASE UNCHANGED <<rd, wr, chan>>
  BY <1>1 DEF AcksEarned, AcksFor, AcksInTransit, InTransit
<1>2. ASSUME NEW a \in Devices, Tick(a) \/ Program(a)
      PROVE  AcksEarned(d, first)
  <2>1. CASE SoundRead(a) \/ FaultyRead(a)
    BY <2>1, ReadEarnsAcks
  <2>2. ASSUME NEW timedOut \in BOOLEAN, Write(a, timedOut)
        PROVE  AcksEarned(d, first)
    BY <2>2, WriteKeepsAcks DEF AcksEarned
  <2>3. CASE Receive(a)
    BY <2>3, ReceiveEarnsAcks
  <2>4. CASE ReceiveNothing(a)
    BY <1>1, <2>4 DEF ReceiveNothing
  <2>5. CASE Transmit(a)
    BY <2>5, TransmitKeepsAcks DEF AcksEarned
  <2> QED
    BY <1>2, <2>1, <2>2, <2>3, <2>4, <2>5 DEF Tick, Program
<1> QED
  BY <1>1, <1>2 DEF Next, vars

(* So few messages, after the first of each device, that no index comes    *)
(* round.                                                                  *)
Limited(first) ==
  /\ first \in [Devices -> Nat]
  /\ \A d \in Devices : Sends[d] <= first[d] + Lap

Within(first) == \A d \in Devices : accepted[d] <= first[d] + Lap

ShortLinkInv(first) == TypeOK /\ HandshakeInv /\ Within(first) /\ ShortInv(first)

LEMMA ShortIsSound ==
  ASSUME NEW first, Limited(first), TypeOK, ShortInv(first)
  PROVE  \A d \in Devices : DirSound(d, first[d], first[d] + 1, Lap)
<1> SUFFICES ASSUME NEW d \in Devices
             PROVE  DirSound(d, first[d], first[d] + 1, Lap)
  OBVIOUS
<1>1. first[d] \in Nat /\ first[d] + 1 \in Nat /\ first[d] + 1 > 0
  BY DEF Limited
<1>2. Direction(d, first[d], first[d] + 1, Lap)
  BY DEF ShortInv
<1> QED
  BY <1>1, <1>2, GapsFit, DirSoundIs

(* An ack names one message, and one that was delivered.                   *)
LEMMA ShortAcksAreTrue ==
  ASSUME NEW first, Limited(first), ShortLinkInv(first)
  PROVE  AcksAreTrue
<1> SUFFICES ASSUME NEW d \in Devices, NEW ack \in AcksInTransit(d), NEW s \in Slots,
                    ack.index # 0, ~ack.error, wr[d].slot[s].index = ack.index
             PROVE  wr[d].slot[s].data <= delivered[Peer(d)]
  BY DEF AcksAreTrue
<1> DEFINE n == wr[d].slot[s].data
           del == delivered[Peer(d)]
<1>1. DirSound(d, first[d], first[d] + 1, Lap)
  BY ShortIsSound DEF ShortLinkInv
<1>2. /\ SenderInv(wr[d], accepted[d], del, first[d]) /\ del <= accepted[d]
      /\ first[d] \in Nat /\ del \in Nat /\ accepted[d] \in Nat
  BY <1>1 DEF DirSound, Sound, DirectionInv
<1>3. accepted[d] <= first[d] + Lap /\ Lap \in Nat /\ Lap < MaxIndex /\ MaxIndex \in Nat
  BY IndexFacts, GapsFit DEF ShortLinkInv, Within, Lap, Fits
<1>4. PICK m \in first[d] + 1 .. del : ack.index = IndexOf(m)
  <2>1. ack \in AcksFor(d)
    BY DEF AcksFor
  <2> QED
    BY <2>1 DEF ShortLinkInv, ShortInv, Earned, Confirms
<1>5. m \in Nat /\ m > 0 /\ m <= first[d] + Lap
  BY <1>2, <1>3, <1>4
<1>6. wr[d].slot[s].index \in DataIndices
  BY <1>4, <1>5, IndexOfType
<1>7. n \in first[d] + 1 .. accepted[d] /\ IndexOf(n) = IndexOf(m)
  BY <1>2, <1>4, <1>6 DEF SenderInv, Carries
<1> HIDE DEF n
<1>8. n \in Nat /\ n < m + MaxIndex /\ m < n + MaxIndex
  BY <1>2, <1>3, <1>4, <1>5, <1>7
<1>9. n = m
  BY <1>5, <1>7, <1>8, IndexOfSame
<1> QED
  BY <1>2, <1>4, <1>9 DEF n

LEMMA WriteKeepsShort ==
  ASSUME NEW first, Limited(first), ShortLinkInv(first),
         NEW d \in Devices, NEW timedOut \in BOOLEAN, Write(d, timedOut)
  PROVE  DirSound(d, first[d], first[d] + 1, Lap)'
<1> DEFINE w == Prepared(wr[d], rd[d].outAck, timedOut)
           acc == accepted[d]
           e == first[d] + 1
<1>1. DirSound(d, first[d], e, Lap)
  BY ShortIsSound DEF ShortLinkInv
<1>2. TypeOK /\ AcksAreTrue
  BY ShortAcksAreTrue DEF ShortLinkInv
<1>3. PICK q, r, f : WriteEffect(d, w, q, r, f)
  BY <1>2, AnyWriteEffect
<1>4. \A s \in Slots : Removes(rd[d].outAck, wr[d].slot[s].index)
                         => wr[d].slot[s].data <= delivered[Peer(d)]
  BY <1>1, <1>2, TrueAckRemoves
<1>5. /\ SenderInv(wr[d], acc, delivered[Peer(d)], first[d])
      /\ acc \in Nat /\ first[d] \in Nat /\ Lap \in Nat /\ acc <= first[d] + Lap
      /\ WindowInv(wr[d], acc, delivered[Peer(d)], e, Lap)
  BY <1>1 DEF DirSound, Sound, DirectionInv, Fits, ShortLinkInv, Within
<1> HIDE DEF w, acc
<1>6. ASSUME NEW s \in Slots, w.slot[s].index \in DataIndices
      PROVE  w.slot[s].data >= e /\ w.slot[s].data < e + Lap
  <2>1. SameMessage(wr[d].slot[s], w.slot[s])
    BY <1>3, <1>6, IndexFacts DEF WriteEffect, After, Emptied, DataIndices
  <2>2. w.slot[s].data \in first[d] + 1 .. acc
    BY <1>5, <1>6, <2>1 DEF SenderInv, Carries, SameMessage
  <2> QED
    BY <1>5, <2>2
<1>7. e \in Nat /\ e > 0 /\ e <= accepted[d] + 1
  BY <1>5 DEF WindowInv, acc
<1> HIDE DEF e
<1>8. DirSound(d, first[d], e, Lap)'
  BY <1>1, <1>2, <1>3, <1>4, <1>6, <1>7, WriteKeepsSound
<1> QED
  BY <1>8 DEF e

LEMMA NextShort ==
  ASSUME NEW first, Limited(first), ShortLinkInv(first), [Next]_vars
  PROVE  ShortLinkInv(first)'
<1>1. TypeOK /\ HandshakeInv /\ TypeOK' /\ HandshakeInv'
  BY NextTypeOK, NextHandshake DEF ShortLinkInv
<1>2. \A d \in Devices : DirSound(d, first[d], first[d] + 1, Lap)
  BY ShortIsSound DEF ShortLinkInv
<1>3. Within(first)'
  <2>1. CASE UNCHANGED accepted
    BY <2>1 DEF ShortLinkInv, Within
  <2>2. ASSUME NEW a \in Devices, Transmit(a)
        PROVE  Within(first)'
    <3>1. accepted' = [accepted EXCEPT ![a] = accepted[a] + 1] /\ accepted[a] < Sends[a]
      BY <2>2 DEF Transmit
    <3>2. Sends[a] \in Nat /\ Sends[a] <= first[a] + Lap /\ accepted[a] \in Nat
          /\ first[a] \in Nat /\ Lap \in Nat
      BY <1>1, LinkAssumption, GapsFit DEF LinkAssumption, Limited, TypeOK, Fits
    <3>3. accepted[a] + 1 <= first[a] + Lap
      BY <3>1, <3>2
    <3> QED
      BY <1>1, <3>1, <3>3 DEF ShortLinkInv, Within, TypeOK
  <2> QED
    BY <2>1, <2>2, ZenonT(60) DEF Next, Tick, Program, SoundRead, FaultyRead, ReadFirstByte, ReadNoSpace,
       ReadOpening, ReadUnopened, ReadIntact, ReadGarbled, ReadResync, ReadCorrupted,
       ReadLastByte, Write, WritePacket, WriteAckOnly, WriteNothing, Receive, ReceiveNothing,
       vars
<1>4. ASSUME NEW d \in Devices
      PROVE  DirSound(d, first[d], first[d] + 1, Lap)'
  <2>1. ASSUME NEW timedOut \in BOOLEAN, Write(d, timedOut)
        PROVE  DirSound(d, first[d], first[d] + 1, Lap)'
    BY <2>1, WriteKeepsShort
  <2>2. ASSUME \A timedOut \in BOOLEAN : ~Write(d, timedOut)
        PROVE  DirSound(d, first[d], first[d] + 1, Lap)'
    BY <1>1, <1>2, <2>2, StepKeepsDirection DEF KeepsDirection
  <2> QED
    BY <2>1, <2>2
<1>5. ASSUME NEW d \in Devices
      PROVE  Direction(d, first[d], first[d] + 1, Lap)'
  BY <1>4, <1>5 DEF DirSound, Sound, Direction
<1>6. ASSUME NEW d \in Devices, NEW ack \in AcksFor(d)'
      PROVE  Earned(ack, delivered'[Peer(d)], first[d])
  <2>1. AcksEarned(d, first[d])
    BY <1>1, <1>2, StepEarnsAcks
  <2>2. delivered[Peer(d)] <= delivered'[Peer(d)] /\ delivered[Peer(d)] \in Nat
        /\ delivered'[Peer(d)] \in Nat /\ first[d] \in Nat
    <3>1. \A x \in Devices : delivered'[x] # delivered[x] => delivered'[x] = delivered[x] + 1
      BY <1>1, <1>2, StepInOrder
    <3>2. delivered[Peer(d)] \in Nat /\ Peer(d) \in Devices /\ first[d] \in Nat
      BY <1>1, PeerFacts DEF TypeOK, Limited
    <3> QED
      BY <3>1, <3>2
  <2>3. CASE ack \in AcksFor(d)
    BY <2>2, <2>3 DEF ShortLinkInv, ShortInv, Earned
  <2>4. CASE ack = NoAck
    BY <2>4 DEF Earned, Confirms, NoAck
  <2> QED
    BY <2>1, <2>3, <2>4 DEF AcksEarned
<1> QED
  BY <1>1, <1>3, <1>5, <1>6 DEF ShortLinkInv, ShortInv

(* The behaviours of FairLink are behaviours of Link.                      *)
LEMMA FairStepIsStep == [FNext]_fvars => [Next]_vars
<1> SUFFICES ASSUME [FNext]_fvars PROVE [Next]_vars
  OBVIOUS
<1>1. CASE UNCHANGED fvars
  BY <1>1 DEF fvars
<1>2. ASSUME NEW d \in Devices, SoundStep(d) \/ FaultyStep(d)
      PROVE  Next
  <2>1. \/ SoundRead(d) \/ FaultyRead(d) \/ Program(d)
        \/ Write(d, TRUE) \/ Write(d, FALSE)
    BY <1>2 DEF SoundStep, FaultyStep, SoundWrite, FaultyWrite
  <2>2. TRUE \in BOOLEAN /\ FALSE \in BOOLEAN
    OBVIOUS
  <2> QED
    BY <2>1, <2>2 DEF Next, Tick
<1> QED
  BY <1>1, <1>2 DEF FNext

Zero == [d \in Devices |-> 0]

LEMMA InitShort ==
  ASSUME \A d \in Devices : Sends[d] <= Lap
  PROVE  Limited(Zero) /\ (Init => ShortLinkInv(Zero))
<1>1. Lap \in Nat
  BY GapsFit DEF Fits
<1>2. Limited(Zero)
  BY <1>1 DEF Limited, Zero
<1> SUFFICES ASSUME Init PROVE ShortLinkInv(Zero)
  BY <1>2
<1>3. TypeOK /\ HandshakeInv
  BY InitTypeOK, InitHandshake
<1>4. \A d \in Devices : Direction(d, 0, 1, Lap) /\ accepted[d] = 0
  BY InitDirection, GapsFit
<1>5. Within(Zero)
  BY <1>1, <1>4 DEF Within, Zero
<1>6. ASSUME NEW d \in Devices, NEW ack \in AcksFor(d)
      PROVE  ack = NoAck
  <2>1. Peer(d) \in Devices
    BY PeerFacts
  <2>2. \A e \in Devices : chan[e] = <<>> /\ rd[e].inAck = NoAck /\ rd[e].outAck = NoAck
    BY DEF Init, NewReaders
  <2>3. \A s \in Slots : wr[Peer(d)].slot[s].ack = NoAck
    <3> TAKE s \in Slots
    <3>1. wr[Peer(d)].slot[s] = IF s = 1 THEN NewTx(StartIndex, 0) ELSE FreeTx
      BY <2>1 DEF Init, NewWriter
    <3> QED
      BY <3>1 DEF NewTx, FreeTx
  <2> QED
    BY <1>3, <2>1, <2>2, <2>3, AcksForIs
<1>7. \A ack, del : ack = NoAck => Earned(ack, del, 0)
  BY DEF Earned, Confirms, NoAck
<1> QED
  BY <1>3, <1>4, <1>5, <1>6, <1>7 DEF ShortLinkInv, ShortInv, Zero

LEMMA SessionStart ==
  ASSUME SessionInit, NEW d \in Devices
  PROVE  /\ rd[d] \in Readers /\ rd[d].last = IndexOf(First[Peer(d)])
         /\ rd[d].inAck = NoAck /\ rd[d].outAck = NoAck /\ rd[d].started
         /\ \A s \in Slots : rd[d].slot[s] = FreeRx
         /\ wr[d] \in Writers /\ wr[d].current = IndexOf(First[d]) /\ wr[d].started
         /\ wr[d].earliest = IF First[d] = 0 THEN 1 ELSE IndexOf(First[d])
         /\ \A s \in Slots : wr[d].slot[s] = FreeTx
         /\ chan[d] = <<>> /\ accepted[d] = First[d] /\ delivered[d] = First[Peer(d)]
<1>1. First[d] \in Nat /\ First[Peer(d)] \in Nat
  BY PeerFacts, FirstAssumption DEF FirstAssumption
<1>2. IndexOf(First[Peer(d)]) \in 0 .. MaxIndex /\ IndexOf(First[d]) \in 0 .. MaxIndex
  BY <1>1, IndexOfType
<1>3. (IF First[d] = 0 THEN 1 ELSE IndexOf(First[d])) \in 1 .. StartIndex
  <2>1. First[d] > 0 => IndexOf(First[d]) \in 1 .. MaxIndex
    BY <1>1, IndexOfType DEF DataIndices
  <2> QED
    BY <1>1, <2>1, IndexFacts DEF StartIndex
<1>4. rd[d] = [slot |-> [s \in Slots |-> FreeRx], last |-> IndexOf(First[Peer(d)]),
               current |-> NoSlot, inAck |-> NoAck, outAck |-> NoAck, started |-> TRUE]
  BY DEF SessionInit
<1>5. wr[d] = [slot |-> [s \in Slots |-> FreeTx], current |-> IndexOf(First[d]),
               earliest |-> IF First[d] = 0 THEN 1 ELSE IndexOf(First[d]), started |-> TRUE]
  BY DEF SessionInit
<1>6. rd[d] \in Readers
  BY <1>2, <1>4, RxSlotFacts, AckFacts DEF Readers
<1>7. wr[d] \in Writers
  BY <1>2, <1>3, <1>5, TxSlotFacts DEF Writers
<1> QED
  BY <1>4, <1>5, <1>6, <1>7 DEF SessionInit

LEMMA SessionDirection ==
  ASSUME SessionInit, NEW d \in Devices, NEW first \in Nat, NEW e \in Nat, NEW gap \in Nat,
         first <= First[d], e <= First[d] + 1, First[d] < e + gap
  PROVE  Direction(d, first, e, gap)
<1>1. Peer(d) \in Devices /\ Peer(Peer(d)) = d /\ First[d] \in Nat
  BY PeerFacts, FirstAssumption DEF FirstAssumption
<1>2. /\ wr[d].current = IndexOf(First[d]) /\ wr[d].started
      /\ rd[Peer(d)].last = IndexOf(First[d]) /\ chan[Peer(d)] = <<>>
      /\ accepted[d] = First[d] /\ delivered[Peer(d)] = First[d]
      /\ \A s \in Slots : wr[d].slot[s] = FreeTx /\ rd[Peer(d)].slot[s] = FreeRx
  BY <1>1, SessionStart
<1>3. NoMessage(FreeTx) /\ FreeRx.state # "parsed" /\ FreeRx.index = 0
  BY IndexFacts DEF NoMessage, FreeTx, FreeRx, DataIndices
<1>4. DirectionInv(wr[d], <<>>, rd[Peer(d)], First[d], First[d], first, e, gap)
  BY <1>1, <1>2, <1>3, DirectionBegins
<1> QED
  BY <1>2, <1>4 DEF Direction

LEMMA SessionTypes == SessionInit => TypeOK /\ HandshakeInv
<1> SUFFICES ASSUME SessionInit PROVE TypeOK /\ HandshakeInv
  OBVIOUS
<1>1. TypeOK
  <2>1. \A d \in Devices : Peer(d) \in Devices /\ First[Peer(d)] \in Nat
    BY PeerFacts, FirstAssumption DEF FirstAssumption
  <2>2. rd \in [Devices -> Readers] /\ wr \in [Devices -> Writers]
    BY SessionStart DEF SessionInit
  <2>3. /\ chan \in [Devices -> Seq(Frames)] /\ accepted \in [Devices -> Nat]
        /\ delivered \in [Devices -> Nat]
        /\ phase \in [Devices -> {"reading", "ticked", "received"}]
    BY <2>1, FirstAssumption DEF SessionInit, FirstAssumption
  <2> QED
    BY <2>2, <2>3 DEF TypeOK
<1>2. ASSUME NEW d \in Devices
      PROVE  StartAcksAreEarned(d) /\ WriterOpensOrSends(d) /\ LineOpensThenSends(d)
  <2>1. Peer(d) \in Devices
    BY PeerFacts
  <2>2. FreeTx.index = 0 /\ FreeTx.ack = NoAck
    BY TxSlotFacts
  <2>3. StartAcksAreEarned(d)
    BY <2>1, <2>2, SessionStart, AckFacts DEF StartAcksAreEarned
  <2>4. WriterOpensOrSends(d)
    BY <2>2, SessionStart, IndexFacts DEF WriterOpensOrSends, StartIndex
  <2>5. LineOpensThenSends(d)
    BY <2>1, SessionStart DEF LineOpensThenSends
  <2> QED
    BY <2>3, <2>4, <2>5
<1> QED
  BY <1>1, <1>2 DEF HandshakeInv

LEMMA SessionShort ==
  ASSUME ShortSession
  PROVE  Limited(First) /\ (SessionInit => ShortLinkInv(First))
<1>1. Lap \in Nat
  BY GapsFit DEF Fits
<1>2. Limited(First)
  BY <1>1, FirstAssumption, LinkAssumption DEF Limited, FirstAssumption, LinkAssumption, ShortSession
<1> SUFFICES ASSUME SessionInit PROVE ShortLinkInv(First)
  BY <1>2
<1>3. TypeOK /\ HandshakeInv
  BY SessionTypes
<1>4. ASSUME NEW d \in Devices
      PROVE  Direction(d, First[d], First[d] + 1, Lap)
  <2>1. First[d] \in Nat /\ First[d] + 1 \in Nat /\ First[d] < First[d] + 1 + Lap
    BY <1>1, FirstAssumption DEF FirstAssumption
  <2> QED
    BY <1>1, <2>1, SessionDirection
<1>5. Within(First)
  <2> SUFFICES ASSUME NEW d \in Devices PROVE accepted[d] <= First[d] + Lap
    BY DEF Within
  <2>1. First[d] \in Nat /\ accepted[d] = First[d]
    BY FirstAssumption, SessionStart DEF FirstAssumption
  <2> QED
    BY <1>1, <2>1
<1>6. ASSUME NEW d \in Devices, NEW ack \in AcksFor(d)
      PROVE  Earned(ack, delivered[Peer(d)], First[d])
  <2>1. Peer(d) \in Devices
    BY PeerFacts
  <2>2. ack = NoAck
    BY <1>3, <2>1, SessionStart, AcksForIs, TxSlotFacts
  <2> QED
    BY <2>2 DEF Earned, Confirms, NoAck
<1> QED
  BY <1>3, <1>4, <1>5, <1>6 DEF ShortLinkInv, ShortInv

LEMMA ShortDelivers ==
  ASSUME NEW first, Limited(first), ShortLinkInv(first)
  PROVE  /\ AcksAreTrue /\ NoLoss /\ WindowsAgree /\ SpaceComesBack
         /\ [Next]_vars => \A d \in Devices :
              delivered'[d] # delivered[d] => delivered'[d] = delivered[d] + 1
<1>1. TypeOK
  BY DEF ShortLinkInv
<1>2. \A d \in Devices : \E f, e, gap : DirSound(d, f, e, gap)
  BY ShortIsSound DEF ShortLinkInv
<1> QED
  BY <1>1, <1>2, ShortAcksAreTrue, DirectionDelivers, StepInOrder

(* Two devices that are switched on and send each other no more messages   *)
(* than the index range less a buffer (123 each, with the constants of the *)
(* code) lose none, repeat none and never run out of buffer space for      *)
(* good, whatever the line does.                                           *)
THEOREM ShortLinkDelivers ==
  ASSUME \A d \in Devices : Sends[d] <= Lap
  PROVE  Spec => [](AcksAreTrue /\ NoLoss /\ WindowsAgree /\ SpaceComesBack) /\ InOrder
<1> DEFINE Inv == ShortLinkInv(Zero)
           Good == AcksAreTrue /\ NoLoss /\ WindowsAgree /\ SpaceComesBack
           Step == \A d \in Devices :
             delivered'[d] # delivered[d] => delivered'[d] = delivered[d] + 1
<1>1. Init => Inv
  BY InitShort
<1>2. Inv /\ [Next]_vars => Inv'
  BY InitShort, NextShort
<1>3. Inv => Good
  BY InitShort, ShortDelivers
<1>4. Inv /\ [Next]_vars => [Step]_vars
  BY InitShort, ShortDelivers
<1> HIDE DEF Inv, Good, Step
<1>5. Spec => []Good /\ [][Step]_vars
  BY <1>1, <1>2, <1>3, <1>4, PTL DEF Spec
<1> QED
  BY <1>5 DEF Good, Step, InOrder

(* The same from any point of a session at which everything sent has been  *)
(* delivered and acknowledged, so also across the wrap-around of indices.  *)
THEOREM ShortSessionDelivers ==
  ASSUME ShortSession
  PROVE  SessionSpec => [](AcksAreTrue /\ NoLoss /\ WindowsAgree /\ SpaceComesBack) /\ InOrder
<1> DEFINE Inv == ShortLinkInv(First)
           Good == AcksAreTrue /\ NoLoss /\ WindowsAgree /\ SpaceComesBack
           Step == \A d \in Devices :
             delivered'[d] # delivered[d] => delivered'[d] = delivered[d] + 1
<1>1. SessionInit => Inv
  BY SessionShort
<1>2. Inv /\ [FNext]_fvars => Inv'
  BY SessionShort, NextShort, FairStepIsStep
<1>3. Inv => Good
  BY SessionShort, ShortDelivers
<1>4. Inv /\ [FNext]_fvars => [Step]_vars
  BY SessionShort, ShortDelivers, FairStepIsStep
<1> HIDE DEF Inv, Good, Step
<1>5. SessionSpec => []Good /\ [][Step]_vars
  BY <1>1, <1>2, <1>3, <1>4, PTL DEF SessionSpec
<1> QED
  BY <1>5 DEF Good, Step, InOrder

-----------------------------------------------------------------------------
(* Sessions of any length in which only one device sends. *)

LEMMA PunctualKeeps ==
  ASSUME NEW ack, NEW ahead, NEW w, NEW acc \in Nat, NEW del \in Nat,
         Punctual(ack, ahead, w, acc, del),
         NEW fewer, \A other \in fewer : Confirms(other) => other \in ahead,
         NEW later \in Nat, del <= later
  PROVE  Punctual(ack, fewer, w, acc, later)
BY DEF Punctual

(* The messages that an ack is late by fit in the sender's buffer, so that *)
(* it cannot be mistaken for an ack of one that is not delivered yet.      *)
LEMMA LateIsNotNew ==
  ASSUME NEW w \in Writers, NEW acc \in Nat, NEW del \in Nat, NEW m \in 1 .. del,
         \A n \in m + MaxGap .. acc : \E s \in Slots : w.slot[s].data = n,
         NEW n \in del + 1 .. acc
  PROVE  IndexOf(m) # IndexOf(n)
<1> DEFINE low == m + MaxGap - 1
<1>1. /\ MaxGap \in Nat /\ MaxIndex \in Nat /\ BufferSize \in Nat
      /\ MaxGap + BufferSize <= MaxIndex
  BY IndexAssumption DEF IndexAssumption
<1>2. low \in Int /\ low + 1 = m + MaxGap /\ acc \in Int
  BY <1>1
<1>3. acc <= low + BufferSize
  BY <1>2, RoomFor
<1>4. m \in Nat /\ n \in Nat /\ m < n /\ n < m + MaxIndex
  BY <1>1, <1>2, <1>3
<1> QED
  BY <1>1, <1>4, IndexOfSame

(* An ack just earned.                                                     *)
LEMMA NewAckIsPunctual ==
  ASSUME NEW ack, NEW ahead, NEW w \in Writers, NEW acc \in Nat, NEW del \in Nat,
         NEW m \in 1 .. del, ack.index = IndexOf(m), del < m + MaxGap,
         \A n \in del + 1 .. acc : \E s \in Slots : w.slot[s].data = n,
         \A other \in ahead : \E before : Punctual(other, before, w, acc, del)
  PROVE  Punctual(ack, ahead, w, acc, del)
<1>1. ASSUME NEW n \in m + MaxGap .. acc
      PROVE  /\ \E s \in Slots : w.slot[s].data = n
             /\ \A other \in ahead : Confirms(other) => other.index # IndexOf(n)
  <2>1. n \in del + 1 .. acc
    BY <1>1, IndexFacts
  <2>2. ASSUME NEW other \in ahead, Confirms(other)
        PROVE  other.index # IndexOf(n)
    <3>1. PICK before : Punctual(other, before, w, acc, del)
      OBVIOUS
    <3>2. PICK k \in 1 .. del :
            /\ other.index = IndexOf(k)
            /\ \A j \in k + MaxGap .. acc : \E s \in Slots : w.slot[s].data = j
      BY <2>2, <3>1 DEF Punctual
    <3> QED
      BY <2>1, <3>2, LateIsNotNew, ZenonT(60)
  <2> QED
    BY <2>1, <2>2
<1> QED
  BY <1>1 DEF Punctual

(* A message is added, to a buffer that had room for it.                   *)
LEMMA AddingIsPunctual ==
  ASSUME NEW w \in Writers, NEW q \in Writers, NEW acc \in Nat, NEW del \in Nat, del <= acc,
         NEW s \in Slots, w.slot[s].data = 0,
         \A t \in Slots : q.slot[t].data = IF t = s THEN acc + 1 ELSE w.slot[t].data,
         NEW ack, NEW ahead, Punctual(ack, ahead, w, acc, del),
         \A other \in ahead : \E before : Punctual(other, before, w, acc, del)
  PROVE  Punctual(ack, ahead, q, acc + 1, del)
<1> DEFINE Late(a, m) ==
             /\ a.index = IndexOf(m)
             /\ \A n \in m + MaxGap .. acc + 1 : \E t \in Slots : q.slot[t].data = n
<1>1. ASSUME NEW m \in 1 .. del, NEW n \in m + MaxGap .. acc + 1,
             n <= acc => \E t \in Slots : w.slot[t].data = n
      PROVE  \E t \in Slots : q.slot[t].data = n
  <2>1. CASE n = acc + 1
    BY <2>1
  <2>2. CASE n # acc + 1
    <3>1. n <= acc /\ n # 0
      BY <2>2, IndexFacts
    <3> QED
      BY <1>1, <3>1
  <2> QED
    BY <2>1, <2>2
<1>2. ASSUME NEW a, NEW before, Punctual(a, before, w, acc, del), Confirms(a)
      PROVE  \E m \in 1 .. del :
               /\ Late(a, m)
               /\ \A n \in m + MaxGap .. acc :
                    \A other \in before : Confirms(other) => other.index # IndexOf(n)
  <2>1. PICK m \in 1 .. del :
          /\ a.index = IndexOf(m)
          /\ \A n \in m + MaxGap .. acc :
               /\ \E t \in Slots : w.slot[t].data = n
               /\ \A other \in before : Confirms(other) => other.index # IndexOf(n)
    BY <1>2 DEF Punctual
  <2>2. ASSUME NEW n \in m + MaxGap .. acc + 1
        PROVE  \E t \in Slots : q.slot[t].data = n
    <3>1. n <= acc => n \in m + MaxGap .. acc
      BY <2>2, IndexFacts
    <3> QED
      BY <1>1, <2>1, <2>2, <3>1
  <2> QED
    BY <2>1, <2>2
<1>3. SUFFICES ASSUME Confirms(ack)
               PROVE  \E m \in 1 .. del :
                        /\ Late(ack, m)
                        /\ \A n \in m + MaxGap .. acc + 1 :
                             \A other \in ahead : Confirms(other) => other.index # IndexOf(n)
  BY DEF Punctual
<1> HIDE DEF Late
<1>4. PICK m \in 1 .. del :
        /\ Late(ack, m)
        /\ \A n \in m + MaxGap .. acc :
             \A other \in ahead : Confirms(other) => other.index # IndexOf(n)
  BY <1>2, <1>3
<1>5. ASSUME NEW n \in m + MaxGap .. acc + 1, NEW other \in ahead, Confirms(other)
      PROVE  other.index # IndexOf(n)
  <2>1. CASE n <= acc
    <3>1. n \in m + MaxGap .. acc
      BY <1>5, <2>1, IndexFacts
    <3> QED
      BY <1>4, <1>5, <3>1
  <2>2. CASE n = acc + 1
    <3>1. PICK before : Punctual(other, before, w, acc, del)
      BY <1>5
    <3>2. PICK k \in 1 .. del : Late(other, k)
      BY <1>2, <1>5, <3>1
    <3>3. acc + 1 \in Nat /\ n \in del + 1 .. acc + 1
      BY <2>2
    <3>4. /\ other.index = IndexOf(k)
          /\ \A j \in k + MaxGap .. acc + 1 : \E t \in Slots : q.slot[t].data = j
      BY <3>2 DEF Late
    <3> HIDE DEF Late
    <3>5. IndexOf(k) # IndexOf(n)
      BY <3>3, <3>4, LateIsNotNew, ZenonT(60)
    <3> QED
      BY <3>4, <3>5
  <2> QED
    BY <1>5, <2>1, <2>2, IndexFacts
<1> QED
  BY <1>4, <1>5 DEF Late

(* A message is removed, by an ack that was ahead of this one.             *)
LEMMA RemovingIsPunctual ==
  ASSUME NEW w, NEW q, NEW acc \in Nat, NEW del \in Nat, SenderInv(w, acc, del, 0),
         NEW ack, NEW ahead, NEW out \in ahead, out # StartAck,
         \A s \in Slots : ~Removes(out, w.slot[s].index) => SameMessage(w.slot[s], q.slot[s]),
         Punctual(ack, ahead, w, acc, del)
  PROVE  Punctual(ack, ahead, q, acc, del)
<1> SUFFICES ASSUME Confirms(ack), NEW m \in 1 .. del, NEW n \in m + MaxGap .. acc,
                    NEW s \in Slots, w.slot[s].data = n,
                    Confirms(out) => out.index # IndexOf(n)
             PROVE  q.slot[s].data = n
  BY DEF Punctual
<1>1. n # 0
  BY IndexFacts
<1>2. w.slot[s].index = IndexOf(n)
  BY <1>1 DEF SenderInv, Carries
<1> QED
  BY <1>2 DEF Removes, SameMessage

(* Every ack on its way is punctual, with respect to some acks.            *)
LEMMA AllPunctual ==
  ASSUME NEW out, NEW c, NEW in, NEW w, NEW acc, NEW del,
         AcksInOrder(out, c, in, w, acc, del)
  PROVE  /\ \E ahead : Punctual(out, ahead, w, acc, del)
         /\ \A i \in 1 .. Len(c) : \E ahead : Punctual(c[i].ack, ahead, w, acc, del)
<1>1. /\ Punctual(out, {}, w, acc, del)
      /\ \A i \in 1 .. Len(c) : Punctual(c[i].ack, AcksAhead(out, c, i), w, acc, del)
  BY DEF AcksInOrder
<1> QED
  BY <1>1

LEMMA AheadIsPunctual ==
  ASSUME NEW out, NEW c \in Seq(Frames), NEW in, NEW w, NEW acc, NEW del,
         AcksInOrder(out, c, in, w, acc, del),
         NEW i \in Nat, i <= Len(c) + 1, NEW other \in AcksAhead(out, c, i)
  PROVE  \E ahead : Punctual(other, ahead, w, acc, del)
<1>1. CASE other = out
  BY <1>1, AllPunctual
<1>2. CASE other # out
  <2>1. PICK j \in 1 .. i - 1 : other = c[j].ack
    BY <1>2 DEF AcksAhead
  <2>2. j \in 1 .. Len(c)
    BY <2>1
  <2> QED
    BY <2>1, <2>2, AllPunctual
<1> QED
  BY <1>1, <1>2

(* The sender reads a packet: the first ack of the line is now the first   *)
(* of all, or lost.                                                        *)
LEMMA AckArrives ==
  ASSUME NEW out, NEW c \in Seq(Frames), NEW in, NEW w, NEW acc \in Nat, NEW del \in Nat,
         AcksInOrder(out, c, in, w, acc, del), out.index = 0, c # <<>>,
         NEW next \in {out, NoAck, Head(c).ack}
  PROVE  AcksInOrder(next, Tail(c), in, w, acc, del)
<1>1. /\ Head(c) = c[1] /\ 1 \in 1 .. Len(c)
      /\ Tail(c) \in Seq(Frames) /\ Len(Tail(c)) = Len(c) - 1
      /\ \A i \in 1 .. Len(Tail(c)) : Tail(c)[i] = c[i + 1] /\ i + 1 \in 1 .. Len(c)
  OBVIOUS
<1>2. ~Confirms(out) /\ ~Confirms(NoAck)
  BY DEF Confirms, NoAck
<1>3. Confirms(next) => next = c[1].ack
  BY <1>1, <1>2
<1>4. ASSUME NEW i \in 1 .. Len(Tail(c)) + 1, NEW other \in AcksAhead(next, Tail(c), i),
             Confirms(other)
      PROVE  other \in AcksAhead(out, c, i + 1)
  <2>1. CASE other = next
    <3>1. other = c[1].ack /\ 1 \in 1 .. (i + 1) - 1
      BY <1>3, <1>4, <2>1
    <3> QED
      BY <3>1 DEF AcksAhead
  <2>2. CASE other # next
    <3>1. PICK j \in 1 .. i - 1 : other = Tail(c)[j].ack
      BY <1>4, <2>2 DEF AcksAhead
    <3>2. j \in 1 .. Len(Tail(c)) /\ j + 1 \in 1 .. (i + 1) - 1
      BY <1>1, <3>1
    <3>3. other = c[j + 1].ack
      BY <1>1, <3>1, <3>2
    <3> QED
      BY <3>2, <3>3 DEF AcksAhead
  <2> QED
    BY <2>1, <2>2
<1>5. Punctual(next, {}, w, acc, del)
  <2>1. CASE ~Confirms(next)
    BY <2>1 DEF Punctual
  <2>2. CASE Confirms(next)
    <3>1. Punctual(next, AcksAhead(out, c, 1), w, acc, del)
      BY <1>1, <1>3, <2>2 DEF AcksInOrder
    <3> QED
      BY <3>1, PunctualKeeps
  <2> QED
    BY <2>1, <2>2
<1>6. ASSUME NEW i \in 1 .. Len(Tail(c))
      PROVE  Punctual(Tail(c)[i].ack, AcksAhead(next, Tail(c), i), w, acc, del)
  <2>1. Punctual(c[i + 1].ack, AcksAhead(out, c, i + 1), w, acc, del)
    BY <1>1 DEF AcksInOrder
  <2>2. i \in 1 .. Len(Tail(c)) + 1
    BY <1>1
  <2>3. \A other \in AcksAhead(next, Tail(c), i) :
          Confirms(other) => other \in AcksAhead(out, c, i + 1)
    BY <1>4, <2>2
  <2>4. Punctual(c[i + 1].ack, AcksAhead(next, Tail(c), i), w, acc, del)
    BY <2>1, <2>3, PunctualKeeps
  <2> QED
    BY <1>1, <2>4
<1>7. Punctual(in, AcksAhead(next, Tail(c), Len(Tail(c)) + 1), w, acc, del)
  <2> DEFINE i == Len(Tail(c)) + 1
  <2>1. i \in 1 .. Len(Tail(c)) + 1 /\ i + 1 = Len(c) + 1
    BY <1>1
  <2>2. Punctual(in, AcksAhead(out, c, i + 1), w, acc, del)
    BY <2>1 DEF AcksInOrder
  <2> HIDE DEF i
  <2>3. \A other \in AcksAhead(next, Tail(c), i) :
          Confirms(other) => other \in AcksAhead(out, c, i + 1)
    BY <1>4, <2>1
  <2>4. Punctual(in, AcksAhead(next, Tail(c), i), w, acc, del)
    BY <2>2, <2>3, PunctualKeeps
  <2> QED
    BY <2>4 DEF i
<1> QED
  BY <1>5, <1>6, <1>7 DEF AcksInOrder

(* The receiver owes another ack, maybe since it has taken a message.      *)
LEMMA AckIsEarned ==
  ASSUME NEW out, NEW c \in Seq(Frames), NEW in, NEW w \in Writers, NEW acc \in Nat,
         NEW del \in Nat, AcksInOrder(out, c, in, w, acc, del),
         NEW later \in Nat, del <= later,
         \A n \in later + 1 .. acc : \E s \in Slots : w.slot[s].data = n,
         NEW next,
         Confirms(next) => \/ next = in
                           \/ \E m \in 1 .. later : /\ next.index = IndexOf(m)
                                                    /\ later < m + MaxGap
  PROVE  AcksInOrder(out, c, next, w, acc, later)
<1>1. Punctual(out, {}, w, acc, later)
  BY PunctualKeeps DEF AcksInOrder
<1>2. ASSUME NEW i \in 1 .. Len(c)
      PROVE  Punctual(c[i].ack, AcksAhead(out, c, i), w, acc, later)
  BY PunctualKeeps DEF AcksInOrder
<1> DEFINE ahead == AcksAhead(out, c, Len(c) + 1)
<1>3. Punctual(in, ahead, w, acc, later)
  BY PunctualKeeps DEF AcksInOrder
<1>4. ASSUME NEW other \in ahead
      PROVE  \E before : Punctual(other, before, w, acc, later)
  <2>1. PICK before : Punctual(other, before, w, acc, del)
    BY AheadIsPunctual
  <2> QED
    BY <2>1, PunctualKeeps
<1>5. Punctual(next, ahead, w, acc, later)
  <2> HIDE DEF ahead
  <2>1. CASE ~Confirms(next)
    BY <2>1 DEF Punctual
  <2>2. CASE next = in
    BY <1>3, <2>2
  <2>3. ASSUME NEW m \in 1 .. later, next.index = IndexOf(m), later < m + MaxGap
        PROVE  Punctual(next, ahead, w, acc, later)
    BY <1>4, <2>3, NewAckIsPunctual
  <2> QED
    BY <2>1, <2>2, <2>3
<1> QED
  BY <1>1, <1>2, <1>5 DEF AcksInOrder

(* The receiver sends its ack, which may be lost.                          *)
LEMMA AckIsSent ==
  ASSUME NEW out, NEW c \in Seq(Frames), NEW in, NEW w, NEW acc \in Nat, NEW del \in Nat,
         AcksInOrder(out, c, in, w, acc, del),
         NEW f \in Frames, f.ack = in, NEW b \in {c, Append(c, f)}
  PROVE  AcksInOrder(out, b, NoAck, w, acc, del)
<1>1. \A ahead : Punctual(NoAck, ahead, w, acc, del)
  BY DEF Punctual, Confirms, NoAck
<1>2. CASE b = c
  BY <1>1, <1>2 DEF AcksInOrder
<1>3. CASE b = Append(c, f)
  <2>1. /\ Len(b) = Len(c) + 1 /\ b[Len(c) + 1] = f
        /\ \A i \in 1 .. Len(c) : b[i] = c[i]
    BY <1>3
  <2>2. ASSUME NEW i \in 1 .. Len(c) + 1
        PROVE  AcksAhead(out, b, i) = AcksAhead(out, c, i)
    <3>1. \A j \in 1 .. i - 1 : b[j] = c[j]
      BY <2>1
    <3> QED
      BY <3>1 DEF AcksAhead
  <2>3. ASSUME NEW i \in 1 .. Len(b)
        PROVE  Punctual(b[i].ack, AcksAhead(out, b, i), w, acc, del)
    <3>1. CASE i \in 1 .. Len(c)
      <4>1. i \in 1 .. Len(c) + 1 /\ b[i] = c[i]
        BY <2>1, <3>1
      <4>2. Punctual(c[i].ack, AcksAhead(out, c, i), w, acc, del)
        BY <3>1 DEF AcksInOrder
      <4> QED
        BY <2>2, <4>1, <4>2
    <3>2. CASE i = Len(c) + 1
      <4>1. i \in 1 .. Len(c) + 1 /\ b[i].ack = in
        BY <2>1, <3>2
      <4>2. Punctual(in, AcksAhead(out, c, i), w, acc, del)
        BY <3>2 DEF AcksInOrder
      <4> QED
        BY <2>2, <4>1, <4>2
    <3> QED
      BY <2>1, <3>1, <3>2
  <2> QED
    BY <1>1, <2>3 DEF AcksInOrder
<1> QED
  BY <1>2, <1>3

(* The sender takes a message from its program.                            *)
LEMMA AckOfOlder ==
  ASSUME NEW out, NEW c \in Seq(Frames), NEW in, NEW w \in Writers, NEW q \in Writers,
         NEW acc \in Nat, NEW del \in Nat, del <= acc, AcksInOrder(out, c, in, w, acc, del),
         NEW s \in Slots, w.slot[s].data = 0,
         \A t \in Slots : q.slot[t].data = IF t = s THEN acc + 1 ELSE w.slot[t].data
  PROVE  AcksInOrder(out, c, in, q, acc + 1, del)
<1>1. ASSUME NEW i \in 1 .. Len(c) + 1, NEW ack,
             Punctual(ack, AcksAhead(out, c, i), w, acc, del)
      PROVE  Punctual(ack, AcksAhead(out, c, i), q, acc + 1, del)
  <2>1. \A other \in AcksAhead(out, c, i) : \E before : Punctual(other, before, w, acc, del)
    BY AheadIsPunctual
  <2> QED
    BY <1>1, <2>1, AddingIsPunctual
<1>2. Punctual(out, {}, q, acc + 1, del)
  <2>1. Punctual(out, {}, w, acc, del)
    BY DEF AcksInOrder
  <2> QED
    BY <2>1, AddingIsPunctual
<1>3. ASSUME NEW i \in 1 .. Len(c)
      PROVE  Punctual(c[i].ack, AcksAhead(out, c, i), q, acc + 1, del)
  <2>1. i \in 1 .. Len(c) + 1 /\ Punctual(c[i].ack, AcksAhead(out, c, i), w, acc, del)
    BY DEF AcksInOrder
  <2> QED
    BY <1>1, <2>1
<1>4. Punctual(in, AcksAhead(out, c, Len(c) + 1), q, acc + 1, del)
  <2>1. Len(c) + 1 \in 1 .. Len(c) + 1
    OBVIOUS
  <2>2. Punctual(in, AcksAhead(out, c, Len(c) + 1), w, acc, del)
    BY DEF AcksInOrder
  <2> QED
    BY <1>1, <2>1, <2>2
<1> QED
  BY <1>2, <1>3, <1>4 DEF AcksInOrder

(* The sender acts on the ack it has read, and pops it.                    *)
LEMMA AckIsUsed ==
  ASSUME NEW out, NEW c \in Seq(Frames), NEW in, NEW w, NEW q,
         NEW acc \in Nat, NEW del \in Nat, SenderInv(w, acc, del, 0),
         AcksInOrder(out, c, in, w, acc, del), out # StartAck,
         \A s \in Slots : ~Removes(out, w.slot[s].index) => SameMessage(w.slot[s], q.slot[s])
  PROVE  AcksInOrder(NoAck, c, in, q, acc, del)
<1>1. ASSUME NEW i \in 1 .. Len(c) + 1, NEW ack,
             Punctual(ack, AcksAhead(out, c, i), w, acc, del)
      PROVE  Punctual(ack, AcksAhead(NoAck, c, i), q, acc, del)
  <2>1. out \in AcksAhead(out, c, i)
    BY DEF AcksAhead
  <2>2. Punctual(ack, AcksAhead(out, c, i), q, acc, del)
    BY <1>1, <2>1, RemovingIsPunctual
  <2>3. \A other \in AcksAhead(NoAck, c, i) : Confirms(other) => other \in AcksAhead(out, c, i)
    BY DEF AcksAhead, Confirms, NoAck
  <2> QED
    BY <2>2, <2>3, PunctualKeeps
<1>2. Punctual(NoAck, {}, q, acc, del)
  BY DEF Punctual, Confirms, NoAck
<1>3. ASSUME NEW i \in 1 .. Len(c)
      PROVE  Punctual(c[i].ack, AcksAhead(NoAck, c, i), q, acc, del)
  <2>1. i \in 1 .. Len(c) + 1 /\ Punctual(c[i].ack, AcksAhead(out, c, i), w, acc, del)
    BY DEF AcksInOrder
  <2> QED
    BY <1>1, <2>1
<1>4. Punctual(in, AcksAhead(NoAck, c, Len(c) + 1), q, acc, del)
  <2>1. Len(c) + 1 \in 1 .. Len(c) + 1
    OBVIOUS
  <2>2. Punctual(in, AcksAhead(out, c, Len(c) + 1), w, acc, del)
    BY DEF AcksInOrder
  <2> QED
    BY <1>1, <2>1, <2>2
<1> QED
  BY <1>2, <1>3, <1>4 DEF AcksInOrder

(* Only d sends, and both sequences have started.                          *)
OneWayLinkInv(d) ==
  /\ TypeOK /\ HandshakeInv /\ ScanInv
  /\ OneWayInv(d)
  /\ wr[d].started
  /\ Sends[Peer(d)] <= accepted[Peer(d)]

LEMMA OneWayIsSound ==
  ASSUME NEW d \in Devices, OneWayLinkInv(d)
  PROVE  \E e : /\ DirSound(d, 0, e, MaxGap)
                /\ SenderInv(wr[d], accepted[d], delivered[Peer(d)], 0)
                /\ delivered[Peer(d)] <= accepted[d]
<1>1. PICK e \in 1 .. accepted[d] + 1 : Scans(d, e)
  BY DEF OneWayLinkInv, ScanInv
<1>2. e \in Nat /\ e > 0 /\ TypeOK
  BY DEF OneWayLinkInv, TypeOK
<1>3. DirSound(d, 0, e, MaxGap)
  BY <1>1, <1>2, ScansIs
<1> QED
  BY <1>3 DEF DirSound, Sound, DirectionInv

(* No ack outlives its packet until the index is used again.               *)
LEMMA OneWayAcksAreTrue ==
  ASSUME NEW d \in Devices, OneWayLinkInv(d)
  PROVE  AcksAreTrue /\ StartAcksAreEarly
<1> DEFINE p == Peer(d)
           w == wr[d]
           acc == accepted[d]
           del == delivered[p]
<1>1. p \in Devices /\ p # d /\ Peer(p) = d /\ \A x \in Devices : x = d \/ x = p
  BY PeerFacts
<1>2. TypeOK /\ Talks(d) /\ Listens(p)
  BY DEF OneWayLinkInv, OneWayInv
<1>3. AcksInOrder(rd[d].outAck, chan[d], rd[p].inAck, w, acc, del)
  BY DEF OneWayLinkInv, OneWayInv
<1>4. SenderInv(w, acc, del, 0) /\ del <= acc
  BY OneWayIsSound
<1>5. w \in Writers /\ acc \in Nat /\ del \in Nat /\ chan[d] \in Seq(Frames)
  BY <1>1, <1>2 DEF TypeOK
<1> HIDE DEF p
<1>6. StartAcksAreEarly
  BY <1>1, <1>2 DEF StartAcksAreEarly, Talks, Listens, NoAck, StartAck
<1>7. ASSUME NEW ack \in AcksInTransit(d), NEW s \in Slots,
             ack.index # 0, ~ack.error, w.slot[s].index = ack.index
      PROVE  w.slot[s].data <= del
  <2>1. \E ahead : Punctual(ack, ahead, w, acc, del)
    <3>1. ack = rd[d].outAck \/ \E i \in DOMAIN chan[d] : ack = chan[d][i].ack
      BY <1>7 DEF AcksInTransit, InTransit
    <3>2. DOMAIN chan[d] = 1 .. Len(chan[d])
      BY <1>5
    <3> QED
      BY <1>3, <3>1, <3>2, AllPunctual
  <2>2. PICK m \in 1 .. del :
          /\ ack.index = IndexOf(m)
          /\ \A n \in m + MaxGap .. acc : \E t \in Slots : w.slot[t].data = n
    BY <1>7, <2>1 DEF Punctual, Confirms
  <2>3. m \in Nat /\ m > 0
    OBVIOUS
  <2>4. w.slot[s].index \in DataIndices
    BY <1>7, <2>2, <2>3, IndexOfType
  <2>5. w.slot[s].data \in 1 .. acc /\ w.slot[s].index = IndexOf(w.slot[s].data)
    BY <1>4, <2>4 DEF SenderInv, Carries
  <2> DEFINE n == w.slot[s].data
  <2> HIDE DEF w, acc, del
  <2>6. ASSUME n > del
        PROVE  FALSE
    <3>1. n \in del + 1 .. acc /\ IndexOf(m) = IndexOf(n)
      BY <1>5, <1>7, <2>2, <2>5, <2>6
    <3> HIDE DEF n
    <3> QED
      BY <1>5, <2>2, <3>1, LateIsNotNew
  <2> QED
    BY <1>5, <2>5, <2>6
<1>8. ASSUME NEW ack \in AcksInTransit(p), NEW s \in Slots, ack.index # 0
      PROVE  wr[p].slot[s].index # ack.index
  BY <1>2, <1>8 DEF Listens
<1> QED
  BY <1>1, <1>6, <1>7, <1>8 DEF AcksAreTrue, p

LEMMA ReadKeepsOneWay ==
  ASSUME NEW d \in Devices, OneWayLinkInv(d), NEW a \in Devices, SoundRead(a) \/ FaultyRead(a)
  PROVE  OneWayInv(d)' /\ UNCHANGED <<wr, accepted>>
<1> DEFINE p == Peer(d)
<1>1. p \in Devices /\ p # d /\ Peer(p) = d /\ (a = d \/ a = p)
  BY PeerFacts
<1>2. TypeOK /\ HandshakeInv /\ Talks(d) /\ Listens(p)
  BY DEF OneWayLinkInv, OneWayInv
<1>3. AcksInOrder(rd[d].outAck, chan[d], rd[p].inAck, wr[d], accepted[d], delivered[p])
  BY DEF OneWayLinkInv, OneWayInv
<1>4. PICK q, b : ReadStep(a, q, b)
  BY <1>2, AnyReadStep
<1>5. /\ UNCHANGED <<wr, accepted, delivered>>
      /\ rd'[a] = q /\ chan'[a] = b
      /\ \A x \in Devices : x # a => rd'[x] = rd[x] /\ chan'[x] = chan[x]
      /\ AcksFlushed(rd[a]) /\ Reads(rd[a], chan[a], q, b)
  BY <1>2, <1>4 DEF ReadStep, TypeOK
<1>6. /\ wr[d] \in Writers /\ accepted[d] \in Nat /\ delivered[p] \in Nat
      /\ chan[d] \in Seq(Frames) /\ chan[p] \in Seq(Frames)
  BY <1>1, <1>2 DEF TypeOK
<1> HIDE DEF p
<1>7. CASE b = chan[a] /\ q.inAck = rd[a].inAck /\ q.outAck = rd[a].outAck
  <2>1. \A x \in Devices : /\ rd'[x].inAck = rd[x].inAck /\ rd'[x].outAck = rd[x].outAck
                           /\ chan'[x] = chan[x] /\ wr'[x] = wr[x]
    BY <1>5, <1>7
  <2> QED
    BY <1>1, <1>2, <1>3, <1>5, <2>1 DEF OneWayInv, Talks, Listens, p
<1>8. CASE chan[a] # <<>> /\ b = Tail(chan[a]) /\ Receives(rd[a], Head(chan[a]), q)
  <2> DEFINE f == Head(chan[a])
  <2>1. /\ f = chan[a][1] /\ 1 \in 1 .. Len(chan[a])
        /\ \A i \in 1 .. Len(b) : i + 1 \in 1 .. Len(chan[a]) /\ b[i] = chan[a][i + 1]
    BY <1>1, <1>6, <1>8
  <2>2. CASE a = d
    <3>1. f.index = 0 /\ f.ack # StartAck
      BY <1>2, <2>1, <2>2 DEF Talks
    <3>2. q.inAck = NoAck /\ q.outAck # StartAck
      BY <1>2, <1>8, <2>2, <3>1, AckFacts DEF Talks, Receives
    <3>3. Talks(d)'
      BY <1>2, <1>5, <2>1, <2>2, <3>2 DEF Talks
    <3>4. Listens(p)'
      BY <1>1, <1>2, <1>5, <2>2 DEF Listens
    <3>5. AcksInOrder(q.outAck, b, rd[p].inAck, wr[d], accepted[d], delivered[p])
      <4>1. rd[d].outAck.index = 0
        BY <1>5, <2>2 DEF AcksFlushed
      <4>2. q.outAck \in {rd[d].outAck, NoAck, Head(chan[d]).ack}
        BY <1>8, <2>2 DEF Receives
      <4> QED
        BY <1>3, <1>6, <1>8, <2>2, <4>1, <4>2, AckArrives
    <3> QED
      BY <1>1, <1>5, <2>2, <3>3, <3>4, <3>5 DEF OneWayInv, p
  <2>3. CASE a = p
    <3>1. f.ack = NoAck /\ f.index # StartIndex
      BY <1>2, <2>1, <2>3 DEF Listens
    <3>2. q.outAck = NoAck /\ q.inAck # StartAck
      BY <1>2, <1>8, <2>3, <3>1 DEF Listens, Receives
    <3>3. Listens(p)'
      BY <1>2, <1>5, <2>1, <2>3, <3>2 DEF Listens
    <3>4. Talks(d)'
      BY <1>1, <1>2, <1>5, <2>3 DEF Talks
    <3>5. AcksInOrder(rd[d].outAck, chan[d], q.inAck, wr[d], accepted[d], delivered[p])
      <4>1. PICK e : /\ DirSound(d, 0, e, MaxGap)
                     /\ SenderInv(wr[d], accepted[d], delivered[p], 0)
        BY OneWayIsSound DEF p
      <4>2. ASSUME Confirms(q.inAck), q.inAck # rd[p].inAck
            PROVE  \E m \in 1 .. delivered[p] :
                     q.inAck.index = IndexOf(m) /\ delivered[p] < m + MaxGap
        <5>1. HasData(f) /\ q.inAck.index = f.index /\ ~InRange(rd[p].last, f.index)
          BY <1>8, <2>3, <4>2 DEF Receives
        <5>2. Sound(wr[d], chan[p], rd[p], accepted[d], delivered[p], 0, e, MaxGap)
          BY <4>1 DEF DirSound, p
        <5> HIDE DEF f
        <5>3. Timely(f, accepted[d], delivered[p], 0, e, MaxGap)
          BY <2>1, <2>3, <5>1, <5>2 DEF Sound, DirectionInv, LineInv
        <5>4. /\ f.data \in 1 .. accepted[d] /\ f.index = IndexOf(f.data)
              /\ ~(f.data > delivered[p]) /\ delivered[p] < f.data + MaxGap
          BY <5>1, <5>2, <5>3, SoundFacts DEF Timely, Carries
        <5> QED
          BY <1>6, <5>1, <5>4
      <4>3. \A n \in delivered[p] + 1 .. accepted[d] : \E s \in Slots : wr[d].slot[s].data = n
        BY <4>1 DEF SenderInv
      <4>4. /\ delivered[p] <= delivered[p]
            /\ Confirms(q.inAck) =>
                 \/ q.inAck = rd[p].inAck
                 \/ \E m \in 1 .. delivered[p] :
                      q.inAck.index = IndexOf(m) /\ delivered[p] < m + MaxGap
        BY <1>6, <4>2
      <4> QED
        BY <1>3, <1>6, <4>3, <4>4, AckIsEarned
    <3> QED
      BY <1>1, <1>5, <2>3, <3>3, <3>4, <3>5 DEF OneWayInv, p
  <2> QED
    BY <1>1, <2>2, <2>3
<1> QED
  BY <1>5, <1>7, <1>8 DEF Reads

LEMMA ReceiveKeepsOneWay ==
  ASSUME NEW d \in Devices, OneWayLinkInv(d), NEW a \in Devices, Receive(a)
  PROVE  OneWayInv(d)' /\ UNCHANGED <<wr, accepted>>
<1> DEFINE p == Peer(d)
<1>1. p \in Devices /\ p # d /\ Peer(p) = d /\ (a = d \/ a = p)
  BY PeerFacts
<1>2. TypeOK /\ Talks(d) /\ Listens(p) /\ ScanInv
  BY DEF OneWayLinkInv, OneWayInv
<1>3. AcksInOrder(rd[d].outAck, chan[d], rd[p].inAck, wr[d], accepted[d], delivered[p])
  BY DEF OneWayLinkInv, OneWayInv
<1>4. /\ wr[d] \in Writers /\ accepted[d] \in Nat /\ delivered[p] \in Nat
      /\ delivered[d] \in Nat /\ accepted[p] \in Nat
      /\ chan[d] \in Seq(Frames) /\ chan[p] \in Seq(Frames)
  BY <1>1, <1>2 DEF TypeOK
<1>5. \A x \in Devices : \E first, e, gap : DirSound(x, first, e, gap)
  BY <1>2, ScanIsSound
<1>6. \E first, e, gap : DirSound(Peer(a), first, e, gap)
  BY <1>1, <1>5 DEF p
<1>7. PICK q \in Readers :
        /\ rd' = [rd EXCEPT ![a] = q]
        /\ q.inAck = OkAck(IndexOf(delivered[a] + 1))
        /\ q.outAck = rd[a].outAck
  BY <1>2, <1>6, ReceiveTakes
<1>8. /\ delivered' = [delivered EXCEPT ![a] = delivered[a] + 1]
      /\ delivered[a] + 1 <= accepted[Peer(a)]
      /\ UNCHANGED <<wr, chan, accepted>>
  BY <1>2, <1>6, ReceiveTakes
<1> HIDE DEF p
<1>9. a = p
  <2> SUFFICES ASSUME a = d PROVE FALSE
    BY <1>1
  <2>1. delivered[d] + 1 <= accepted[p]
    BY <1>8 DEF p
  <2>2. NoLoss
    BY <1>2, <1>5, DirectionDelivers
  <2>3. accepted[p] \in delivered[Peer(p)] + 1 .. accepted[p]
    BY <1>1, <1>4, <2>1
  <2>4. \E s \in Slots : Live(wr[p], s)
    BY <1>1, <2>2, <2>3 DEF NoLoss
  <2> QED
    BY <1>2, <2>4 DEF Listens, Live
<1>10. /\ rd'[p] = q /\ rd'[d] = rd[d] /\ delivered'[p] = delivered[p] + 1
  BY <1>1, <1>2, <1>7, <1>8, <1>9 DEF TypeOK
<1>11. Talks(d)'
  BY <1>2, <1>8, <1>10 DEF Talks
<1>12. Listens(p)'
  <2>1. q.inAck # StartAck /\ q.outAck = NoAck
    BY <1>2, <1>7, <1>9 DEF Listens, OkAck, StartAck
  <2> QED
    BY <1>2, <1>8, <1>10, <2>1 DEF Listens
<1>13. AcksInOrder(rd[d].outAck, chan[d], q.inAck, wr[d], accepted[d], delivered[p] + 1)
  <2> DEFINE later == delivered[p] + 1
  <2>1. later \in Nat /\ delivered[p] <= later /\ later \in 1 .. later /\ later < later + MaxGap
    BY <1>4, IndexFacts
  <2>2. q.inAck.index = IndexOf(later)
    BY <1>7, <1>9 DEF OkAck
  <2>3. SenderInv(wr[d], accepted[d], delivered[p], 0)
    BY OneWayIsSound DEF p
  <2>4. \A n \in later + 1 .. accepted[d] : \E s \in Slots : wr[d].slot[s].data = n
    <3>1. \A n \in later + 1 .. accepted[d] : n \in delivered[p] + 1 .. accepted[d]
      BY <1>4
    <3> QED
      BY <2>3, <3>1 DEF SenderInv
  <2> HIDE DEF later
  <2>5. \E m \in 1 .. later : q.inAck.index = IndexOf(m) /\ later < m + MaxGap
    BY <2>1, <2>2
  <2>6. AcksInOrder(rd[d].outAck, chan[d], q.inAck, wr[d], accepted[d], later)
    BY <1>3, <1>4, <2>1, <2>4, <2>5, AckIsEarned
  <2> QED
    BY <2>6 DEF later
<1> QED
  BY <1>8, <1>10, <1>11, <1>12, <1>13 DEF OneWayInv, p

LEMMA TransmitKeepsOneWay ==
  ASSUME NEW d \in Devices, OneWayLinkInv(d), NEW a \in Devices, Transmit(a)
  PROVE  /\ OneWayInv(d)'
         /\ wr'[d].started
         /\ accepted'[Peer(d)] = accepted[Peer(d)]
<1> DEFINE p == Peer(d)
<1>1. p \in Devices /\ p # d /\ Peer(p) = d /\ (a = d \/ a = p)
  BY PeerFacts
<1>2. TypeOK /\ Talks(d) /\ Listens(p) /\ Sends[p] <= accepted[p]
  BY DEF OneWayLinkInv, OneWayInv
<1>3. AcksInOrder(rd[d].outAck, chan[d], rd[p].inAck, wr[d], accepted[d], delivered[p])
  BY DEF OneWayLinkInv, OneWayInv
<1>4. /\ wr[d] \in Writers /\ accepted[d] \in Nat /\ delivered[p] \in Nat
      /\ accepted[p] \in Nat /\ Sends[p] \in Nat /\ chan[d] \in Seq(Frames)
  BY <1>1, <1>2, LinkAssumption DEF TypeOK, LinkAssumption
<1> HIDE DEF p
<1>5. a = d
  <2>1. accepted[a] < Sends[a]
    BY DEF Transmit
  <2> QED
    BY <1>1, <1>2, <1>4, <2>1
<1>6. PICK e : DirSound(d, 0, e, MaxGap) /\ delivered[p] <= accepted[d]
  BY OneWayIsSound DEF p
<1>7. PICK q \in Writers, s \in Slots :
        /\ wr' = [wr EXCEPT ![d] = q]
        /\ q.started
        /\ wr[d].slot[s] = FreeTx
        /\ \A t \in Slots : q.slot[t].data = IF t = s THEN accepted[d] + 1 ELSE wr[d].slot[t].data
        /\ \A t \in Slots : q.slot[t].ack \in {NoAck, wr[d].slot[t].ack}
  BY <1>2, <1>5, <1>6, TransmitAdds
<1>8. accepted' = [accepted EXCEPT ![d] = accepted[d] + 1] /\ UNCHANGED <<rd, chan, delivered>>
  BY <1>2, <1>5, <1>6, TransmitAdds
<1>9. /\ wr'[d] = q /\ wr'[p] = wr[p]
      /\ accepted'[d] = accepted[d] + 1 /\ accepted'[p] = accepted[p]
  BY <1>1, <1>2, <1>7, <1>8 DEF TypeOK
<1>10. Talks(d)'
  BY <1>2, <1>7, <1>8, <1>9 DEF Talks
<1>11. Listens(p)'
  BY <1>2, <1>8, <1>9 DEF Listens
<1>12. AcksInOrder(rd[d].outAck, chan[d], rd[p].inAck, q, accepted[d] + 1, delivered[p])
  <2>1. wr[d].slot[s].data = 0
    BY <1>7 DEF FreeTx
  <2> QED
    BY <1>3, <1>4, <1>6, <1>7, <2>1, AckOfOlder, ZenonT(60)
<1> QED
  BY <1>7, <1>8, <1>9, <1>10, <1>11, <1>12 DEF OneWayInv, p

LEMMA SenderWriteKeepsOneWay ==
  ASSUME NEW d \in Devices, OneWayLinkInv(d), NEW timedOut \in BOOLEAN, Write(d, timedOut)
  PROVE  OneWayInv(d)' /\ wr'[d].started /\ UNCHANGED accepted
<1> DEFINE p == Peer(d)
           w == Prepared(wr[d], rd[d].outAck, timedOut)
<1>1. p \in Devices /\ p # d /\ Peer(p) = d
  BY PeerFacts
<1>2. TypeOK /\ HandshakeInv /\ Talks(d) /\ Listens(p) /\ wr[d].started
  BY DEF OneWayLinkInv, OneWayInv
<1>3. AcksInOrder(rd[d].outAck, chan[d], rd[p].inAck, wr[d], accepted[d], delivered[p])
  BY DEF OneWayLinkInv, OneWayInv
<1>4. /\ accepted[d] \in Nat /\ delivered[p] \in Nat
      /\ chan[d] \in Seq(Frames) /\ chan[p] \in Seq(Frames)
  BY <1>1, <1>2 DEF TypeOK
<1>5. PICK q, r, f : WriteEffect(d, w, q, r, f)
  BY <1>2, AnyWriteEffect
<1> HIDE DEF p, w
<1>6. /\ wr'[d] = q /\ wr'[p] = wr[p] /\ rd'[d] = r /\ rd'[p] = rd[p]
      /\ chan'[d] = chan[d] /\ chan'[p] \in {chan[p], Append(chan[p], f)}
      /\ UNCHANGED <<accepted, delivered>>
  BY <1>1, <1>2, <1>5 DEF WriteEffect, WriteStep, TypeOK, p
<1>7. \A s \in Slots : /\ w.slot[s].ack = NoAck
                       /\ w.slot[s].index # StartIndex
  <2>1. \A s \in Slots : /\ w.slot[s].index \in {0, wr[d].slot[s].index}
                         /\ w.slot[s].ack \in {NoAck, wr[d].slot[s].ack}
    BY <1>5 DEF WriteEffect, WriteStep, Follows, KeepsSlots
  <2>2. \A s \in Slots : wr[d].slot[s].index # StartIndex
    BY <1>2 DEF HandshakeInv, WriterOpensOrSends
  <2>3. 0 # StartIndex
    BY IndexFacts DEF StartIndex
  <2> QED
    BY <1>2, <2>1, <2>2, <2>3 DEF Talks
<1>8. /\ \A s \in Slots : q.slot[s].ack = NoAck
      /\ r.inAck = NoAck /\ r.outAck = NoAck
      /\ f.ack = NoAck /\ f.index # StartIndex
      /\ q.started
  <2>1. 0 # StartIndex
    BY IndexFacts DEF StartIndex
  <2>2. rd[d].inAck = NoAck
    BY <1>2 DEF Talks
  <2> QED
    BY <1>2, <1>5, <1>7, <2>1, <2>2 DEF WriteEffect, WriteStep, Follows
<1>9. Talks(d)'
  BY <1>2, <1>6, <1>8, AckFacts DEF Talks
<1>10. Listens(p)'
  <2>1. ASSUME NEW i \in 1 .. Len(chan'[p])
        PROVE  chan'[p][i].ack = NoAck /\ chan'[p][i].index # StartIndex
    <3>1. CASE chan'[p] = chan[p]
      BY <1>2, <3>1 DEF Listens
    <3>2. CASE chan'[p] = Append(chan[p], f)
      <4>1. \/ i \in 1 .. Len(chan[p]) /\ Append(chan[p], f)[i] = chan[p][i]
            \/ Append(chan[p], f)[i] = f
        BY <1>4, <2>1, <3>2
      <4> QED
        BY <1>2, <1>8, <3>2, <4>1 DEF Listens
    <3> QED
      BY <1>6, <3>1, <3>2
  <2> QED
    BY <1>2, <1>6, <2>1 DEF Listens
<1>11. AcksInOrder(NoAck, chan[d], rd[p].inAck, q, accepted[d], delivered[p])
  <2>1. SenderInv(wr[d], accepted[d], delivered[p], 0)
    BY OneWayIsSound DEF p
  <2>2. \A s \in Slots : ~Removes(rd[d].outAck, wr[d].slot[s].index)
                           => SameMessage(wr[d].slot[s], q.slot[s])
    BY <1>5 DEF WriteEffect, After, SameMessages, SameMessage
  <2>3. rd[d].outAck # StartAck
    BY <1>2 DEF Talks
  <2> QED
    BY <1>3, <1>4, <2>1, <2>2, <2>3, AckIsUsed
<1> QED
  BY <1>6, <1>8, <1>9, <1>10, <1>11 DEF OneWayInv, p

LEMMA ReceiverWriteKeepsOneWay ==
  ASSUME NEW d \in Devices, OneWayLinkInv(d),
         NEW timedOut \in BOOLEAN, Write(Peer(d), timedOut)
  PROVE  OneWayInv(d)' /\ wr'[d] = wr[d] /\ UNCHANGED accepted
<1> DEFINE p == Peer(d)
           w == Prepared(wr[p], rd[p].outAck, timedOut)
<1>1. p \in Devices /\ p # d /\ Peer(p) = d
  BY PeerFacts
<1>2. TypeOK /\ Talks(d) /\ Listens(p)
  BY DEF OneWayLinkInv, OneWayInv
<1>3. AcksInOrder(rd[d].outAck, chan[d], rd[p].inAck, wr[d], accepted[d], delivered[p])
  BY DEF OneWayLinkInv, OneWayInv
<1>4. accepted[d] \in Nat /\ delivered[p] \in Nat /\ chan[d] \in Seq(Frames)
  BY <1>1, <1>2 DEF TypeOK
<1>5. PICK q, r, f : WriteEffect(p, w, q, r, f)
  BY <1>1, <1>2, AnyWriteEffect
<1> HIDE DEF p, w
<1>6. /\ wr'[p] = q /\ wr'[d] = wr[d] /\ rd'[p] = r /\ rd'[d] = rd[d]
      /\ chan'[p] = chan[p] /\ chan'[d] \in {chan[d], Append(chan[d], f)}
      /\ UNCHANGED <<accepted, delivered>>
      /\ f \in Frames
  BY <1>1, <1>2, <1>5 DEF WriteEffect, WriteStep, TypeOK, p
<1>7. \A s \in Slots : w.slot[s].index = 0
  BY <1>2, <1>5 DEF WriteEffect, WriteStep, Follows, KeepsSlots, Listens
<1>8. /\ f = AckOnly(rd[p].inAck) /\ q = w
      /\ r.inAck = NoAck /\ r.outAck = NoAck
  <2>1. \A s \in Slots : ~IsNextPacket(w, s)
    BY <1>7 DEF IsNextPacket, IsPendingAt, Live
  <2> QED
    BY <1>5, <2>1 DEF WriteEffect, WriteStep
<1>9. f.index = 0 /\ f.ack = rd[p].inAck /\ f.ack # StartAck
  BY <1>2, <1>8 DEF AckOnly, Listens
<1>10. Listens(p)'
  BY <1>2, <1>6, <1>7, <1>8, AckFacts DEF Listens
<1>11. Talks(d)'
  <2>1. ASSUME NEW i \in 1 .. Len(chan'[d])
        PROVE  chan'[d][i].index = 0 /\ chan'[d][i].ack # StartAck
    <3>1. CASE chan'[d] = chan[d]
      BY <1>2, <3>1 DEF Talks
    <3>2. CASE chan'[d] = Append(chan[d], f)
      <4>1. \/ i \in 1 .. Len(chan[d]) /\ Append(chan[d], f)[i] = chan[d][i]
            \/ Append(chan[d], f)[i] = f
        BY <1>4, <2>1, <3>2
      <4> QED
        BY <1>2, <1>9, <3>2, <4>1 DEF Talks
    <3> QED
      BY <1>6, <3>1, <3>2
  <2> QED
    BY <1>2, <1>6, <2>1 DEF Talks
<1>12. AcksInOrder(rd[d].outAck, chan'[d], NoAck, wr[d], accepted[d], delivered[p])
  <2> DEFINE b == chan'[d]
             in == rd[p].inAck
             del == delivered[p]
  <2>1. b \in {chan[d], Append(chan[d], f)} /\ f \in Frames /\ f.ack = in
    BY <1>6, <1>9
  <2>2. AcksInOrder(rd[d].outAck, chan[d], in, wr[d], accepted[d], del) /\ del \in Nat
    BY <1>3, <1>4
  <2> HIDE DEF b, in, del
  <2>3. AcksInOrder(rd[d].outAck, b, NoAck, wr[d], accepted[d], del)
    BY <1>4, <2>1, <2>2, AckIsSent, ZenonT(60)
  <2> QED
    BY <2>3 DEF b, del
<1> QED
  BY <1>6, <1>8, <1>10, <1>11, <1>12 DEF OneWayInv, p

LEMMA NextOneWay ==
  ASSUME NEW d \in Devices, OneWayLinkInv(d), [Next]_vars
  PROVE  OneWayLinkInv(d)'
<1>1. TypeOK /\ HandshakeInv /\ ScanInv /\ wr[d].started /\ Sends[Peer(d)] <= accepted[Peer(d)]
  BY DEF OneWayLinkInv
<1>2. TypeOK' /\ HandshakeInv' /\ ScanInv'
  BY <1>1, OneWayAcksAreTrue, NextTypeOK, NextHandshake, NextScan
<1>3. OneWayInv(d)' /\ wr'[d].started /\ accepted'[Peer(d)] = accepted[Peer(d)]
  <2>1. CASE UNCHANGED <<rd, wr, chan, accepted, delivered>>
    BY <1>1, <2>1 DEF OneWayLinkInv, OneWayInv, Talks, Listens
  <2>2. ASSUME NEW a \in Devices, SoundRead(a) \/ FaultyRead(a)
        PROVE  OneWayInv(d)' /\ UNCHANGED <<wr, accepted>>
    BY <2>2, ReadKeepsOneWay
  <2>3. ASSUME NEW a \in Devices, NEW timedOut \in BOOLEAN, Write(a, timedOut)
        PROVE  OneWayInv(d)' /\ wr'[d].started /\ UNCHANGED accepted
    BY <1>1, <2>3, PeerFacts, SenderWriteKeepsOneWay, ReceiverWriteKeepsOneWay
  <2>4. ASSUME NEW a \in Devices, Receive(a)
        PROVE  OneWayInv(d)' /\ UNCHANGED <<wr, accepted>>
    BY <2>4, ReceiveKeepsOneWay
  <2>5. ASSUME NEW a \in Devices, Transmit(a)
        PROVE  /\ OneWayInv(d)' /\ wr'[d].started
               /\ accepted'[Peer(d)] = accepted[Peer(d)]
    BY <2>5, TransmitKeepsOneWay
  <2>6. ASSUME NEW a \in Devices, ReceiveNothing(a)
        PROVE  UNCHANGED <<rd, wr, chan, accepted, delivered>>
    BY <2>6 DEF ReceiveNothing
  <2> QED
    BY <1>1, <2>1, <2>2, <2>3, <2>4, <2>5, <2>6 DEF Next, Tick, Program, vars
<1> QED
  BY <1>1, <1>2, <1>3 DEF OneWayLinkInv

LEMMA SessionOneWay ==
  ASSUME NEW d \in Devices, OneWaySession(d), SessionInit
  PROVE  OneWayLinkInv(d)
<1>1. TypeOK /\ HandshakeInv
  BY SessionTypes
<1>2. Peer(d) \in Devices /\ First \in [Devices -> Nat]
  BY PeerFacts, FirstAssumption DEF FirstAssumption
<1>3. ScanInv
  <2> SUFFICES ASSUME NEW x \in Devices
               PROVE  \E e \in 1 .. accepted[x] + 1 : Scans(x, e)
    BY DEF ScanInv
  <2> DEFINE e == IF First[x] = 0 THEN 1 ELSE First[x]
  <2>1. accepted[x] = First[x] /\ First[x] \in Nat
    BY <1>2, SessionStart
  <2>2. e \in Nat /\ e \in 1 .. accepted[x] + 1 /\ e <= First[x] + 1
        /\ First[x] < e + MaxGap /\ MaxGap \in Nat
    BY <2>1, IndexFacts
  <2>3. wr[x].earliest = IndexOf(e)
    <3>1. IndexOf(1) = 1
      <4>1. NextIndex(IndexOf(0)) = IndexOf(0 + 1) /\ IndexOf(0) = 0
        BY IndexOfNext, IndexOfType
      <4> QED
        BY <4>1, IndexFacts DEF NextIndex, StartIndex
    <3> QED
      BY <3>1, SessionStart
  <2> HIDE DEF e
  <2>4. Direction(x, 0, e, MaxGap)
    BY <2>1, <2>2, SessionDirection
  <2> QED
    BY <2>2, <2>3, <2>4 DEF Scans
<1>4. \A ahead, w, acc, del : Punctual(NoAck, ahead, w, acc, del)
  BY DEF Punctual, Confirms, NoAck
<1>5. /\ rd[d].inAck = NoAck /\ rd[d].outAck = NoAck /\ chan[d] = <<>>
      /\ \A s \in Slots : wr[d].slot[s] = FreeTx
      /\ wr[d].started
  BY SessionStart
<1>6. /\ rd[Peer(d)].inAck = NoAck /\ rd[Peer(d)].outAck = NoAck /\ chan[Peer(d)] = <<>>
      /\ \A s \in Slots : wr[Peer(d)].slot[s] = FreeTx
      /\ accepted[Peer(d)] = First[Peer(d)]
  BY <1>2, SessionStart
<1>7. Talks(d)
  BY <1>5, TxSlotFacts, AckFacts DEF Talks
<1>8. Listens(Peer(d))
  BY <1>6, TxSlotFacts, AckFacts DEF Listens
<1>9. OneWayInv(d)
  BY <1>4, <1>5, <1>6, <1>7, <1>8 DEF OneWayInv, AcksInOrder
<1> QED
  BY <1>1, <1>3, <1>5, <1>6, <1>9 DEF OneWayLinkInv, OneWaySession

LEMMA OneWayDelivers ==
  ASSUME NEW d \in Devices, OneWayLinkInv(d)
  PROVE  /\ AcksAreTrue /\ NoLoss /\ WindowsAgree /\ SpaceComesBack
         /\ [Next]_vars => \A x \in Devices :
              delivered'[x] # delivered[x] => delivered'[x] = delivered[x] + 1
<1>1. TypeOK /\ \A x \in Devices : \E first, e, gap : DirSound(x, first, e, gap)
  BY ScanIsSound DEF OneWayLinkInv
<1> QED
  BY <1>1, OneWayAcksAreTrue, DirectionDelivers, StepInOrder

(* A device that sends any number of messages, to one that sends none,     *)
(* loses none of them and repeats none, whatever the line does: not even   *)
(* an ack that was delayed is mistaken for one of a later lap.             *)
THEOREM OneWaySessionDelivers ==
  ASSUME \E d \in Devices : OneWaySession(d)
  PROVE  SessionSpec => [](AcksAreTrue /\ NoLoss /\ WindowsAgree /\ SpaceComesBack) /\ InOrder
<1> DEFINE Inv == \E d \in Devices : OneWayLinkInv(d)
           Good == AcksAreTrue /\ NoLoss /\ WindowsAgree /\ SpaceComesBack
           Step == \A d \in Devices :
             delivered'[d] # delivered[d] => delivered'[d] = delivered[d] + 1
<1>1. SessionInit => Inv
  BY SessionOneWay
<1>2. Inv /\ [FNext]_fvars => Inv'
  BY NextOneWay, FairStepIsStep
<1>3. Inv => Good
  BY OneWayDelivers
<1>4. Inv /\ [FNext]_fvars => [Step]_vars
  BY OneWayDelivers, FairStepIsStep
<1> HIDE DEF Inv, Good, Step
<1>5. SessionSpec => []Good /\ [][Step]_vars
  BY <1>1, <1>2, <1>3, <1>4, PTL DEF SessionSpec
<1> QED
  BY <1>5 DEF Good, Step, InOrder

(* In both kinds of session no ack removes a message that was not          *)
(* delivered, late, repeated or from an earlier lap as it may be: the      *)
(* hypothesis of TrueAcksSuffice is met.                                   *)
THEOREM SessionAcksAreTrue ==
  ASSUME ShortSession \/ \E d \in Devices : OneWaySession(d)
  PROVE  SessionSpec => []AcksAreTrue
<1>1. CASE ShortSession
  <2>1. SessionSpec => [](AcksAreTrue /\ NoLoss /\ WindowsAgree /\ SpaceComesBack) /\ InOrder
    BY <1>1, ShortSessionDelivers
  <2> QED
    BY <2>1, PTL
<1>2. CASE \E d \in Devices : OneWaySession(d)
  <2>1. SessionSpec => [](AcksAreTrue /\ NoLoss /\ WindowsAgree /\ SpaceComesBack) /\ InOrder
    BY <1>2, OneWaySessionDelivers
  <2> QED
    BY <2>1, PTL
<1> QED
  BY <1>1, <1>2

(* Of any session: the invariants of module Delivery hold of it, those for *)
(* a device that sends alone and those for sessions of less than a lap.    *)
THEOREM SessionCorrect == SessionSpec => []SessionInv
<1> DEFINE Inv == /\ \A d \in Devices : OneWaySession(d) => OneWayLinkInv(d)
                  /\ ShortSession => ShortLinkInv(First)
<1>1. SessionInit => Inv
  BY SessionOneWay, SessionShort
<1>2. Inv /\ [FNext]_fvars => Inv'
  <2> SUFFICES ASSUME Inv, [FNext]_fvars
               PROVE  Inv'
    OBVIOUS
  <2>1. [Next]_vars
    BY FairStepIsStep
  <2>2. ASSUME NEW d \in Devices, OneWaySession(d)
        PROVE  OneWayLinkInv(d)'
    BY <2>1, <2>2, NextOneWay
  <2>3. ASSUME ShortSession
        PROVE  ShortLinkInv(First)'
    BY <2>1, <2>3, NextShort, SessionShort
  <2> QED
    BY <2>2, <2>3 DEF OneWaySession, ShortSession, Lap
<1>3. Inv => SessionInv
  BY DEF SessionInv, OneWayLinkInv, ShortLinkInv
<1> HIDE DEF Inv
<1> QED
  BY <1>1, <1>2, <1>3, PTL DEF SessionSpec

-----------------------------------------------------------------------------
(* Every step of a link with true acks is a step of ReliableLink, or none. *)

(* A free slot is room for a message. *)
LEMMA FreeSlotIsRoom ==
  ASSUME TypeOK, NEW d \in Devices, NEW s \in Slots, wr[d].slot[s].data = 0
  PROVE  Cardinality(Held(d)) < BufferSize
<1> DEFINE others == Slots \ {s}
           at == [n \in Held(d) |-> CHOOSE t \in Slots : wr[d].slot[t].data = n]
<1>1. \A n \in Held(d) : at[n] \in Slots /\ wr[d].slot[at[n]].data = n /\ n # 0
  BY DEF Held
<1>2. at \in Injection(Held(d), others)
  <2>1. at \in [Held(d) -> others]
    BY <1>1
  <2>2. \A m, n \in Held(d) : at[m] = at[n] => m = n
    BY <1>1
  <2> HIDE DEF at, others
  <2> QED
    BY <2>1, <2>2 DEF Injection, IsInjective
<1>3. IsFiniteSet(others) /\ Cardinality(others) = BufferSize - 1
  BY SlotsCount, FS_RemoveElement
<1>4. IsFiniteSet(Held(d)) /\ Cardinality(Held(d)) <= Cardinality(others)
  BY <1>2, <1>3, FS_Injection
<1>5. Cardinality(Held(d)) \in Nat /\ BufferSize \in Nat
  BY <1>4, FS_CardinalityType, IndexFacts
<1> QED
  BY <1>3, <1>4, <1>5

(* The messages in a buffer are less than a lap apart. *)
LEMMA OneSlotPerIndex ==
  ASSUME NEW d \in Devices, NEW first, NEW e, NEW gap, DirSound(d, first, e, gap),
         NEW s \in Slots, NEW t \in Slots,
         wr[d].slot[s].index \in DataIndices, wr[d].slot[s].index = wr[d].slot[t].index
  PROVE  s = t /\ wr[d].slot[s].data # 0
<1> DEFINE w == wr[d]
           acc == accepted[d]
           del == delivered[Peer(d)]
           m == w.slot[s].data
           n == w.slot[t].data
<1>1. /\ SenderInv(w, acc, del, first) /\ WindowInv(w, acc, del, e, gap)
      /\ acc \in Nat /\ del \in Nat /\ e \in Nat /\ first \in Nat
      /\ gap \in Nat /\ gap + BufferSize <= MaxIndex
      /\ acc <= del + BufferSize
  BY SoundFacts DEF DirSound, Sound, DirectionInv, Fits
<1>2. /\ m \in first + 1 .. acc /\ n \in first + 1 .. acc /\ m >= e /\ n >= e
      /\ IndexOf(m) = IndexOf(n) /\ del < e + gap
  BY <1>1 DEF SenderInv, WindowInv, Carries
<1>3. BufferSize \in Nat /\ MaxIndex \in Nat
  BY IndexFacts
<1> HIDE DEF m, n, acc, del
<1>4. m \in Nat /\ n \in Nat /\ m < n + MaxIndex /\ n < m + MaxIndex /\ m # 0
  BY <1>1, <1>2, <1>3
<1>5. m = n
  BY <1>2, <1>4, IndexOfSame
<1> QED
  BY <1>1, <1>4, <1>5 DEF SenderInv, m, n

LEMMA ReceiveIsDeliver ==
  ASSUME TypeOK, NEW p \in Devices, Receive(p),
         NEW first, NEW e, NEW gap, DirSound(Peer(p), first, e, gap)
  PROVE  Abstract!Deliver(p)
<1>1. /\ delivered' = [delivered EXCEPT ![p] = delivered[p] + 1]
      /\ delivered[p] + 1 <= accepted[Peer(p)]
      /\ UNCHANGED <<wr, accepted>>
  BY ReceiveTakes
<1>2. delivered[p] \in Nat /\ accepted[Peer(p)] \in Nat /\ Abstract!Other(p) = Peer(p)
  BY PeerFacts DEF TypeOK, Abstract!Other, Peer
<1>3. delivered[p] < accepted[Abstract!Other(p)]
  BY <1>1, <1>2
<1>4. \A d \in Devices : Held(d)' = Held(d)
  BY <1>1 DEF Held
<1> QED
  BY <1>1, <1>3, <1>4 DEF Abstract!Deliver

LEMMA TransmitIsAccept ==
  ASSUME TypeOK, NEW d \in Devices, Transmit(d),
         NEW first, NEW e, NEW gap, DirSound(d, first, e, gap)
  PROVE  Abstract!Accept(d)
<1>1. PICK q \in Writers, s \in Slots :
        /\ wr' = [wr EXCEPT ![d] = q]
        /\ q.started /\ wr[d].started
        /\ wr[d].slot[s] = FreeTx
        /\ \A t \in Slots : q.slot[t].data = IF t = s THEN accepted[d] + 1 ELSE wr[d].slot[t].data
  BY TransmitAdds
<1>2. accepted' = [accepted EXCEPT ![d] = accepted[d] + 1] /\ delivered' = delivered
  BY TransmitAdds
<1>3. accepted[d] + 1 # 0 /\ wr[d].slot[s].data = 0
  BY <1>1 DEF TypeOK, FreeTx
<1>4. wr'[d] = q /\ \A x \in Devices : x # d => wr'[x] = wr[x]
  BY <1>1 DEF TypeOK
<1>5. Held(d)' = Held(d) \cup {accepted[d] + 1}
  BY <1>1, <1>3, <1>4 DEF Held
<1>6. \A x \in Devices : x # d => Held(x)' = Held(x)
  BY <1>4 DEF Held
<1>7. \A x \in Devices : wr'[x].started = wr[x].started
  BY <1>1, <1>4 DEF TypeOK, Writers
<1>8. Cardinality(Held(d)) < BufferSize
  BY <1>3, FreeSlotIsRoom
<1> QED
  <2>1. Abstract!HasRoom(d)
    <3>1. Abstract!Cardinality(Held(d)) = Cardinality(Held(d))
      BY DEF Abstract!Cardinality, Cardinality, Abstract!IsFiniteSet, IsFiniteSet
    <3> QED
      BY <1>1, <1>8, <3>1 DEF Abstract!HasRoom
  <2>2. [x \in Devices |-> Held(x)]' =
          [[x \in Devices |-> Held(x)] EXCEPT ![d] = @ \cup {accepted[d] + 1}]
    BY <1>5, <1>6
  <2>3. [x \in Devices |-> wr[x].started]' = [x \in Devices |-> wr[x].started]
    BY <1>7
  <2> QED
    BY <1>2, <2>1, <2>2, <2>3 DEF Abstract!Accept

(* A step that changes nothing ReliableLink tells of. *)
LEMMA StutterIs ==
  ASSUME UNCHANGED <<accepted, delivered>>,
         \A x \in Devices : /\ wr'[x].started = wr[x].started
                            /\ \A s \in Slots : wr'[x].slot[s].data = wr[x].slot[s].data
  PROVE  UNCHANGED Abstract!rvars
<1>1. \A x \in Devices : Held(x)' = Held(x)
  BY DEF Held
<1>2. [x \in Devices |-> Held(x)]' = [x \in Devices |-> Held(x)]
  BY <1>1
<1>3. [x \in Devices |-> wr[x].started]' = [x \in Devices |-> wr[x].started]
  OBVIOUS
<1> QED
  BY <1>2, <1>3 DEF Abstract!rvars

LEMMA WriteIsAcknowledge ==
  ASSUME TypeOK, AcksAreTrue, NEW d \in Devices, NEW timedOut \in BOOLEAN, Write(d, timedOut),
         NEW first, NEW e, NEW gap, DirSound(d, first, e, gap)
  PROVE  Abstract!Open(d) \/ Abstract!Acknowledge(d) \/ UNCHANGED Abstract!rvars
<1> DEFINE out == rd[d].outAck
           w == Prepared(wr[d], out, timedOut)
<1>1. PICK q, r, f : WriteEffect(d, w, q, r, f)
  BY AnyWriteEffect
<1> HIDE DEF w
<1>2. /\ wr'[d] = q /\ \A x \in Devices : x # d => wr'[x] = wr[x]
      /\ UNCHANGED <<accepted, delivered>>
  BY <1>1 DEF WriteEffect, WriteStep, TypeOK
<1>3. /\ \A s \in Slots : q.slot[s].data = IF Removes(out, wr[d].slot[s].index)
                                            THEN 0 ELSE wr[d].slot[s].data
      /\ q.started <=> (wr[d].started \/ out = StartAck)
  BY <1>1 DEF WriteEffect, After, Emptied, SameMessages, SameMessage
<1>4. q.started \in BOOLEAN /\ wr[d].started \in BOOLEAN /\ out \in Acks
  BY <1>1 DEF WriteEffect, WriteStep, TypeOK, Writers, Readers
<1>5. SenderInv(wr[d], accepted[d], delivered[Peer(d)], first)
  BY DEF DirSound, Sound, DirectionInv
<1> HIDE DEF out
<1>6. CASE out = StartAck
  <2>1. \A s \in Slots : q.slot[s].data = wr[d].slot[s].data
    <3> TAKE s \in Slots
    <3>1. CASE ~Removes(out, wr[d].slot[s].index)
      BY <1>3, <3>1
    <3>2. CASE Removes(out, wr[d].slot[s].index)
      <4>1. wr[d].slot[s].index \notin DataIndices
        BY <1>6, <3>2, IndexFacts DEF Removes, Confirms, StartAck
      <4> QED
        BY <1>3, <1>5, <3>2, <4>1 DEF SenderInv
    <3> QED
      BY <3>1, <3>2
  <2>2. CASE wr[d].started
    <3>1. q.started = wr[d].started
      BY <1>3, <1>4, <2>2
    <3> QED
      BY <1>2, <2>1, <3>1, StutterIs
  <2>3. CASE ~wr[d].started
    <3>1. \A x \in Devices : Held(x)' = Held(x)
      BY <1>2, <2>1 DEF Held
    <3>2. [x \in Devices |-> Held(x)]' = [x \in Devices |-> Held(x)]
      BY <3>1
    <3>3. [x \in Devices |-> wr[x].started]' =
            [[x \in Devices |-> wr[x].started] EXCEPT ![d] = TRUE]
      BY <1>2, <1>3, <1>4, <1>6
    <3> QED
      BY <1>2, <2>3, <3>2, <3>3 DEF Abstract!Open
  <2> QED
    BY <2>2, <2>3
<1>7. CASE out # StartAck
  <2>1. q.started = wr[d].started
    BY <1>3, <1>4, <1>7
  <2>2. CASE \A s \in Slots : ~Removes(out, wr[d].slot[s].index)
    BY <1>2, <1>3, <2>1, <2>2, StutterIs
  <2>3. ASSUME NEW s \in Slots, Removes(out, wr[d].slot[s].index)
        PROVE  Abstract!Acknowledge(d)
    <3> DEFINE n == wr[d].slot[s].data
    <3>1. Confirms(out) /\ out.index = wr[d].slot[s].index
      BY <1>7, <2>3 DEF Removes
    <3>2. out.index \in DataIndices
      BY <1>4, <3>1 DEF Acks, Confirms, DataIndices
    <3>3. n # 0 /\ \A t \in Slots : Removes(out, wr[d].slot[t].index) => t = s
      BY <1>7, <3>1, <3>2, OneSlotPerIndex DEF Removes
    <3>4. n <= delivered[Peer(d)]
      BY <2>3, TrueAckRemoves DEF out
    <3>5. \A t \in Slots : wr[d].slot[t].data = n => t = s
      BY <1>5, <3>3 DEF SenderInv
    <3>6. \A t \in Slots : q.slot[t].data = IF t = s THEN 0 ELSE wr[d].slot[t].data
      BY <1>3, <2>3, <3>3
    <3>7. n \in Held(d)
      BY <3>3 DEF Held
    <3>8. Held(d)' = Held(d) \ {n}
      <4>1. Held(d)' = {q.slot[t].data : t \in Slots} \ {0}
        BY <1>2 DEF Held
      <4> HIDE DEF n
      <4>2. \A k : k \in Held(d)' <=> k # 0 /\ \E t \in Slots : q.slot[t].data = k
        BY <4>1
      <4>3. \A k : k \in Held(d) <=> k # 0 /\ \E t \in Slots : wr[d].slot[t].data = k
        BY DEF Held
      <4>4. wr[d].slot[s].data = n
        BY DEF n
      <4> QED
        BY <3>5, <3>6, <4>2, <4>3, <4>4
    <3> HIDE DEF n
    <3>9. \A x \in Devices : x # d => Held(x)' = Held(x)
      BY <1>2 DEF Held
    <3>10. [x \in Devices |-> Held(x)]' = [[x \in Devices |-> Held(x)] EXCEPT ![d] = @ \ {n}]
      BY <3>8, <3>9
    <3>11. [x \in Devices |-> wr[x].started]' = [x \in Devices |-> wr[x].started]
      BY <1>2, <2>1
    <3>12. Abstract!Other(d) = Peer(d)
      BY DEF Abstract!Other, Peer
    <3> QED
      BY <1>2, <3>4, <3>7, <3>10, <3>11, <3>12 DEF Abstract!Acknowledge
  <2> QED
    BY <2>2, <2>3
<1> QED
  BY <1>6, <1>7

LEMMA StepIsReliable ==
  ASSUME TypeOK, HandshakeInv, AcksAreTrue,
         \A d \in Devices : \E first, e, gap : DirSound(d, first, e, gap), [Next]_vars
  PROVE  [Abstract!RNext]_(Abstract!rvars)
<1>1. CASE UNCHANGED <<wr, accepted, delivered>>
  BY <1>1, StutterIs
<1>2. ASSUME NEW a \in Devices, SoundRead(a) \/ FaultyRead(a)
      PROVE  UNCHANGED <<wr, accepted, delivered>>
  BY <1>2, AnyReadStep DEF ReadStep
<1>3. ASSUME NEW a \in Devices, NEW timedOut \in BOOLEAN, Write(a, timedOut)
      PROVE  [Abstract!RNext]_(Abstract!rvars)
  BY <1>3, WriteIsAcknowledge DEF Abstract!RNext
<1>4. ASSUME NEW a \in Devices, Receive(a)
      PROVE  Abstract!RNext
  BY <1>4, PeerFacts, ReceiveIsDeliver DEF Abstract!RNext
<1>5. ASSUME NEW a \in Devices, Transmit(a)
      PROVE  Abstract!RNext
  BY <1>5, TransmitIsAccept DEF Abstract!RNext
<1>6. ASSUME NEW a \in Devices, ReceiveNothing(a)
      PROVE  UNCHANGED <<wr, accepted, delivered>>
  BY <1>6 DEF ReceiveNothing
<1> QED
  BY <1>1, <1>2, <1>3, <1>4, <1>5, <1>6 DEF Next, Tick, Program, vars

LEMMA InitReliable == Init => Abstract!RInit
<1> SUFFICES ASSUME Init PROVE Abstract!RInit
  OBVIOUS
<1>1. \A d \in Devices : wr[d] = NewWriter
  BY DEF Init
<1>2. ~NewWriter.started /\ NewWriter.started = FALSE
  BY DEF NewWriter
<1>3. \A s \in Slots : NewWriter.slot[s].data = 0
  BY DEF NewWriter, NewTx, FreeTx
<1>4. \A d \in Devices : Held(d) = {}
  BY <1>1, <1>3 DEF Held
<1>5. accepted = [d \in Devices |-> 0] /\ delivered = [d \in Devices |-> 0]
  BY DEF Init
<1> QED
  BY <1>1, <1>2, <1>4, <1>5 DEF Abstract!RInit

(* A link is a ReliableLink as long as no ack is so late that its index is *)
(* used again: stale acks are the only way the code can break the promise. *)
THEOREM TrueAcksAreReliable ==
  Spec /\ [](AcksAreTrue /\ StartAcksAreEarly) => IsReliable
<1> DEFINE Inv == TypeOK /\ HandshakeInv /\ ScanInv
           Truth == AcksAreTrue /\ StartAcksAreEarly
<1>1. Init => Inv /\ Abstract!RInit
  BY InitTypeOK, InitHandshake, InitScan, InitReliable
<1>2. Inv /\ Truth /\ [Next]_vars => Inv'
  BY NextTypeOK, NextHandshake, NextScan
<1>3. Inv /\ Truth /\ [Next]_vars => [Abstract!RNext]_(Abstract!rvars)
  BY ScanIsSound, StepIsReliable
<1> HIDE DEF Inv, Truth
<1>4. Spec /\ []Truth => Abstract!RInit /\ [][Abstract!RNext]_(Abstract!rvars)
  BY <1>1, <1>2, <1>3, PTL DEF Spec
<1> QED
  BY <1>4 DEF Truth, IsReliable, Abstract!RSpec

(* Two devices that send each other no more messages than the index range  *)
(* less a buffer are a ReliableLink: the code keeps the promise of README. *)
THEOREM ShortLinkIsReliable ==
  ASSUME \A d \in Devices : Sends[d] <= Lap
  PROVE  Spec => IsReliable
<1> DEFINE Inv == ShortLinkInv(Zero)
<1>1. Init => Inv /\ Abstract!RInit
  BY InitShort, InitReliable
<1>2. Inv /\ [Next]_vars => Inv'
  BY InitShort, NextShort
<1>3. Inv /\ [Next]_vars => [Abstract!RNext]_(Abstract!rvars)
  <2>1. Inv => /\ TypeOK /\ HandshakeInv /\ AcksAreTrue
               /\ \A d \in Devices : \E first, e, gap : DirSound(d, first, e, gap)
    BY InitShort, ShortIsSound, ShortAcksAreTrue DEF ShortLinkInv
  <2> QED
    BY <2>1, StepIsReliable
<1> HIDE DEF Inv
<1> QED
  BY <1>1, <1>2, <1>3, PTL DEF Spec, IsReliable, Abstract!RSpec
=============================================================================
