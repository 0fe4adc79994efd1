---------------------------- MODULE BufferLoops ----------------------------
(***************************************************************************)
(* The loops over the two packet buffers, pass by pass as cc/commlink.cc   *)
(* writes them, and what it means that the closed forms of PacketIndex,    *)
(* Reader and Writer are these loops.  LinkProofs proves that they are, in *)
(* every state a link reaches.                                             *)
(***************************************************************************)
EXTENDS Link, IndexLoops

-----------------------------------------------------------------------------
(* The index arithmetic. *)

(* The window of PacketRingBuffer::InRange is what its loop looks through, *)
(* for the packet about to arrive, across the wrap-around: indices 0 and   *)
(* StartIndex are never in it.                                             *)
InRangeIsItsLoop ==
  \A d \in {e \in Devices : chan[e] # <<>>} :
    LET i == Head(chan[d]).index
    IN /\ InRange(rd[d].last, i) <=> InRangeLoop(rd[d].last, i)
       /\ InRange(rd[d].last, i) => i \in DataIndices

(* PrecedesIndex likewise, for the packets of a writer and the index its   *)
(* ack names; of two packets at most one precedes the other, so an ack     *)
(* never marks a newer packet as lost.                                     *)
PrecedesIndexIsItsLoop ==
  \A d \in {e \in Devices : rd[e].outAck # NoAck} :
    \A s \in {t \in Slots : Live(wr[d], t)} :
      LET i == wr[d].slot[s].index
          acked == rd[d].outAck.index
      IN /\ PrecedesIndex(i, acked) <=> PrecedesLoop(i, acked)
         /\ \A t \in {u \in Slots : Live(wr[d], u)} :
              LET j == wr[d].slot[t].index
              IN PrecedesIndex(i, j) => ~PrecedesIndex(j, i)

-----------------------------------------------------------------------------
(* PacketRingBuffer::Cleanup.  The inner loop stops at the first duplicate.*)

Duplicates(r, i) ==
  {j \in Slots : r.slot[j] # FreeRx /\ r.slot[j].index = r.slot[i].index}

DropDuplicate(r, i) ==
  LET j == FirstHit(i + 1, BufferSize + 1, Duplicates(r, i))
  IN IF j \in Slots THEN [r EXCEPT !.slot[j] = FreeRx] ELSE r

CleanupPass(r, i) ==
  IF r.slot[i] = FreeRx THEN r
  ELSE IF r.slot[i].state = "error" \/ ~InRange(r.last, r.slot[i].index)
    THEN [r EXCEPT !.slot[i] = FreeRx]
    ELSE DropDuplicate(r, i)

CleanupLoop(r) ==
  LET after[i \in 0 .. BufferSize] ==
        IF i = 0 THEN r ELSE CleanupPass(after[i - 1], i)
  IN after[BufferSize]

(* Cleanup is what its loops do: one pass over the buffer, which drops at  *)
(* most one duplicate of each packet, leaves no duplicate behind whenever  *)
(* AllocatePacket calls it.                                                *)
CleanupIsItsLoops ==
  \A d \in Devices :
    rd[d].current = NoSlot => Cleanup(rd[d]) = CleanupLoop(rd[d])

-----------------------------------------------------------------------------
(* OutgoingPacketBuffer: the scans of UpdateNextIndex and NextPacket.      *)

EarliestLoop(w) ==
  LET start == IF w.started THEN w.earliest ELSE StartIndex
      Met(j) == \E s \in Slots : Live(w, s) /\ w.slot[s].index = Scan(start)[j]
      j == FirstHit(0, MaxGap, {k \in 0 .. MaxGap - 1 : Met(k)})
  IN IF j < MaxGap THEN Scan(start)[j] ELSE start

PendingWith(w, i) ==
  {s \in Slots : Live(w, s) /\ w.slot[s].pending /\ w.slot[s].index = i}

NextPacketLoop(w) ==
  LET In(j) == FirstHit(1, BufferSize + 1, PendingWith(w, Scan(w.earliest)[j]))
      j == FirstHit(0, MaxGap, {k \in 0 .. MaxGap - 1 : In(k) \in Slots})
  IN IF j < MaxGap THEN In(j) ELSE NoSlot

(* RemovePacket calls UpdateNextIndex, and so does the NextPacket after it:*)
(* the second scan ends where the first did.                               *)
UpdateNextIndexIsItsLoop ==
  \A d \in {e \in Devices : phase[e] = "received"} :
    \A w \in {UpdateNextIndex(wr[d])} :
      /\ w.earliest = EarliestLoop(wr[d])
      /\ UpdateNextIndex(w) = w

(* The packet chosen is the one the nested loops return, with the resend   *)
(* period expired or not.                                                  *)
NextPacketIsItsLoops ==
  \A d \in {e \in Devices : InTick(e)} :
    \A w \in {Prepared(wr[d], rd[d].outAck, timedOut) : timedOut \in BOOLEAN} :
      {s \in Slots : IsNextPacket(w, s)} = {NextPacketLoop(w)} \ {NoSlot}
=============================================================================
