---------------------------- MODULE PacketIndex ----------------------------
(***************************************************************************)
(* The arithmetic of packet indices shared by both halves of a link        *)
(* (cc/commlink.cc).  A data packet carries an index in 1..MaxIndex; index *)
(* 0 is "no packet" (an ack-only packet) and StartIndex opens a sequence.  *)
(* MaxIndex is followed by 1: index 0 is never reached by counting.        *)
(*                                                                         *)
(* The loops of the source are given here in closed form; module           *)
(* IndexLoops spells the loops out, and LinkProofs proves the two equal.   *)
(*                                                                         *)
(* Here and in the modules that use it, an operator Mut<Name> is <Name>    *)
(* with a plausible mistake.  No behaviour uses one: put in the place of   *)
(* <Name> it shows that the properties notice.                             *)
(***************************************************************************)
EXTENDS Integers

CONSTANTS
  BufferSize,   \* BUFFER_SIZE: slots of each packet buffer (4)
  MaxIndex,     \* the largest index of a data packet (127)
  MaxGap        \* MAX_OUTGOING_INDEX_GAP: how far a scan for a packet looks (15)

(* A scan looks past what fits in the buffer, and the indices it sees with *)
(* those the reader waits for are less than a lap.                         *)
ASSUME IndexAssumption ==
  /\ BufferSize \in Nat \ {0}
  /\ MaxIndex \in Nat
  /\ MaxGap \in Nat
  /\ BufferSize < MaxGap
  /\ MaxGap + BufferSize <= MaxIndex

(* 0x80 in the source: the first value past the index range. *)
StartIndex == MaxIndex + 1

Slots == 1 .. BufferSize
NoSlot == 0

DataIndices == 1 .. MaxIndex
Indices == 0 .. StartIndex

NextIndex(i) == IF i + 1 = StartIndex THEN 1 ELSE i + 1

IncrementIndex(i) == IF i + 1 >= StartIndex THEN 1 ELSE i + 1

(* IncrementIndex applied k <= MaxIndex times; from StartIndex, as from 0,  *)
(* the first index is 1.                                                    *)
Advance(i, k) ==
  LET from == IF i > MaxIndex THEN 0 ELSE i
  IN CASE k = 0 -> i
       [] k > 0 /\ from + k > MaxIndex -> from + k - MaxIndex
       [] k > 0 /\ from + k <= MaxIndex -> from + k

(* The index that counting from 0 gives the n-th packet; 0 for no packet. *)
IndexOf(n) == IF n = 0 THEN 0 ELSE ((n - 1) % MaxIndex) + 1

(* One of the BufferSize indices that follow last. *)
MutInRange(last, i) == \E k \in 0 .. BufferSize : i = Advance(last, k)
InRange(last, i) == \E k \in 1 .. BufferSize : i = Advance(last, k)

(* index sent is at most MaxGap ahead of index i. *)
MutPrecedesIndex(i, sent) == \E k \in 1 .. MaxGap : sent = i + k
PrecedesIndex(i, sent) == \E k \in 1 .. MaxGap : sent = Advance(i, k)

(***************************************************************************)
(* An ack byte: seven bits of index and an error flag.  The index 0 with   *)
(* the flag clear is no ack at all, with the flag set it acknowledges the  *)
(* start of the sequence.                                                  *)
(***************************************************************************)
Acks == [index : 0 .. MaxIndex, error : BOOLEAN]

NoAck == [index |-> 0, error |-> FALSE]
StartAck == [index |-> 0, error |-> TRUE]
OkAck(i) == [index |-> i, error |-> FALSE]
ErrorAck(i) == [index |-> i, error |-> TRUE]

(* A packet on the wire; data is 0 for a packet without a payload. *)
Frames == [ack : Acks, index : Indices, data : Nat]
=============================================================================
