----------------------------- MODULE IndexLoops -----------------------------
(***************************************************************************)
(* The loops of the index arithmetic of cc/commlink.cc, which PacketIndex  *)
(* gives in closed form.                                                   *)
(***************************************************************************)
EXTENDS PacketIndex

(* test, and whether one pass of the loop finds it equal to the index. *)
InRangeLoop(last, i) ==
  LET test[j \in 0 .. BufferSize] == IF j = 0 THEN last ELSE NextIndex(test[j - 1])
  IN \E j \in 1 .. BufferSize : test[j] = i

(* The index a scan looks at in each pass, with IncrementIndex after it. *)
Scan(i) ==
  LET next[j \in 0 .. MaxGap] == IF j = 0 THEN i ELSE IncrementIndex(next[j - 1])
  IN next

PrecedesLoop(i, sent) == \E j \in 1 .. MaxGap : Scan(i)[j] = sent

(* A loop from one number up to another that ends early at a hit: the pass *)
(* it ends with, which is the upper limit when there was no hit.           *)
FirstHit(from, to, hits) ==
  LET at[j \in from .. to] == IF j = to \/ j \in hits THEN j ELSE at[j + 1]
  IN at[from]

(* The closed forms are what the loops compute, wherever a scan begins     *)
(* and whatever it looks for, across the wrap-around.                      *)
ClosedFormsAreLoops ==
  \A from, i \in Indices :
    /\ from <= MaxIndex => (InRange(from, i) <=> InRangeLoop(from, i))
    /\ PrecedesIndex(from, i) <=> PrecedesLoop(from, i)
=============================================================================
