------------------------------- MODULE Writer -------------------------------
(***************************************************************************)
(* The sending half of a link: Writer and its OutgoingPacketBuffer         *)
(* (cc/commlink.cc).  A writer is a record                                 *)
(*                                                                         *)
(*   slot      buffer_, live_indices_ and pending_indices_; no live packet *)
(*             has index 0, which marks a slot that is not live            *)
(*   earliest  earliest_sent_index_                                        *)
(*   current   current_index_, the last index given to a packet            *)
(*   started   sequence_started_ of the writer and of its buffer, which    *)
(*             are set together                                            *)
(*                                                                         *)
(* and each operator below returns the writer after one call of the code.  *)
(***************************************************************************)
EXTENDS PacketIndex

TxSlots == [index : Indices, pending : BOOLEAN, ack : Acks, data : Nat]

FreeTx == [index |-> 0, pending |-> FALSE, ack |-> NoAck, data |-> 0]
NewTx(i, data) == [FreeTx EXCEPT !.index = i, !.pending = TRUE, !.data = data]

Writers == [slot : [Slots -> TxSlots], earliest : 1 .. StartIndex,
            current : 0 .. MaxIndex, started : BOOLEAN]

(* The constructor queues the packet that opens the sequence. *)
NewWriter ==
  [slot |-> [s \in Slots |-> IF s = 1 THEN NewTx(StartIndex, 0) ELSE FreeTx],
   earliest |-> StartIndex, current |-> 0, started |-> FALSE]

-----------------------------------------------------------------------------
(* OutgoingPacketBuffer *)

Live(w, s) == w.slot[s].index # 0

(* Sets the pending flag of the live packets with an index in chosen. *)
SetPending(w, chosen, flag) ==
  [w EXCEPT !.slot = [s \in Slots |->
     LET p == w.slot[s]
     IN IF p.index \in chosen \ {0} THEN [p EXCEPT !.pending = flag] ELSE p]]

MarkSent(w, i) == SetPending(w, {i}, FALSE)
MarkResend(w, i) == SetPending(w, {i}, TRUE)
MarkAllResend(w) == SetPending(w, Indices, TRUE)

(* The k-th step of a scan is the first to meet a live packet. *)
FirstLive(w, start, k) ==
  /\ \E s \in Slots : Live(w, s) /\ w.slot[s].index = Advance(start, k)
  /\ \A j \in 0 .. k - 1, s \in Slots :
       ~(Live(w, s) /\ w.slot[s].index = Advance(start, j))

UpdateNextIndex(w) ==
  LET start == IF w.started THEN w.earliest ELSE StartIndex
      Met(k) == FirstLive(w, start, k)
  IN [w EXCEPT !.earliest =
        IF \E k \in 0 .. MaxGap - 1 : Met(k)
          THEN Advance(start, CHOOSE k \in 0 .. MaxGap - 1 : Met(k))
          ELSE start]

(* The packet NextPacket returns, once UpdateNextIndex has run. *)
IsPendingAt(w, s, k) ==
  Live(w, s) /\ w.slot[s].pending /\ w.slot[s].index = Advance(w.earliest, k)

MutIsNextPacket(w, s) == Live(w, s) /\ w.slot[s].pending
IsNextPacket(w, s) ==
  \E k \in 0 .. MaxGap - 1 :
    /\ IsPendingAt(w, s, k)
    /\ \A t \in 1 .. s - 1 : ~IsPendingAt(w, t, k)
    /\ \A j \in 0 .. k - 1, t \in Slots : ~IsPendingAt(w, t, j)

(* Packets older than one that was acked were lost on the way. *)
RemovePacket(w, i) ==
  LET older == {j \in Indices : PrecedesIndex(j, i)}
      kept == [w EXCEPT !.slot = [s \in Slots |->
                 LET p == w.slot[s] IN IF p.index = i THEN FreeTx ELSE p]]
  IN IF \E s \in Slots : Live(w, s) /\ w.slot[s].index = i
       THEN UpdateNextIndex(SetPending(kept, older, TRUE))
       ELSE w

-----------------------------------------------------------------------------
(* Writer *)

(* RemovePacket(0) is left out: no live packet has index 0. *)
MutStartSequence(w) ==
  [RemovePacket(w, StartIndex) EXCEPT !.started = TRUE, !.earliest = 0]
StartSequence(w) ==
  [RemovePacket(w, StartIndex) EXCEPT !.started = TRUE, !.earliest = 1]

MutHandleAck(w, ack) ==
  CASE ack.index # 0 /\ ack.error -> MarkResend(w, ack.index)
    [] ack.index # 0 /\ ~ack.error -> RemovePacket(w, ack.index)
    [] ack.index = 0 -> StartSequence(w)
HandleAck(w, ack) ==
  CASE ack.index # 0 /\ ack.error -> MarkResend(w, ack.index)
    [] ack.index # 0 /\ ~ack.error -> RemovePacket(w, ack.index)
    [] ack = StartAck -> StartSequence(w)
    [] ack = NoAck -> w

(* What Write has done to the writer when it calls NextPacket and when     *)
(* that has updated the earliest index.                                    *)
Prepared(w, ack, timedOut) ==
  LET acked == HandleAck(w, ack)
  IN UpdateNextIndex(IF timedOut THEN MarkAllResend(acked) ELSE acked)

(* A stored packet keeps the ack it was first sent with; only a packet     *)
(* without one takes the ack that waits.                                   *)
TakesAck(w, s) == w.slot[s].ack.index = 0

IncludeAck(w, s, ack) ==
  IF TakesAck(w, s) THEN [w EXCEPT !.slot[s].ack = ack] ELSE w

FrameOf(w, s) ==
  [ack |-> w.slot[s].ack, index |-> w.slot[s].index, data |-> w.slot[s].data]

AckOnly(ack) == [ack |-> ack, index |-> 0, data |-> 0]

AddToOutgoingQueue(w, s, data) ==
  LET i == IncrementIndex(w.current)
  IN [w EXCEPT !.current = i, !.slot[s] = NewTx(i, data)]
=============================================================================
