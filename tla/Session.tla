------------------------------ MODULE Session ------------------------------
(***************************************************************************)
(* The link in the middle of a session: both sequences have started, and   *)
(* First messages of each device have been delivered and acknowledged one  *)
(* by one, so that a few more cross the wrap-around of the indices.        *)
(***************************************************************************)
EXTENDS FairLink, Delivery

CONSTANT First    \* how many messages of each device are over

ASSUME FirstAssumption == First \in [Devices -> Nat]

SessionInit ==
  /\ rd = [d \in Devices |->
            [slot |-> [s \in Slots |-> FreeRx], last |-> IndexOf(First[Peer(d)]),
             current |-> NoSlot, inAck |-> NoAck, outAck |-> NoAck, started |-> TRUE]]
  /\ wr = [d \in Devices |->
            [slot |-> [s \in Slots |-> FreeTx], current |-> IndexOf(First[d]),
             earliest |-> IF First[d] = 0 THEN 1 ELSE IndexOf(First[d]),
             started |-> TRUE]]
  /\ chan = [d \in Devices |-> <<>>]
  /\ phase = [d \in Devices |-> "received"]
  /\ accepted = First
  /\ delivered = [d \in Devices |-> First[Peer(d)]]
  /\ faults = 0

SessionSpec == SessionInit /\ [][FNext]_fvars

SessionFairSpec == SessionSpec /\ \A d \in Devices : Fairness(d)

-----------------------------------------------------------------------------
(* The invariants of module Delivery that hold of a session: of one in     *)
(* which only d sends, and of one too short for an index to come round.    *)
OneWaySession(d) == Sends[Peer(d)] <= First[Peer(d)]
ShortSession == \A d \in Devices : Sends[d] - First[d] <= Lap

SessionInv ==
  /\ \A d \in Devices : OneWaySession(d) => OneWayInv(d) /\ ScanInv
  /\ ShortSession => ShortInv(First)
=============================================================================
