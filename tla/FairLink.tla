------------------------------ MODULE FairLink ------------------------------
(***************************************************************************)
(* The link on a line that fails finitely often, with the fairness of the  *)
(* devices' loops.  A fault is a packet that does not arrive whole, or a   *)
(* resend period that expires while an answer is still on its way; a run   *)
(* has at most MaxFaults of them.  Packets dropped because the line is     *)
(* full follow from the others and are not counted.                        *)
(***************************************************************************)
EXTENDS LinkProperties

CONSTANT MaxFaults

ASSUME FaultsAssumption == MaxFaults \in Nat

VARIABLE faults

fvars == <<vars, faults>>

(* A device owes no answer and has nothing it can read ... *)
Idle(d) ==
  /\ rd[d].inAck = NoAck
  /\ rd[d].outAck = NoAck
  /\ chan[d] = <<>> \/ (rd[d].current = NoSlot /\ NoSpaceLeft(rd[d]))

(* ... so that only the clock goes on. *)
Quiet == \A d \in Devices : Idle(d)

SoundWrite(d) == Write(d, FALSE) \/ (Quiet /\ Write(d, TRUE))
FaultyWrite(d) == ~Quiet /\ Write(d, TRUE)

SoundStep(d) ==
  /\ SoundRead(d) \/ SoundWrite(d) \/ Program(d)
  /\ UNCHANGED faults

FaultyStep(d) ==
  /\ faults < MaxFaults
  /\ FaultyRead(d) \/ FaultyWrite(d)
  /\ faults' = faults + 1

FNext == \E d \in Devices : SoundStep(d) \/ FaultyStep(d)

FInit == Init /\ faults = 0

FSpec == FInit /\ [][FNext]_fvars

(***************************************************************************)
(* Each device goes round its loop for ever, and reads what has arrived.   *)
(* When nothing is in transit no packet is sent and the clock runs on, so  *)
(* the resend period expires; it may not before that.  Nothing obliges a   *)
(* program to Transmit.                                                    *)
(***************************************************************************)
LoopsForever(d) == []<>(phase[d] = "ticked") /\ []<>(phase[d] = "received")

Fairness(d) ==
  /\ LoopsForever(d)
  /\ SF_fvars(SoundRead(d) /\ UNCHANGED faults)
  /\ SF_fvars(Quiet /\ Write(d, TRUE) /\ UNCHANGED faults)

FFairSpec == FSpec /\ \A d \in Devices : Fairness(d)

-----------------------------------------------------------------------------
(* A link is a ReliableLink: a direction is open once its writer's         *)
(* sequence has started, and a sender holds what is live in its buffer.    *)
Held(d) == {wr[d].slot[s].data : s \in Slots} \ {0}

Abstract == INSTANCE ReliableLink WITH open <- [d \in Devices |-> wr[d].started],
                                       held <- [d \in Devices |-> Held(d)]

(* Every step of the link is a step of ReliableLink or none. *)
IsReliable == Abstract!RSpec

(* The same of a session that has begun: from wherever it starts, every    *)
(* step is one of the two queues or none, also where packets of one lap    *)
(* meet acks of the next (cc/commlink.cc:78, :287).                        *)
StepsAreReliable == [][Abstract!RNext]_(Abstract!rvars)

(* README "guaranteed packet delivery": both directions open, and a        *)
(* message that Transmit accepted is delivered, faults, drops and all.     *)
DeliversAll == Abstract!RFairSpec

(* The same without the rest: no message waits for ever. *)
EveryMessageArrives ==
  \A d \in Devices :
    (accepted[d] > delivered[Peer(d)]) ~> (accepted[d] = delivered[Peer(d)])

(* The handshake ends: RxTxPair::Initialized becomes true on both devices, *)
(* and for good.                                                           *)
BothInitialize == <>[](\A d \in Devices : Initialized(d))
=============================================================================
