-------------------------- MODULE SystemProperties --------------------------
(***************************************************************************)
(* What a Python program may rely on, and the fairness it takes.           *)
(***************************************************************************)
EXTENDS System

(* The program's thread reads what is there, and the two loops go round    *)
(* for ever, which for the bridge takes an open link.  A message that is   *)
(* there again and again when an end calls Receive is received at last,    *)
(* as FairLink's DeliversAll says.                                         *)
Fairness ==
  /\ WF_svars(See)
  /\ []<>(bridge = "tick") /\ []<>(bridge = "drain")
  /\ []<>(turn = "serial") /\ []<>(turn = "bank")
  /\ SF_svars(BridgeReceive) /\ SF_svars(SerialReceive)

FairSpec == Spec /\ Fairness

-----------------------------------------------------------------------------
(* Each end holds what it must and no more than it can; the messages on    *)
(* the link are those not yet received; a report has a value per motor.    *)
TypeOK ==
  /\ bridge \in {"tick", "drain"}
  /\ turn \in {"serial", "bank", "read"}
  /\ \A d \in Devices :
       /\ Cardinality(held[d]) <= BufferSize
       /\ Len(wire[d]) = accepted[d] - delivered[Link!Other(d)]
  /\ board.states \subseteq board.watched
  /\ \A m \in Range(Messages(fromCc) \o wire[BOARD]) :
       IF Type(m) = MOTOR_REPORT THEN Len(m) = 1 + NumMotors ELSE Len(m) = 2

(* The Python program has a RemoteBoard: bridge, files and link change,    *)
(* reorder and duplicate nothing, in either direction.                     *)
IsRemoteBoard == Remote!BSpec

(* Every request is somewhere on its way, or its report is, or it has had  *)
(* its one report, or it was lost where the code loses it: a full buffer   *)
(* of the bridge or of the board, a report that does not fit.              *)
RequestsAccounted ==
  LET Asking(seq) == Cardinality({i \in DOMAIN seq : Asks(seq[i])})
      Answering(seq) == Cardinality({i \in DOMAIN seq : Type(seq[i]) = MOTOR_REPORT})
  IN asked = Asking(Messages(toCc)) + Asking(wire[PC]) + Count(board.request)
             + Answering(wire[BOARD]) + Answering(Messages(fromCc))
             + view.answers + unanswered

(* The bridge loses nothing of a burst that fits into the link's buffer.   *)
BurstIsCarried == sent <= BufferSize => dropped = 0

(* Every request is answered at last, unless it was lost. *)
RequestsAnswered == []<>(asked = view.answers + unanswered)

(* What the program has last been told of the pins it asked for becomes    *)
(* what they are, unless the last report was refused by the full buffer.   *)
ViewCatchesUp ==
  <>[](board.watched # {} /\ ~stale =>
         view.reading = <<READ_REPORT, Bitmap(pins \cap board.watched)>>)
=============================================================================
