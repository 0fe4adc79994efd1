------------------------------ MODULE MCMotor ------------------------------
(* Instances of Motor for TLC: speeds in halves of a step per tick.      *)
EXTENDS MotorProperties

CONSTANTS Targets, MinSpeeds, Accelerations, Disables, MaxSteps

MCScale == 2
MCMoves ==
  [steps : Targets, min : MinSpeeds, max : {MCScale},
   acceleration : Accelerations, disable : Disables]
MCLimits == {[min |-> -most, max |-> most] : most \in MaxSteps}
=============================================================================
