-------------------------- MODULE MotorProperties --------------------------
(* What a motor must do, whenever its messages and its interrupts come.    *)
EXTENDS Motor

Labels == {"idle", "init", "params", "ramps", "speed", "decel", "sim_speed",
           "simulate", "slowdown", "progress", "stop", "dir", "increment", "enable",
           "maybe_disable", "tare", "tared"}

SimVars == [decel : Int, speed : Int, progress : Int, steps : Nat, ticks : Nat]

(* Every variable keeps its type; no speed becomes negative, although a    *)
(* braking motor subtracts, and progress stays short of a step.            *)
TypeOK ==
  /\ build \in Builds
  /\ initialized \in BOOLEAN
  /\ current \in Int /\ target \in Int /\ slowdown \in Int
  /\ increment \in {1, -1}
  /\ limits \in [min : Int, max : Int]
  /\ speeds \in [min : Nat, max : Nat]
  /\ disable \in BOOLEAN
  /\ acceleration \in Int /\ speed \in Nat /\ progress \in 0 .. Scale - 1
  /\ rules \in [1 .. Rules -> [active : BOOLEAN, pin : Pins \cup {0},
                               high : BOOLEAN, to : Int]]
  /\ enablePin \in BOOLEAN /\ dirPin \in BOOLEAN
  /\ pc \in Labels
  /\ todo \in Seq(SUBSET Int)
  /\ local \in SimVars \cup Moves

(* A motor that has steps to go, once the message was handled, is enabled, *)
(* and both its direction pin and its increment lead to the target,        *)
(* whatever the interrupt did in between (UpdateRamps).                    *)
HeadsForTarget ==
  (pc = "idle" /\ initialized /\ ~AtTarget) =>
    /\ ~enablePin
    /\ dirPin = Direction
    /\ increment = IF Direction THEN 1 ELSE -1

(* disable_after_moving: a motor that rests at its target is disabled,     *)
(* whether the interrupt or the handler was the last to find it there.     *)
RestsDisabled ==
  (pc = "idle" /\ initialized /\ AtTarget /\ disable) => enablePin

(* "We start at this min speed and will try to decelerate back to it"      *)
(* (motor_command.proto:21): where no interrupt falls into a handler, a    *)
(* motor that has steps to go brakes if and only if it has passed the step *)
(* where the slowdown starts.                                              *)
PastSlowdown ==
  IF Direction THEN current >= slowdown ELSE current <= slowdown

BrakesLast ==
  (build = "pc" /\ pc = "idle" /\ ~AtTarget /\ acceleration # 0) =>
    (acceleration < 0 <=> PastSlowdown)

(* A motor that is left alone after a move reaches its target: while steps *)
(* are left its speed does not stay zero.  Test ReachMaxSpeedAndSlowBack-  *)
(* Down asserts it of its move, "Zero speed with ... steps left"           *)
(* (motor_test.cc:198); its min_speed is 0, and for small moves with that  *)
(* the run standstill violates it.                                         *)
MovesComplete ==
  (<>[](pc = "idle" /\ initialized /\ speeds.max > 0)) => <>[]AtTarget

(* With a min_speed that is not 0 it does, wherever the brakes and the     *)
(* interrupts left the acceleration: the clamp of FastTick (motor.cc:131). *)
MinSpeedArrives ==
  (<>[](pc = "idle" /\ initialized /\ speeds.min > 0 /\ speeds.max > 0))
    => <>[]AtTarget

(* Test ObserveMaxPositions (motor_test.cc:100), for every sequence of     *)
(* messages that zeroes no motor in use, where Config does not check the   *)
(* target (motor.cc:169).  No step between handlers takes a motor out of   *)
(* its limits while its target is inside of them; and only new limits that *)
(* leave the target outside make it so: no move and no tare does.  Within  *)
(* a handler an interrupt may find the new target with the old increment.  *)
Inside(position) == position \in limits.min .. limits.max

ObservesMaxPositions ==
  [][/\ (pc = "idle" /\ FastTick /\ Inside(current) /\ Inside(target)) => Inside(current')
     /\ (Inside(target) /\ ~Inside(target)') => limits' # limits]_vars
=============================================================================
