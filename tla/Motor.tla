------------------------------- MODULE Motor -------------------------------
(***************************************************************************)
(* A stepper motor (cc/motor.cc): the main loop handles the messages of    *)
(* the motor bank, and FastTick moves the motor.  On the Arduino FastTick  *)
(* is the timer interrupt (cc/motor_bank_module.cc:14), which falls        *)
(* between any two statements of a handler; on a PC (__x86_64__) there is  *)
(* no interrupt and the program calls FastTick between handlers.           *)
(*                                                                         *)
(* One motor is modelled: motors share nothing, and a message that         *)
(* concerns all of them handles one after the other.  A handler is the     *)
(* sequence of its accesses to what FastTick uses, pc naming the next one; *)
(* what only the main loop uses goes with the access before or after it.   *)
(* Speeds and accelerations are multiples of 1/Scale.  Mut<Name> is <Name> *)
(* with a mistake; nothing uses it.                                        *)
(***************************************************************************)
EXTENDS Integers, Sequences

CONSTANTS
  Scale,       \* the fixed-point number 1.0
  Moves,       \* the MotorMoveProtos: [steps, min, max, acceleration, disable]
  Tares,       \* the positions to tare to
  Limits,      \* the [min, max] of the MotorConfigProtos
  InitLimit,   \* the limit of a motor that was not configured (200)
  Rules,       \* the number of tare_rules_ (3)
  Pins,        \* the pins that tare rules watch
  SimTicks,    \* the ticks that UpdateRamps simulates at most (1000000)
  Rezeroes,    \* TRUE when a client also zeroes a motor that is in use
  Builds,      \* of "arduino" and "pc", those that are considered
  Track        \* no position outside -Track .. Track is explored

ASSUME MotorAssumption ==
  /\ Scale \in Nat \ {0}
  /\ Moves \subseteq [steps : Int, min : Nat, max : Nat, acceleration : Int,
                      disable : BOOLEAN]
  /\ Tares \subseteq Int
  /\ Limits \subseteq [min : Int, max : Int]
  /\ InitLimit \in Nat
  /\ Rules \in Nat
  /\ Pins \subseteq Nat
  /\ SimTicks \in Nat
  /\ Rezeroes \in BOOLEAN
  /\ Builds \subseteq {"arduino", "pc"}
  /\ Track \in Nat

VARIABLES
  build,        \* which of the Builds this is
  initialized,  \* arduino_ is not null
  current,      \* current_absolute_steps_
  target,       \* target_absolute_steps_
  increment,    \* increment_, what a step adds to current
  limits,       \* min_steps_ and max_steps_
  speeds,       \* min_speed_ and max_speed_
  disable,      \* disable_after_moving_
  acceleration, speed, progress,  \* acceleration_, step_speed_, step_progress_
  slowdown,     \* start_slowdown_step_
  rules,        \* tare_rules_
  enablePin,    \* the output enable_pin, TRUE (high) disables the motor
  dirPin,       \* the output dir_pin
  pc,           \* the next access of the main loop
  todo,         \* what the handler at work has yet to tare to
  local         \* what the handler at work has read: the message, the simulated ramp

moving == <<current, speed, progress, acceleration>>
course == <<target, increment, slowdown, speeds, disable>>
settings == <<build, initialized, limits, rules>>
pins == <<enablePin, dirPin>>
control == <<pc, todo, local>>
vars == <<moving, course, settings, pins, control>>

Inactive == [active |-> FALSE, pin |-> 0, high |-> FALSE, to |-> 0]
NoLocal == [decel |-> 0, speed |-> 0, progress |-> 0, steps |-> 0, ticks |-> 0]

(* The bank's MOTORS are global: what the constructor leaves is zero. *)
Init ==
  /\ build \in Builds
  /\ initialized = FALSE
  /\ current = 0 /\ target = 0 /\ increment = 1 /\ slowdown = 0
  /\ limits = [min |-> 0, max |-> 0]
  /\ speeds = [min |-> 0, max |-> 0]
  /\ disable = FALSE
  /\ acceleration = 0 /\ speed = 0 /\ progress = 0
  /\ rules = [r \in 1 .. Rules |-> Inactive]
  /\ enablePin = FALSE /\ dirPin = FALSE
  /\ pc = "idle" /\ todo = <<>> /\ local = NoLocal

Abs(x) == IF x < 0 THEN -x ELSE x
AtLeast(lo, x) == IF x < lo THEN lo ELSE x
AtMost(hi, x) == IF x > hi THEN hi ELSE x

Direction == target > current
AtTarget == current = target

Goto(from, to) == pc = from /\ pc' = to
-----------------------------------------------------------------------------
(* FastTick, and the Step it may make. *)
MutNewSpeed ==
  IF speed + acceleration > speeds.max THEN speeds.max ELSE speed + acceleration

NewSpeed ==
  IF speed + acceleration > speeds.max THEN speeds.max
  ELSE AtLeast(speeds.min, speed + acceleration)

Accelerate ==
  /\ progress + NewSpeed < Scale
  /\ progress' = progress + NewSpeed
  /\ UNCHANGED <<current, acceleration, enablePin>>

Step ==
  /\ progress + NewSpeed >= Scale
  /\ progress' = 0
  /\ current' = current + increment
  /\ IF current' = target /\ disable
     THEN enablePin' = TRUE /\ UNCHANGED acceleration
     ELSE /\ UNCHANGED enablePin
          /\ acceleration' = IF current' = slowdown THEN -acceleration
                             ELSE acceleration

FastTick ==
  /\ build = "arduino" \/ pc = "idle"
  /\ initialized
  /\ ~AtTarget
  /\ speed' = NewSpeed
  /\ Accelerate \/ Step
  /\ current' \in -Track .. Track
  /\ UNCHANGED <<course, settings, dirPin, control>>
-----------------------------------------------------------------------------
(* UpdateRamps, access by access.  A test and the write that it decides    *)
(* are two steps where the interrupt can make the test wrong in between.   *)
(* They are one where it can do so only by reaching the target, and what   *)
(* is written no longer matters there (motor.cc:90, 93, 94, 147).          *)
MutResetAcceleration ==
  /\ Goto("ramps", "speed")
  /\ UNCHANGED <<moving, course, settings, pins, todo, local>>

ResetAcceleration ==
  /\ Goto("ramps", "speed")
  /\ acceleration' = Abs(acceleration)
  /\ UNCHANGED <<current, speed, progress, course, settings, pins, todo, local>>

ResetSpeed ==
  /\ Goto("speed", "decel")
  /\ speed' = speeds.min
  /\ UNCHANGED <<current, progress, acceleration, course, settings, pins, todo, local>>

HalveWay ==
  /\ Goto("decel", "sim_speed")
  /\ local' = [NoLocal EXCEPT !.decel = Abs(target - current) \div 2]
  /\ UNCHANGED <<moving, course, settings, pins, todo>>

StartSimulation ==
  /\ Goto("sim_speed", "simulate")
  /\ local' = [local EXCEPT !.speed = speed]
  /\ UNCHANGED <<moving, course, settings, pins, todo>>

(* One tick of the simulated ramp. *)
SimulateTick ==
  LET simSpeed == local.speed + acceleration
      stepped == local.progress + simSpeed > Scale
  IN /\ pc = "simulate"
     /\ local.ticks < SimTicks /\ local.speed <= Scale
     /\ local' = [local EXCEPT !.speed = simSpeed, !.ticks = @ + 1,
                           !.progress = IF stepped THEN 0 ELSE @ + simSpeed,
                           !.steps = IF stepped THEN @ + 1 ELSE @]
     /\ UNCHANGED <<moving, course, settings, pins, pc, todo>>

(* The slowdown starts so many steps before the target: decel becomes what *)
(* is to be added to the target.                                           *)
EndSimulation ==
  LET ended == local.ticks < SimTicks /\ local.speed > Scale
      decel == (IF ended THEN AtMost(local.steps, local.decel) ELSE local.decel) - 1
  IN /\ Goto("simulate", "slowdown")
     /\ local.ticks = SimTicks \/ local.speed > Scale
     /\ local' = [NoLocal EXCEPT !.decel = IF Direction THEN -decel ELSE decel]
     /\ UNCHANGED <<moving, course, settings, pins, todo>>

SetSlowdown ==
  /\ Goto("slowdown", "progress")
  /\ slowdown' = target + local.decel
  /\ local' = NoLocal
  /\ UNCHANGED <<moving, target, increment, speeds, disable, settings, pins, todo>>

ResetProgress ==
  /\ Goto("progress", "stop")
  /\ progress' = 0
  /\ UNCHANGED <<current, speed, acceleration, course, settings, pins, todo, local>>

StopAtTarget ==
  /\ Goto("stop", "dir")
  /\ speed' = IF AtTarget THEN 0 ELSE speed
  /\ UNCHANGED <<current, progress, acceleration, course, settings, pins, todo, local>>

SetDirPin ==
  /\ Goto("dir", "increment")
  /\ dirPin' = Direction
  /\ UNCHANGED <<moving, course, settings, enablePin, todo, local>>

MutSetIncrement ==
  /\ Goto("increment", "enable")
  /\ increment' = IF Direction THEN 1 ELSE increment
  /\ UNCHANGED <<moving, target, slowdown, speeds, disable, settings, pins, todo, local>>

SetIncrement ==
  /\ Goto("increment", "enable")
  /\ increment' = IF Direction THEN 1 ELSE -1
  /\ UNCHANGED <<moving, target, slowdown, speeds, disable, settings, pins, todo, local>>

EnableMotor ==
  /\ Goto("enable", "maybe_disable")
  /\ enablePin' = FALSE
  /\ UNCHANGED <<moving, course, settings, dirPin, todo, local>>

MutMaybeDisable == UNCHANGED enablePin

MaybeDisable == enablePin' = IF AtTarget /\ disable THEN TRUE ELSE enablePin

MaybeDisableMotor ==
  /\ Goto("maybe_disable", IF todo = <<>> THEN "idle" ELSE "tared")
  /\ MaybeDisable
  /\ UNCHANGED <<moving, course, settings, dirPin, todo, local>>

UpdateRamps ==
  \/ ResetAcceleration \/ ResetSpeed \/ HalveWay \/ StartSimulation
  \/ SimulateTick \/ EndSimulation \/ SetSlowdown \/ ResetProgress
  \/ StopAtTarget \/ SetDirPin \/ SetIncrement \/ EnableMotor \/ MaybeDisableMotor
-----------------------------------------------------------------------------
(* The messages. *)
MayZero == Rezeroes \/ (AtTarget /\ target = 0)

InitMotor ==
  /\ Goto("idle", "init")
  /\ MayZero
  /\ initialized' = TRUE
  /\ enablePin' = TRUE
  /\ UNCHANGED <<moving, course, build, limits, rules, dirPin, todo, local>>

InitPosition ==
  /\ Goto("init", "idle")
  /\ current' = 0
  /\ limits' = [min |-> -InitLimit, max |-> InitLimit]
  /\ UNCHANGED <<speed, progress, acceleration, course, build, initialized,
                 rules, pins, todo, local>>

Config(l, zero) ==
  /\ pc = "idle"
  /\ zero => MayZero
  /\ current' = IF zero THEN 0 ELSE current
  /\ limits' = l
  /\ UNCHANGED <<speed, progress, acceleration, course, build, initialized,
                 rules, pins, control>>

(* Update.  Its target is set first, its other parameters after that. *)
MutUpdate(move) ==
  /\ pc = "idle"
  /\ initialized
  /\ pc' = "params"
  /\ target' = AtLeast(limits.min, move.steps)
  /\ todo' = <<>>
  /\ local' = move
  /\ UNCHANGED <<moving, increment, slowdown, speeds, disable, settings, pins>>

Update(move) ==
  /\ pc = "idle"
  /\ initialized
  /\ pc' = "params"
  /\ target' = AtLeast(limits.min, AtMost(limits.max, move.steps))
  /\ todo' = <<>>
  /\ local' = move
  /\ UNCHANGED <<moving, increment, slowdown, speeds, disable, settings, pins>>

SetParameters ==
  /\ Goto("params", "ramps")
  /\ speeds' = [min |-> local.min, max |-> local.max]
  /\ acceleration' = local.acceleration
  /\ disable' = local.disable
  /\ local' = NoLocal
  /\ UNCHANGED <<current, speed, progress, target, increment, slowdown,
                 settings, pins, todo>>

(* Taring: todo holds what is left of the handler, for each call of Tare   *)
(* the set of its position, and the empty set for a rule that is skipped.  *)
StartTare(positions) ==
  /\ pc = "idle"
  /\ positions # <<>>
  /\ pc' = "tare"
  /\ todo' = positions
  /\ UNCHANGED <<moving, course, settings, pins, local>>

EndTare(from) ==
  /\ Goto(from, IF Len(todo) = 1 THEN "idle" ELSE "tare")
  /\ todo' = Tail(todo)

SkipRule ==
  /\ pc = "tare" /\ Head(todo) = {}
  /\ EndTare("tare")
  /\ UNCHANGED <<moving, course, settings, pins, local>>

MutTare ==
  /\ pc = "tare"
  /\ current' \in Head(todo)
  /\ EndTare("tare")
  /\ UNCHANGED <<speed, progress, acceleration, course, settings, pins, local>>

(* Without an arduino_ only the position is set. *)
Tare ==
  /\ pc = "tare"
  /\ current' \in Head(todo)
  /\ IF initialized THEN Goto("tare", "ramps") /\ UNCHANGED todo
     ELSE EndTare("tare")
  /\ UNCHANGED <<speed, progress, acceleration, course, settings, pins, local>>

(* Tare calls MaybeDisableMotor again, after UpdateRamps did. *)
EndTareRamps ==
  /\ EndTare("tared")
  /\ MaybeDisable
  /\ UNCHANGED <<moving, course, settings, dirPin, local>>

TareIf(r, pin, high, to) ==
  /\ pc = "idle"
  /\ rules' = [rules EXCEPT ![r] = [active |-> TRUE, pin |-> pin, high |-> high,
                                    to |-> to]]
  /\ UNCHANGED <<moving, course, build, initialized, limits, pins, control>>

(* MaybeTare: the rules that match a report of the pins that are high. *)
Matches(rule, highPins) == rule.active /\ (rule.pin \in highPins <=> rule.high)

MaybeTare(highPins) ==
  StartTare([r \in 1 .. Rules |->
               IF Matches(rules[r], highPins) THEN {rules[r].to} ELSE {}])

AcceptMessage ==
  \/ InitMotor
  \/ \E l \in Limits, zero \in BOOLEAN : Config(l, zero)
  \/ \E move \in Moves : Update(move)
  \/ \E to \in Tares : StartTare(<<{to}>>)
  \/ \E r \in 1 .. Rules, pin \in Pins, high \in BOOLEAN, to \in Tares :
       TareIf(r, pin, high, to)
  \/ \E highPins \in SUBSET Pins : MaybeTare(highPins)

(* The statements of the handler at work. *)
Handle ==
  \/ InitPosition \/ SetParameters \/ UpdateRamps
  \/ SkipRule \/ Tare \/ EndTareRamps

Next == AcceptMessage \/ Handle \/ FastTick

Spec == Init /\ [][Next]_vars

(* The timer goes on, and a handler that has begun ends.  Nothing obliges  *)
(* a client to send a message.                                             *)
FairSpec == Spec /\ WF_vars(Handle) /\ WF_vars(FastTick)
=============================================================================
