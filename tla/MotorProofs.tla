----------------------------- MODULE MotorProofs -----------------------------
(***************************************************************************)
(* Theorems about Motor, for all values of its constants.  A handler may   *)
(* be interrupted anywhere, so the invariant says for each place in it     *)
(* what has been settled: a motor that is not at its target stays on the   *)
(* same side of it until it is, and there it stops, so that what the       *)
(* handler found of the direction remains true or no longer matters.       *)
(***************************************************************************)
EXTENDS MotorProperties, SequenceTheorems, TLAPS

(* What the handler has read, and what it has yet to do. *)
HandlerInv ==
  /\ pc = "params" => local \in Moves
  /\ pc # "params" => local \in SimVars
  /\ pc \in {"tare", "tared"} => todo # <<>>

TypeInv == TypeOK /\ HandlerInv

Heading == IF Direction THEN 1 ELSE -1

(* What is settled once the handler has come past SetDirPin, SetIncrement, *)
(* EnableMotor and MaybeDisableMotor, and while Init is under way.         *)
AfterMaybeDisable == {"tared", "idle", "tare"}
AfterEnable == AfterMaybeDisable \cup {"maybe_disable"}
AfterIncrement == AfterEnable \cup {"enable"}
AfterDirPin == AfterIncrement \cup {"increment"}

DirPinInv == (pc \in AfterDirPin /\ ~AtTarget) => dirPin = Direction
IncrementInv == (pc \in AfterIncrement /\ ~AtTarget) => increment = Heading
EnableInv == (pc \in AfterEnable /\ ~AtTarget) => ~enablePin
DisableInv == (pc \in AfterMaybeDisable /\ AtTarget /\ disable) => enablePin
ZeroInv == pc = "init" => (AtTarget /\ target = 0 /\ enablePin)

CourseInv ==
  initialized => DirPinInv /\ IncrementInv /\ EnableInv /\ DisableInv /\ ZeroInv
-----------------------------------------------------------------------------
(* The speed of a tick is a natural number, also when the motor brakes.    *)
LEMMA NewSpeedType ==
  ASSUME TypeInv PROVE NewSpeed \in Nat
<1>1. speeds.min \in Nat /\ speeds.max \in Nat /\ speed \in Nat /\ acceleration \in Int
  BY DEF TypeInv, TypeOK
<1> QED
  BY <1>1 DEF NewSpeed, AtLeast

LEMMA InitType == Init => TypeInv
<1> SUFFICES ASSUME Init PROVE TypeInv
  OBVIOUS
<1> USE MotorAssumption DEF Init
<1>1. rules \in [1 .. Rules -> [active : BOOLEAN, pin : Pins \cup {0},
                                high : BOOLEAN, to : Int]]
  BY DEF Inactive
<1>2. local \in SimVars
  BY DEF NoLocal, SimVars
<1>3. todo \in Seq(SUBSET Int) /\ todo = <<>>
  OBVIOUS
<1>4. limits \in [min : Int, max : Int] /\ speeds \in [min : Nat, max : Nat]
  OBVIOUS
<1>5. current \in Int /\ target \in Int /\ slowdown \in Int /\ increment \in {1, -1}
      /\ acceleration \in Int /\ speed \in Nat /\ progress \in 0 .. Scale - 1
  OBVIOUS
<1>6. build \in Builds /\ initialized \in BOOLEAN /\ disable \in BOOLEAN
      /\ enablePin \in BOOLEAN /\ dirPin \in BOOLEAN
  OBVIOUS
<1>7. pc = "idle" /\ pc \in Labels
  BY DEF Labels
<1>8. TypeOK
  BY <1>1, <1>2, <1>3, <1>4, <1>5, <1>6, <1>7, Zenon DEF TypeOK
<1> QED
  BY <1>2, <1>7, <1>8 DEF TypeInv, HandlerInv

LEMMA FastTickType == ASSUME TypeInv, FastTick PROVE TypeInv'
<1>1. NewSpeed \in Nat
  BY NewSpeedType
<1>2. current' \in Int /\ speed' \in Nat /\ acceleration' \in Int
      /\ progress' \in 0 .. Scale - 1 /\ enablePin' \in BOOLEAN
  <2>1. speed' \in Nat
    BY <1>1 DEF FastTick
  <2>2. CASE Accelerate
    BY <1>1, <2>1, <2>2, MotorAssumption DEF Accelerate, TypeInv, TypeOK
  <2>3. CASE Step
    <3>1. current' \in Int /\ progress' \in 0 .. Scale - 1
      BY <2>3, MotorAssumption DEF Step, TypeInv, TypeOK
    <3>2. CASE current' = target /\ disable
      BY <2>1, <2>3, <3>1, <3>2 DEF Step, TypeInv, TypeOK
    <3>3. CASE ~(current' = target /\ disable)
      <4>1. enablePin' = enablePin
        BY <2>3, <3>3, Zenon DEF Step
      <4>2. acceleration' = IF current' = slowdown THEN -acceleration ELSE acceleration
        BY <2>3, <3>3, Zenon DEF Step
      <4> QED
        BY <2>1, <3>1, <4>1, <4>2 DEF TypeInv, TypeOK
    <3> QED
      BY <3>2, <3>3
  <2> QED
    BY <2>2, <2>3 DEF FastTick
<1> QED
  BY <1>2 DEF FastTick, TypeInv, TypeOK, HandlerInv, course, settings, control

LEMMA SimTickType ==
  ASSUME local \in SimVars, acceleration \in Int, Scale \in Int, SimulateTick
  PROVE local' \in SimVars
<1> DEFINE simSpeed == local.speed + acceleration
           stepped == local.progress + simSpeed > Scale
           simProgress == IF stepped THEN 0 ELSE local.progress + simSpeed
           simSteps == IF stepped THEN local.steps + 1 ELSE local.steps
           simTicks == local.ticks + 1
<1>1. local' = [local EXCEPT !.speed = simSpeed, !.ticks = simTicks,
                             !.progress = simProgress, !.steps = simSteps]
  <2>1. local' = [local EXCEPT !.speed = simSpeed, !.ticks = @ + 1,
                               !.progress = IF stepped THEN 0 ELSE @ + simSpeed,
                               !.steps = IF stepped THEN @ + 1 ELSE @]
    BY DEF SimulateTick
  <2> QED
    BY <2>1 DEF SimVars
<1>2. simSpeed \in Int /\ simTicks \in Nat
  BY DEF SimVars
<1>3. simProgress \in Int
  BY <1>2 DEF SimVars
<1>4. simSteps \in Nat
  BY DEF SimVars
<1> HIDE DEF simSpeed, simProgress, simSteps, simTicks
<1> QED
  BY <1>1, <1>2, <1>3, <1>4 DEF SimVars

LEMMA WithDecel ==
  ASSUME NEW decel \in Int PROVE [NoLocal EXCEPT !.decel = decel] \in SimVars
BY DEF NoLocal, SimVars

LEMMA WithSpeed ==
  ASSUME NEW ramp \in SimVars, NEW from \in Int PROVE [ramp EXCEPT !.speed = from] \in SimVars
BY DEF SimVars

LEMMA EndSimulationType ==
  ASSUME local \in SimVars, EndSimulation PROVE local' \in SimVars
<1> DEFINE ended == local.ticks < SimTicks /\ local.speed > Scale
           decel == (IF ended THEN AtMost(local.steps, local.decel) ELSE local.decel) - 1
           offset == IF Direction THEN -decel ELSE decel
<1>1. local' = [NoLocal EXCEPT !.decel = offset]
  BY DEF EndSimulation
<1>2. decel \in Int
  BY DEF SimVars, AtMost
<1>3. offset \in Int
  <2> HIDE DEF decel
  <2> QED
    BY <1>2
<1> HIDE DEF offset
<1> QED
  BY <1>1, <1>3, WithDecel

LEMMA UpdateRampsType == ASSUME TypeInv, UpdateRamps PROVE TypeInv'
<1> USE DEF TypeInv, TypeOK, HandlerInv, Goto, Labels
<1>1. CASE ResetAcceleration
  BY <1>1 DEF ResetAcceleration, Abs, course, settings, pins
<1>2. CASE ResetSpeed
  BY <1>2 DEF ResetSpeed, course, settings, pins
<1>3. CASE HalveWay
  <2>1. target \in Int /\ current \in Int
    OBVIOUS
  <2>2. Abs(target - current) \div 2 \in Int
    BY <2>1 DEF Abs
  <2>3. local' \in SimVars
    BY <1>3, <2>2, WithDecel DEF HalveWay
  <2> QED
    BY <1>3, <2>3 DEF HalveWay, moving, course, settings, pins
<1>4. CASE StartSimulation
  <2>1. local \in SimVars /\ speed \in Nat
    BY <1>4 DEF StartSimulation
  <2>2. local' \in SimVars
    BY <1>4, <2>1, WithSpeed DEF StartSimulation
  <2> QED
    BY <1>4, <2>2 DEF StartSimulation, moving, course, settings, pins
<1>5. CASE SimulateTick
  <2>1. local \in SimVars /\ acceleration \in Int /\ Scale \in Int
    BY <1>5, MotorAssumption DEF SimulateTick
  <2>2. local' \in SimVars
    BY <1>5, <2>1, SimTickType
  <2> QED
    BY <1>5, <2>2 DEF SimulateTick, moving, course, settings, pins
<1>6. CASE EndSimulation
  <2>1. local' \in SimVars
    BY <1>6, EndSimulationType DEF EndSimulation
  <2> QED
    BY <1>6, <2>1 DEF EndSimulation, moving, course, settings, pins
<1>7. CASE SetSlowdown
  <2>1. slowdown' \in Int
    BY <1>7 DEF SetSlowdown, SimVars
  <2>2. local' \in SimVars
    BY <1>7 DEF SetSlowdown, NoLocal, SimVars
  <2> QED
    BY <1>7, <2>1, <2>2 DEF SetSlowdown, moving, settings, pins
<1>8. CASE ResetProgress
  BY <1>8, MotorAssumption DEF ResetProgress, course, settings, pins
<1>9. CASE StopAtTarget
  BY <1>9 DEF StopAtTarget, course, settings, pins
<1>10. CASE SetDirPin
  BY <1>10 DEF SetDirPin, Direction, moving, course, settings
<1>11. CASE SetIncrement
  BY <1>11 DEF SetIncrement, moving, settings, pins
<1>12. CASE EnableMotor
  BY <1>12 DEF EnableMotor, moving, course, settings
<1>13. CASE MaybeDisableMotor
  BY <1>13 DEF MaybeDisableMotor, MaybeDisable, moving, course, settings
<1> QED
  BY <1>1, <1>2, <1>3, <1>4, <1>5, <1>6, <1>7, <1>8, <1>9, <1>10, <1>11, <1>12, <1>13
  DEF UpdateRamps

LEMMA TareType ==
  ASSUME TypeInv, pc \in {"tare", "tared"}
  PROVE /\ Tail(todo) \in Seq(SUBSET Int)
        /\ Head(todo) \subseteq Int
        /\ Len(todo) # 1 => Tail(todo) # <<>>
<1>1. todo \in Seq(SUBSET Int) /\ todo # <<>>
  BY DEF TypeInv, TypeOK, HandlerInv
<1>2. Head(todo) \in SUBSET Int /\ Tail(todo) \in Seq(SUBSET Int)
      /\ Len(Tail(todo)) = Len(todo) - 1
  BY <1>1, HeadTailProperties
<1>3. Len(todo) # 1 => Len(Tail(todo)) # 0
  BY <1>1, <1>2, LenProperties
<1>4. Tail(todo) = <<>> => Len(Tail(todo)) = 0
  BY <1>2, EmptySeq
<1> QED
  BY <1>2, <1>3, <1>4

(* What MaybeTare hands over is a sequence: there are finitely many rules. *)
LEMMA MaybeTareType ==
  ASSUME TypeInv, NEW highPins
  PROVE [r \in 1 .. Rules |->
           IF Matches(rules[r], highPins) THEN {rules[r].to} ELSE {}] \in Seq(SUBSET Int)
<1> DEFINE positions(r) == IF Matches(rules[r], highPins) THEN {rules[r].to} ELSE {}
<1>1. ASSUME NEW r \in 1 .. Rules PROVE positions(r) \in SUBSET Int
  BY DEF TypeInv, TypeOK
<1> HIDE DEF positions
<1>2. [r \in 1 .. Rules |-> positions(r)] \in [1 .. Rules -> SUBSET Int]
  BY <1>1
<1>3. [r \in 1 .. Rules |-> positions(r)] \in Seq(SUBSET Int)
  BY <1>2, MotorAssumption
<1> QED
  BY <1>3 DEF positions

LEMMA AcceptMessageType == ASSUME TypeInv, AcceptMessage PROVE TypeInv'
<1> USE DEF TypeInv, TypeOK, HandlerInv, Goto, Labels
<1>1. CASE InitMotor
  BY <1>1 DEF InitMotor, moving, course
<1>2. ASSUME NEW l \in Limits, NEW zero \in BOOLEAN, Config(l, zero)
      PROVE TypeInv'
  <2>1. l \in [min : Int, max : Int]
    BY MotorAssumption
  <2> QED
    BY <1>2, <2>1 DEF Config, course, pins, control
<1>3. ASSUME NEW move \in Moves, Update(move)
      PROVE TypeInv'
  <2>1. move.steps \in Int
    BY MotorAssumption
  <2>2. target' \in Int
    BY <1>3, <2>1 DEF Update, AtLeast, AtMost
  <2> QED
    BY <1>3, <2>2 DEF Update, moving, settings, pins
<1>4. ASSUME NEW positions \in Seq(SUBSET Int), StartTare(positions)
      PROVE TypeInv'
  BY <1>4 DEF StartTare, moving, course, settings, pins
<1>5. ASSUME NEW r \in 1 .. Rules, NEW pin \in Pins, NEW high \in BOOLEAN,
             NEW to \in Tares, TareIf(r, pin, high, to)
      PROVE TypeInv'
  <2>1. rules' \in [1 .. Rules -> [active : BOOLEAN, pin : Pins \cup {0},
                                   high : BOOLEAN, to : Int]]
    BY <1>5, MotorAssumption DEF TareIf
  <2> QED
    BY <1>5, <2>1 DEF TareIf, moving, course, pins, control
<1>6. ASSUME NEW to \in Tares, StartTare(<<{to}>>)
      PROVE TypeInv'
  <2>1. <<{to}>> \in Seq(SUBSET Int)
    BY MotorAssumption
  <2> QED
    BY <1>4, <1>6, <2>1
<1>7. ASSUME NEW highPins, MaybeTare(highPins)
      PROVE TypeInv'
  BY <1>4, <1>7, MaybeTareType DEF MaybeTare
<1> HIDE DEF TypeInv, TypeOK, HandlerInv, Goto, Labels
<1> QED
  BY <1>1, <1>2, <1>3, <1>5, <1>6, <1>7, Zenon DEF AcceptMessage

LEMMA HandleType == ASSUME TypeInv, Handle PROVE TypeInv'
<1> USE DEF TypeInv, TypeOK, HandlerInv, Goto, Labels
<1>1. CASE InitPosition
  BY <1>1, MotorAssumption DEF InitPosition, course, pins
<1>2. CASE SetParameters
  <2>1. local \in Moves
    BY <1>2 DEF SetParameters
  <2>2. local.min \in Nat /\ local.max \in Nat /\ local.acceleration \in Int
        /\ local.disable \in BOOLEAN
    BY <2>1, MotorAssumption
  <2>3. local' \in SimVars
    BY <1>2 DEF SetParameters, NoLocal, SimVars
  <2> QED
    BY <1>2, <2>2, <2>3 DEF SetParameters, settings, pins
<1>3. CASE UpdateRamps
  BY <1>3, UpdateRampsType
<1>4. CASE SkipRule
  BY <1>4, TareType DEF SkipRule, EndTare, moving, course, settings, pins
<1>5. CASE Tare
  BY <1>5, TareType DEF Tare, EndTare, course, settings, pins
<1>6. CASE EndTareRamps
  BY <1>6, TareType DEF EndTareRamps, EndTare, MaybeDisable, moving, course, settings
<1> QED
  BY <1>1, <1>2, <1>3, <1>4, <1>5, <1>6 DEF Handle

(* Every variable of a motor keeps its type; its speed is never negative.  *)
THEOREM MotorTypeCorrect == Spec => []TypeOK
<1>1. Init => TypeInv
  BY InitType
<1>2. TypeInv /\ [Next]_vars => TypeInv'
  <2> SUFFICES ASSUME TypeInv, [Next]_vars PROVE TypeInv'
    OBVIOUS
  <2>1. CASE AcceptMessage
    BY <2>1, AcceptMessageType
  <2>2. CASE Handle
    BY <2>2, HandleType
  <2>3. CASE FastTick
    BY <2>3, FastTickType
  <2>4. CASE UNCHANGED vars
    BY <2>4 DEF TypeInv, TypeOK, HandlerInv, vars, moving, course, settings, pins, control
  <2> QED
    BY <2>1, <2>2, <2>3, <2>4 DEF Next
<1>3. TypeInv => TypeOK
  BY DEF TypeInv
<1> QED
  BY <1>1, <1>2, <1>3, PTL DEF Spec
-----------------------------------------------------------------------------
(* A step of one cannot pass the target without stopping there.            *)
LEMMA SameSide ==
  ASSUME TypeInv, Step, ~AtTarget, target' = target, ~AtTarget'
  PROVE Direction' = Direction
<1>1. current \in Int /\ target \in Int /\ increment \in {1, -1}
  BY DEF TypeInv, TypeOK
<1>2. current' = current + increment
  BY DEF Step
<1> QED
  BY <1>1, <1>2 DEF AtTarget, Direction

LEMMA FastTickCourse == ASSUME TypeInv, CourseInv, FastTick PROVE CourseInv'
<1>1. initialized /\ initialized' = initialized /\ ~AtTarget /\ pc' = pc /\ target' = target
      /\ increment' = increment /\ dirPin' = dirPin /\ disable' = disable
  BY DEF FastTick, course, settings, control
<1>2. DirPinInv /\ IncrementInv /\ EnableInv /\ DisableInv /\ ZeroInv
  BY <1>1 DEF CourseInv
<1>3. pc # "init"
  BY <1>1, <1>2 DEF ZeroInv
<1>4. CASE Accelerate
  <2>1. current' = current /\ enablePin' = enablePin
    BY <1>4 DEF Accelerate
  <2>2. AtTarget' = AtTarget /\ Direction' = Direction /\ Heading' = Heading
    BY <1>1, <2>1 DEF AtTarget, Direction, Heading
  <2> QED
    BY <1>1, <1>2, <1>3, <2>1, <2>2
    DEF CourseInv, DirPinInv, IncrementInv, EnableInv, DisableInv, ZeroInv
<1>5. CASE Step
  <2>1. ~AtTarget' => Direction' = Direction /\ Heading' = Heading
    BY <1>1, <1>5, SameSide DEF Heading
  <2>2. AtTarget' /\ disable => enablePin'
    BY <1>1, <1>5 DEF Step, AtTarget
  <2>3. ~AtTarget' => enablePin' = enablePin
    <3>1. ~AtTarget' => ~(current' = target /\ disable)
      BY <1>1 DEF AtTarget
    <3> QED
      BY <1>5, <3>1, Zenon DEF Step
  <2> QED
    BY <1>1, <1>2, <1>3, <2>1, <2>2, <2>3
    DEF CourseInv, DirPinInv, IncrementInv, EnableInv, DisableInv, ZeroInv
<1> QED
  BY <1>4, <1>5 DEF FastTick

(* UpdateRamps settles one thing after the other.                          *)
LEMMA UpdateRampsCourse == ASSUME CourseInv, UpdateRamps PROVE CourseInv'
<1> USE DEF CourseInv, DirPinInv, IncrementInv, EnableInv, DisableInv, ZeroInv, Goto,
            AfterDirPin, AfterIncrement, AfterEnable, AfterMaybeDisable, AtTarget
<1>1. CASE ResetAcceleration
  BY <1>1 DEF ResetAcceleration
<1>2. CASE ResetSpeed
  BY <1>2 DEF ResetSpeed
<1>3. CASE HalveWay
  BY <1>3 DEF HalveWay
<1>4. CASE StartSimulation
  BY <1>4 DEF StartSimulation
<1>5. CASE SimulateTick
  BY <1>5 DEF SimulateTick, settings
<1>6. CASE EndSimulation
  BY <1>6 DEF EndSimulation
<1>7. CASE SetSlowdown
  BY <1>7 DEF SetSlowdown
<1>8. CASE ResetProgress
  BY <1>8 DEF ResetProgress
<1>9. CASE StopAtTarget
  BY <1>9 DEF StopAtTarget
<1>10. CASE SetDirPin
  BY <1>10 DEF SetDirPin, Direction, moving, course
<1>11. CASE SetIncrement
  BY <1>11 DEF SetIncrement, Direction, Heading, moving, settings, pins
<1>12. CASE EnableMotor
  BY <1>12 DEF EnableMotor, Direction, Heading, moving, course, settings
<1>13. CASE MaybeDisableMotor
  BY <1>13 DEF MaybeDisableMotor, MaybeDisable, Direction, Heading, moving, course, settings
<1> QED
  BY <1>1, <1>2, <1>3, <1>4, <1>5, <1>6, <1>7, <1>8, <1>9, <1>10, <1>11, <1>12, <1>13
  DEF UpdateRamps

LEMMA AcceptMessageCourse ==
  ASSUME Rezeroes = FALSE, TypeInv, CourseInv, AcceptMessage PROVE CourseInv'
<1> USE DEF CourseInv, DirPinInv, IncrementInv, EnableInv, DisableInv, ZeroInv, Goto,
            AfterDirPin, AfterIncrement, AfterEnable, AfterMaybeDisable, AtTarget
<1>1. CASE InitMotor
  BY <1>1 DEF InitMotor, MayZero, moving, course
<1>2. ASSUME NEW l \in Limits, NEW zero \in BOOLEAN, Config(l, zero) PROVE CourseInv'
  <2>1. current' = current
    BY <1>2 DEF Config, MayZero
  <2> QED
    BY <1>2, <2>1 DEF Config, Direction, Heading, course, pins, control
<1>3. ASSUME NEW move, Update(move) PROVE CourseInv'
  BY <1>3 DEF Update, settings
<1>4. ASSUME NEW positions, StartTare(positions) PROVE CourseInv'
  BY <1>4 DEF StartTare, Direction, Heading, moving, course, settings, pins
<1>5. ASSUME NEW r, NEW pin, NEW high, NEW to, TareIf(r, pin, high, to) PROVE CourseInv'
  BY <1>5 DEF TareIf, Direction, Heading, moving, course, pins, control
<1> HIDE DEF CourseInv
<1> QED
  BY <1>1, <1>2, <1>3, <1>4, <1>5, Zenon DEF AcceptMessage, MaybeTare

LEMMA HandleCourse == ASSUME TypeInv, CourseInv, Handle PROVE CourseInv'
<1> USE DEF CourseInv, DirPinInv, IncrementInv, EnableInv, DisableInv, ZeroInv, Goto,
            AfterDirPin, AfterIncrement, AfterEnable, AfterMaybeDisable, AtTarget
<1>1. CASE InitPosition
  BY <1>1 DEF InitPosition, course, pins
<1>2. CASE SetParameters
  BY <1>2 DEF SetParameters
<1>3. CASE UpdateRamps
  BY <1>3, UpdateRampsCourse
<1>4. CASE SkipRule
  BY <1>4 DEF SkipRule, EndTare, Direction, Heading, moving, course, settings, pins
<1>5. CASE Tare
  BY <1>5 DEF Tare, EndTare, settings, pins
<1>6. CASE EndTareRamps
  BY <1>6 DEF EndTareRamps, EndTare, MaybeDisable, Direction, Heading, moving, course, settings
<1> QED
  BY <1>1, <1>2, <1>3, <1>4, <1>5, <1>6 DEF Handle

LEMMA CourseInductive ==
  ASSUME Rezeroes = FALSE PROVE Spec => [](TypeInv /\ CourseInv)
<1>1. Init => TypeInv /\ CourseInv
  BY InitType DEF Init, CourseInv
<1>2. TypeInv /\ CourseInv /\ [Next]_vars => TypeInv' /\ CourseInv'
  <2> SUFFICES ASSUME TypeInv, CourseInv, [Next]_vars PROVE TypeInv' /\ CourseInv'
    OBVIOUS
  <2>1. CASE AcceptMessage
    BY <2>1, AcceptMessageType, AcceptMessageCourse
  <2>2. CASE Handle
    BY <2>2, HandleType, HandleCourse
  <2>3. CASE FastTick
    BY <2>3, FastTickType, FastTickCourse
  <2>4. CASE UNCHANGED vars
    BY <2>4 DEF TypeInv, TypeOK, HandlerInv, CourseInv, DirPinInv, IncrementInv, EnableInv,
                DisableInv, ZeroInv, AtTarget, Direction, Heading,
                vars, moving, course, settings, pins, control
  <2> QED
    BY <2>1, <2>2, <2>3, <2>4 DEF Next
<1> QED
  BY <1>1, <1>2, PTL DEF Spec

(* Between messages a motor that has steps to go is enabled and goes       *)
(* towards its target, wherever interrupts fell into its handlers, as long *)
(* as nobody zeroes a motor that is in use.                                *)
THEOREM HeadsCorrect ==
  ASSUME Rezeroes = FALSE PROVE Spec => []HeadsForTarget
<1>1. CourseInv => HeadsForTarget
  BY DEF CourseInv, DirPinInv, IncrementInv, EnableInv, HeadsForTarget, Heading,
         AfterDirPin, AfterIncrement, AfterEnable, AfterMaybeDisable
<1> QED
  BY <1>1, CourseInductive, PTL

(* Between messages a motor at its target that is to be disabled after     *)
(* moving is disabled, whoever found it there, the interrupt or the handler*)
THEOREM RestsCorrect ==
  ASSUME Rezeroes = FALSE PROVE Spec => []RestsDisabled
<1>1. CourseInv => RestsDisabled
  BY DEF CourseInv, DisableInv, RestsDisabled, AfterMaybeDisable
<1> QED
  BY <1>1, CourseInductive, PTL
-----------------------------------------------------------------------------
(* Where no interrupt falls into a handler, what the handler has computed  *)
(* is still true when it ends: its slowdown step lies ahead, less than     *)
(* half of the way, and the acceleration is not negative.                  *)
AfterSlowdown == {"progress", "stop", "dir", "increment", "enable", "maybe_disable", "tared"}

(* The step at this offset from the target is ahead of the motor. *)
Ahead(offset) ==
  IF Direction THEN current < target + offset ELSE current > target + offset

Settled == acceleration >= 0 /\ (AtTarget \/ ~PastSlowdown)
Braking == AtTarget \/ acceleration = 0 \/ (acceleration < 0 <=> PastSlowdown)

(* A motor without arduino_ was never told to move. *)
RestInv ==
  /\ pc \in {"params", "init"} => initialized
  /\ ~initialized => acceleration = 0

RampInv ==
  build = "pc" =>
    /\ pc \in {"speed", "decel", "sim_speed", "simulate", "slowdown"} => acceleration >= 0
    /\ pc \in {"sim_speed", "simulate"} => local.decel = Abs(target - current) \div 2
    /\ pc = "slowdown" => AtTarget \/ Ahead(local.decel)
    /\ pc \in AfterSlowdown => Settled
    /\ pc \in {"idle", "tare", "init"} => Braking

BrakesInv == RestInv /\ RampInv

(* The offset that the simulation ends with is that of a step ahead of a   *)
(* motor with steps to go.                                                 *)
LEMMA SlowdownAhead ==
  ASSUME TypeInv, BrakesInv, build = "pc", EndSimulation, ~AtTarget
  PROVE Ahead(local.decel)'
<1> DEFINE way == Abs(target - current)
           ended == local.ticks < SimTicks /\ local.speed > Scale
           decel == (IF ended THEN AtMost(local.steps, local.decel) ELSE local.decel) - 1
           offset == IF Direction THEN -decel ELSE decel
<1>1. /\ pc = "simulate" /\ target' = target /\ current' = current
      /\ local' = [NoLocal EXCEPT !.decel = offset]
  BY DEF EndSimulation, Goto, moving, course
<1>2. target \in Int /\ current \in Int /\ local \in SimVars
  BY <1>1 DEF TypeInv, TypeOK, HandlerInv
<1>3. way \in Nat /\ way >= 1 /\ local.decel = way \div 2
  BY <1>1, <1>2 DEF BrakesInv, RampInv, Abs, AtTarget
<1>4. local.decel \in Int /\ local.decel < way
  BY <1>3
<1>5. decel \in Int /\ decel < way
  <2>1. local.steps \in Nat /\ way \in Nat
    BY <1>2, <1>3 DEF SimVars
  <2>2. AtMost(local.steps, local.decel) \in Int /\ AtMost(local.steps, local.decel) < way
    <3> HIDE DEF way
    <3> QED
      BY <1>4, <2>1 DEF AtMost
  <2> HIDE DEF way, ended
  <2> QED
    BY <1>4, <2>1, <2>2
<1>6. local'.decel = offset
  BY <1>1 DEF NoLocal
<1> HIDE DEF decel
<1>7. CASE Direction
  BY <1>1, <1>2, <1>5, <1>6, <1>7 DEF Direction, Ahead, Abs
<1>8. CASE ~Direction
  BY <1>1, <1>2, <1>5, <1>6, <1>8 DEF Direction, Ahead, Abs, AtTarget
<1> QED
  BY <1>7, <1>8

(* A tick turns the acceleration around at the slowdown step, if the motor *)
(* heads for its target.                                                   *)
LEMMA FastTickBrakes ==
  ASSUME TypeInv, CourseInv, BrakesInv, FastTick PROVE BrakesInv'
<1>1. /\ initialized /\ initialized' = initialized /\ pc' = pc /\ build' = build
      /\ ~AtTarget /\ target' = target /\ slowdown' = slowdown /\ local' = local
  BY DEF FastTick, course, settings, control
<1>2. RestInv'
  BY <1>1 DEF RestInv
<1>3. ASSUME build = "pc" PROVE pc = "idle" /\ Braking'
  <2>1. pc = "idle"
    BY <1>3 DEF FastTick
  <2>2. Braking /\ increment = Heading
    BY <1>1, <1>3, <2>1
    DEF BrakesInv, RampInv, CourseInv, IncrementInv, AfterIncrement, AfterEnable,
        AfterMaybeDisable
  <2>3. /\ current \in Int /\ target \in Int /\ slowdown \in Int
        /\ acceleration \in Int /\ increment \in {1, -1}
    BY DEF TypeInv, TypeOK
  <2>4. CASE Accelerate
    BY <1>1, <2>1, <2>2, <2>4 DEF Accelerate, Braking, AtTarget, PastSlowdown, Direction
  <2>5. CASE Step /\ ~AtTarget'
    <3>1. current' = current + increment
      BY <2>5 DEF Step
    <3>2. acceleration' = IF current' = slowdown THEN -acceleration ELSE acceleration
      <4>1. ~(current' = target /\ disable)
        BY <1>1, <2>5 DEF AtTarget
      <4> QED
        BY <2>5, <4>1, Zenon DEF Step
    <3>3. Direction' = Direction
      BY <1>1, <2>5, SameSide
    <3>4. CASE Direction
      <4>1. current' = current + 1
        BY <2>2, <3>1, <3>4 DEF Heading
      <4> QED
        BY <1>1, <2>1, <2>2, <2>3, <3>2, <3>3, <3>4, <4>1 DEF Braking, PastSlowdown
    <3>5. CASE ~Direction
      <4>1. current' = current - 1
        BY <2>2, <2>3, <3>1, <3>5 DEF Heading
      <4> QED
        BY <1>1, <2>1, <2>2, <2>3, <3>2, <3>3, <3>5, <4>1 DEF Braking, PastSlowdown
    <3> QED
      BY <3>4, <3>5
  <2>6. CASE AtTarget'
    BY <2>1, <2>6 DEF Braking
  <2> QED
    BY <2>1, <2>4, <2>5, <2>6 DEF FastTick
<1> QED
  BY <1>1, <1>2, <1>3 DEF BrakesInv, RampInv, AfterSlowdown

LEMMA UpdateRampsBrakes ==
  ASSUME TypeInv, BrakesInv, UpdateRamps PROVE BrakesInv'
<1> USE DEF RestInv, RampInv, Goto, AfterSlowdown, Settled, Braking
<1> USE DEF BrakesInv
<1>1. CASE ResetAcceleration
  BY <1>1 DEF ResetAcceleration, Abs, settings, course, TypeInv, TypeOK
<1>2. CASE ResetSpeed
  BY <1>2 DEF ResetSpeed, settings, course
<1>3. CASE HalveWay
  <2>1. local'.decel = Abs(target - current) \div 2
    BY <1>3 DEF HalveWay, NoLocal
  <2> QED
    BY <1>3, <2>1 DEF HalveWay, moving, course, settings, Abs
<1>4. CASE StartSimulation
  <2>1. local'.decel = local.decel
    BY <1>4 DEF StartSimulation, TypeInv, HandlerInv, SimVars
  <2> QED
    BY <1>4, <2>1 DEF StartSimulation, moving, course, settings, Abs
<1>5. CASE SimulateTick
  <2>1. local'.decel = local.decel
    BY <1>5 DEF SimulateTick, TypeInv, HandlerInv, SimVars
  <2> QED
    BY <1>5, <2>1 DEF SimulateTick, moving, course, settings, Abs
<1>6. CASE EndSimulation
  <2>1. /\ pc = "simulate" /\ pc' = "slowdown" /\ build' = build
        /\ initialized' = initialized /\ acceleration' = acceleration
        /\ AtTarget' = AtTarget
    BY <1>6 DEF EndSimulation, moving, course, settings, AtTarget
  <2>2. build = "pc" => (AtTarget \/ Ahead(local.decel))'
    BY <1>6, <2>1, SlowdownAhead
  <2> QED
    BY <2>1, <2>2
<1>7. CASE SetSlowdown
  <2>1. /\ target \in Int /\ current \in Int /\ local.decel \in Int
    BY <1>7 DEF SetSlowdown, TypeInv, TypeOK, HandlerInv, SimVars
  <2>2. Ahead(local.decel) => ~PastSlowdown'
    BY <1>7, <2>1 DEF SetSlowdown, moving, Ahead, PastSlowdown, Direction
  <2> QED
    BY <1>7, <2>2 DEF SetSlowdown, moving, settings, AtTarget
<1>8. CASE ResetProgress
  BY <1>8 DEF ResetProgress, settings, course, AtTarget, PastSlowdown, Direction
<1>9. CASE StopAtTarget
  BY <1>9 DEF StopAtTarget, settings, course, AtTarget, PastSlowdown, Direction
<1>10. CASE SetDirPin
  BY <1>10 DEF SetDirPin, moving, settings, course, AtTarget, PastSlowdown, Direction
<1>11. CASE SetIncrement
  BY <1>11 DEF SetIncrement, moving, settings, AtTarget, PastSlowdown, Direction
<1>12. CASE EnableMotor
  BY <1>12 DEF EnableMotor, moving, settings, course, AtTarget, PastSlowdown, Direction
<1>13. CASE MaybeDisableMotor
  <2>1. acceleration \in Int
    BY DEF TypeInv, TypeOK
  <2>2. Settled => Braking
    BY <2>1
  <2> QED
    BY <1>13, <2>2
    DEF MaybeDisableMotor, moving, settings, course, AtTarget, PastSlowdown, Direction
<1> QED
  BY <1>1, <1>2, <1>3, <1>4, <1>5, <1>6, <1>7, <1>8, <1>9, <1>10, <1>11, <1>12, <1>13
  DEF UpdateRamps

LEMMA AcceptMessageBrakes ==
  ASSUME Rezeroes = FALSE, TypeInv, BrakesInv, AcceptMessage PROVE BrakesInv'
<1> USE DEF BrakesInv, RestInv, RampInv, Goto, AfterSlowdown, Settled, Braking,
            AtTarget, PastSlowdown, Direction
<1>1. CASE InitMotor
  BY <1>1 DEF InitMotor, moving, course
<1>2. ASSUME NEW l \in Limits, NEW zero \in BOOLEAN, Config(l, zero) PROVE BrakesInv'
  <2>1. current' = current
    BY <1>2 DEF Config, MayZero
  <2> QED
    BY <1>2, <2>1 DEF Config, course, pins, control
<1>3. ASSUME NEW move, Update(move) PROVE BrakesInv'
  BY <1>3 DEF Update, settings, moving
<1>4. ASSUME NEW positions, StartTare(positions) PROVE BrakesInv'
  BY <1>4 DEF StartTare, moving, course, settings, pins
<1>5. ASSUME NEW r, NEW pin, NEW high, NEW to, TareIf(r, pin, high, to) PROVE BrakesInv'
  BY <1>5 DEF TareIf, moving, course, pins, control
<1> HIDE DEF BrakesInv
<1> QED
  BY <1>1, <1>2, <1>3, <1>4, <1>5, Zenon DEF AcceptMessage, MaybeTare

LEMMA HandleBrakes ==
  ASSUME TypeInv, CourseInv, BrakesInv, Handle PROVE BrakesInv'
<1> USE DEF BrakesInv, RestInv, RampInv, Goto, AfterSlowdown, Settled, Braking,
            AtTarget, PastSlowdown, Direction
<1>1. CASE InitPosition
  <2>1. pc = "init" /\ initialized
    BY <1>1 DEF InitPosition
  <2>2. current' = current
    BY <1>1, <2>1 DEF InitPosition, CourseInv, ZeroInv
  <2> QED
    BY <1>1, <2>2 DEF InitPosition, course, pins
<1>2. CASE SetParameters
  BY <1>2 DEF SetParameters, settings
<1>3. CASE UpdateRamps
  BY <1>3, UpdateRampsBrakes
<1>4. CASE SkipRule
  BY <1>4 DEF SkipRule, EndTare, moving, course, settings, pins
<1>5. CASE Tare
  BY <1>5 DEF Tare, EndTare, settings, course
<1>6. CASE EndTareRamps
  <2>1. acceleration \in Int
    BY DEF TypeInv, TypeOK
  <2>2. Settled => Braking
    BY <2>1
  <2> QED
    BY <1>6, <2>2 DEF EndTareRamps, EndTare, moving, course, settings
<1> QED
  BY <1>1, <1>2, <1>3, <1>4, <1>5, <1>6 DEF Handle

LEMMA BrakesInductive ==
  ASSUME Rezeroes = FALSE PROVE Spec => [](TypeInv /\ CourseInv /\ BrakesInv)
<1>1. Init => BrakesInv
  BY DEF Init, BrakesInv, RestInv, RampInv, Braking, AtTarget, AfterSlowdown
<1>2. TypeInv /\ CourseInv /\ BrakesInv /\ [Next]_vars => BrakesInv'
  <2> SUFFICES ASSUME TypeInv, CourseInv, BrakesInv, [Next]_vars PROVE BrakesInv'
    OBVIOUS
  <2>1. CASE AcceptMessage
    BY <2>1, AcceptMessageBrakes
  <2>2. CASE Handle
    BY <2>2, HandleBrakes
  <2>3. CASE FastTick
    BY <2>3, FastTickBrakes
  <2>4. CASE UNCHANGED vars
    BY <2>4 DEF BrakesInv, RestInv, RampInv, AfterSlowdown, Settled, Braking, AtTarget,
                PastSlowdown, Ahead, Direction, vars, moving, course, settings, pins, control
  <2> QED
    BY <2>1, <2>2, <2>3, <2>4 DEF Next
<1> QED
  BY <1>1, <1>2, CourseInductive, PTL DEF Spec

(* Where no interrupt falls into a handler, a motor with steps to go       *)
(* brakes if and only if it has passed its slowdown step (cc/motor.cc:142),*)
(* whatever it was told in the middle of a move, as long as nobody zeroes  *)
(* a motor that is in use.                                                 *)
THEOREM BrakesCorrect ==
  ASSUME Rezeroes = FALSE PROVE Spec => []BrakesLast
<1>1. BrakesInv => BrakesLast
  BY DEF BrakesInv, RampInv, Braking, BrakesLast
<1> QED
  BY <1>1, BrakesInductive, PTL
-----------------------------------------------------------------------------
(* The target of a move is put between the limits, if they are in order.   *)
LEMMA UpdateLimits ==
  ASSUME TypeInv, Inside(target), NEW move \in Moves, Update(move) PROVE Inside(target)'
<1>1. move.steps \in Int /\ target \in Int /\ limits.min \in Int /\ limits.max \in Int
  BY MotorAssumption DEF TypeInv, TypeOK
<1>2. limits' = limits /\ target' = AtLeast(limits.min, AtMost(limits.max, move.steps))
  BY DEF Update, settings
<1>3. limits.min <= limits.max
  BY <1>1 DEF Inside
<1>4. target' \in limits.min .. limits.max
  BY <1>1, <1>2, <1>3 DEF AtLeast, AtMost
<1> QED
  BY <1>2, <1>4 DEF Inside

(* Only a message that sets limits can leave the target outside of them.   *)
LEMMA TargetKept ==
  ASSUME TypeInv, Inside(target), limits' = limits, [Next]_vars
  PROVE  Inside(target)'
<1>1. ASSUME target' = target PROVE Inside(target)'
  BY <1>1 DEF Inside
<1>2. CASE AcceptMessage
  <2>1. CASE InitMotor
    BY <1>1, <2>1 DEF InitMotor, course
  <2>2. ASSUME NEW l \in Limits, NEW zero \in BOOLEAN, Config(l, zero) PROVE Inside(target)'
    BY <1>1, <2>2 DEF Config, course
  <2>3. ASSUME NEW move \in Moves, Update(move) PROVE Inside(target)'
    BY <2>3, UpdateLimits
  <2>4. ASSUME NEW positions, StartTare(positions) PROVE Inside(target)'
    BY <1>1, <2>4 DEF StartTare, course
  <2>5. ASSUME NEW r, NEW pin, NEW high, NEW to, TareIf(r, pin, high, to)
        PROVE  Inside(target)'
    BY <1>1, <2>5 DEF TareIf, course
  <2> QED
    BY <1>2, <2>1, <2>2, <2>3, <2>4, <2>5, Zenon DEF AcceptMessage, MaybeTare
<1>3. CASE Handle
  <2>1. target' = target
    BY <1>3 DEF Handle, InitPosition, SetParameters, UpdateRamps, ResetAcceleration,
                ResetSpeed, HalveWay, StartSimulation, SimulateTick, EndSimulation,
                SetSlowdown, ResetProgress, StopAtTarget, SetDirPin, SetIncrement,
                EnableMotor, MaybeDisableMotor, SkipRule, Tare, EndTareRamps, course
  <2> QED
    BY <1>1, <2>1
<1>4. CASE FastTick
  BY <1>1, <1>4 DEF FastTick, course
<1>5. CASE UNCHANGED vars
  BY <1>1, <1>5 DEF vars, course
<1> QED
  BY <1>2, <1>3, <1>4, <1>5 DEF Next

(* A motor that heads for its target does not pass it, so it stays between *)
(* where it is and where it goes.                                          *)
LEMMA TickInside ==
  ASSUME TypeInv, CourseInv, pc = "idle", FastTick, Inside(current), Inside(target)
  PROVE  Inside(current')
<1>1. /\ initialized /\ ~AtTarget
      /\ limits' = limits /\ (current' = current \/ current' = current + increment)
  BY DEF FastTick, Accelerate, Step, settings
<1>2. increment = Heading
  BY <1>1 DEF CourseInv, IncrementInv, AfterIncrement, AfterEnable, AfterMaybeDisable
<1>3. current \in Int /\ target \in Int /\ limits.min \in Int /\ limits.max \in Int
  BY DEF TypeInv, TypeOK
<1> QED
  BY <1>1, <1>2, <1>3 DEF Inside, Heading, Direction, AtTarget

(* Between handlers a motor stays inside its limits while its target is    *)
(* inside, with or without an interrupt, and no message but one that sets  *)
(* limits takes the target out (motor.cc:101): for all limits, narrowed or *)
(* widened at any time, and every sequence of messages of a client that    *)
(* zeroes no motor in use.                                                 *)
THEOREM LimitsObserved ==
  ASSUME Rezeroes = FALSE PROVE Spec => ObservesMaxPositions
<1> DEFINE Stays == (pc = "idle" /\ FastTick /\ Inside(current) /\ Inside(target))
                      => Inside(current')
           Keeps == (Inside(target) /\ ~Inside(target)') => limits' # limits
<1>1. TypeInv /\ CourseInv /\ [Next]_vars => [Stays /\ Keeps]_vars
  BY TargetKept, TickInside
<1> QED
  BY <1>1, CourseInductive, PTL DEF Spec, ObservesMaxPositions
=============================================================================
