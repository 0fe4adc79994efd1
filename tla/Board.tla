------------------------------- MODULE Board -------------------------------
(***************************************************************************)
(* The modules on the Arduino: ModuleDispatcher hands messages around      *)
(* between the serial module, the motor bank and the read module           *)
(* (cc/module_dispatcher.cc, cc/serial_module.cc, cc/motor_bank_module.cc, *)
(* cc/read_module.cc).  A board is a record                                *)
(*                                                                         *)
(*   positions  of the motors of the bank, by address, counted from 1      *)
(*   rules      tare_rules_ of each motor, counted from 1                  *)
(*   request    request_report_ of the bank                                *)
(*   watched    pins_to_read_bitmap_ of the read module, as a set of pins  *)
(*   states     pin_states_: the watched pins that were high when polled   *)
(*   force      force_send_message_                                        *)
(*                                                                         *)
(* A message is its type followed by the fields of its proto, in order; of *)
(* the fields about the course of a motor only the positions are there.    *)
(* What a move does to a motor is the subject of module Motor; here a      *)
(* motor is a position, which a message sets at once.                      *)
(***************************************************************************)
EXTENDS Integers, Sequences, FiniteSets, FiniteSetsExt

CONSTANTS
  NumMotors,    \* NUM_MOTORS (6)
  NumRules,     \* the length of tare_rules_ (3)
  NumPins,      \* the read module polls pins 1 .. NumPins (63)
  ReportBuffer  \* the length of the bank's report_buffer_ (160)

ASSUME BoardAssumption == NumMotors \in Nat

MOTOR_INIT == 16
MOTOR_CONFIG == 17
MOTOR_MOVE == 18
MOTOR_TARE == 19
MOTOR_REQUEST_REPORT == 20
MOTOR_TARE_IF == 21
READ_REQUEST == 32
MOTOR_REPORT == 149
READ_REPORT == 150

Type(m) == m[1]

(* SERIAL_TYPE_PREFIX: what the serial module sends to the PC. *)
MutForPC(m) == Type(m) > MOTOR_REPORT
ForPC(m) == Type(m) >= 128

NewBoard ==
  [positions |-> [a \in 1 .. NumMotors |-> 0],
   rules |-> [a \in 1 .. NumMotors |-> [r \in 1 .. NumRules |-> <<>>]],
   request |-> FALSE, watched |-> {}, states |-> {}, force |-> FALSE]

-----------------------------------------------------------------------------
(* Bitmaps.  The read module counts pins from 1, so that bit 0 is pin 1. *)
HasBit(bitmap, bit) == (bitmap \div 2^bit) % 2 = 1

Pins(bitmap) == {p \in 1 .. NumPins : HasBit(bitmap, p - 1)}

Bitmap(pins) == FoldSet(LAMBDA p, sum : sum + 2^(p - 1), 0, pins)

-----------------------------------------------------------------------------
(* Motor::MaybeTare, for all motors: a rule <<steps, bit, state>> that     *)
(* matches sets the position, the last of several wins.                    *)
Matching(rules, bitmap) ==
  {r \in DOMAIN rules : rules[r] # <<>> /\ HasBit(bitmap, rules[r][2]) = rules[r][3]}

MaybeTare(b, bitmap) ==
  [b EXCEPT !.positions =
     [a \in DOMAIN b.positions |->
        LET matching == Matching(b.rules[a], bitmap)
        IN IF matching = {} THEN b.positions[a] ELSE b.rules[a][Max(matching)][1]]]

(* MotorBankModule::AcceptMessage.  TareIf: address, rule, steps, pin, state *)
BankAccepts(b, m) ==
  CASE Type(m) = MOTOR_INIT -> [b EXCEPT !.positions[m[2] + 1] = 0]
    [] Type(m) = MOTOR_CONFIG ->
         [b EXCEPT !.positions[m[2] + 1] = IF m[3] = 1 THEN 0 ELSE @]
    [] Type(m) = MOTOR_MOVE -> [b EXCEPT !.positions = [a \in DOMAIN @ |-> m[a + 1]]]
    [] Type(m) = MOTOR_TARE -> [b EXCEPT !.positions[m[2] + 1] = m[3]]
    [] Type(m) = MOTOR_TARE_IF ->
         [b EXCEPT !.rules[m[2] + 1][m[3] + 1] = <<m[4], m[5], m[6] = 1>>]
    [] Type(m) = READ_REPORT -> MaybeTare(b, m[2])
    [] Type(m) = MOTOR_REQUEST_REPORT -> [b EXCEPT !.request = TRUE]
    [] OTHER -> b

(* ReadModule::AcceptMessage: pins to read, pins to read with a pullup. *)
ReadAccepts(b, m) ==
  IF Type(m) = READ_REQUEST
    THEN [b EXCEPT !.watched = @ \cup Pins(m[2]) \cup Pins(m[3]), !.force = TRUE]
    ELSE b

-----------------------------------------------------------------------------
(* A module's Tick and what HandleLoopMessages does with its message: the  *)
(* board after it.  Other modules than the sender see the message; what    *)
(* the serial module does with it is up to the link.                       *)
Dispatch(b, m) == ReadAccepts(BankAccepts(b, m), m)

(* Bytes of a serialized report: a negative position takes ten, others one *)
(* for seven bits; with it go a tag, three floats and a tag and a length.  *)
VarintSize(n) == IF n < 0 THEN 10 ELSE 1 + Cardinality({k \in 1 .. 4 : n >= 2^(7 * k)})

ReportSize(positions) ==
  FoldSet(LAMBDA a, sum : sum + 18 + VarintSize(positions[a]), 0, DOMAIN positions)

(* MotorBankModule::Tick *)
BankReport(b) ==
  IF b.request /\ ReportSize(b.positions) <= ReportBuffer
    THEN <<MOTOR_REPORT>> \o b.positions ELSE <<>>
MutBankTicked(b) == b
BankTicked(b) == [b EXCEPT !.request = FALSE]

(* ReadModule::Tick, when the pins in high are high. *)
MutPolled(b, high) == high
Polled(b, high) == b.watched \cap high
MutReadReport(b, high) ==
  IF Polled(b, high) # b.states
    THEN <<READ_REPORT, Bitmap(Polled(b, high))>> ELSE <<>>
ReadReport(b, high) ==
  IF Polled(b, high) # b.states \/ b.force
    THEN <<READ_REPORT, Bitmap(Polled(b, high))>> ELSE <<>>
ReadTicked(b, high) ==
  LET ticked == [b EXCEPT !.states = Polled(b, high), !.force = FALSE]
  IN IF ReadReport(b, high) = <<>> THEN ticked
     ELSE BankAccepts(ticked, ReadReport(b, high))
=============================================================================
