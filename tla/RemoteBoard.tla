---------------------------- MODULE RemoteBoard ----------------------------
(***************************************************************************)
(* What a Python program has of its board: commands arrive one by one, in  *)
(* the order they were sent and as they were sent, or not at all; reports  *)
(* come back the same way.  The board takes the turns of its modules.      *)
(* Which modules, and in which order, a sketch decides that is not in the  *)
(* sources: tests/motor_serial_integration.cc adds serial module and motor *)
(* bank, by a name the dispatcher does not have; the read module comes     *)
(* after them here, since the bank takes its reports.                      *)
(* Files, bridge and link do not show.                                     *)
(***************************************************************************)
EXTENDS Board, SequencesExt

CONSTANTS
  Commands,     \* the messages a program may send
  InputPins     \* the pins whose level may change

VARIABLES
  board,        \* the modules, see Board
  turn,         \* the module whose Tick is next
  pins,         \* the pins that are high
  commands,     \* sent and not received by the board
  reports,      \* sent and not received by the program
  view          \* what the callbacks of the program have seen

bvars == <<board, turn, pins, commands, reports, view>>

(* The last report of the pins, the number of reports of the motors. *)
NoView == [reading |-> <<>>, answers |-> 0]

Seen(v, m) ==
  CASE Type(m) = READ_REPORT -> [v EXCEPT !.reading = m]
    [] Type(m) = MOTOR_REPORT -> [v EXCEPT !.answers = @ + 1]
    [] OTHER -> v

BInit ==
  /\ board = NewBoard
  /\ turn = "serial"
  /\ pins = {}
  /\ commands = <<>>
  /\ reports = <<>>
  /\ view = NoView

-----------------------------------------------------------------------------
Send ==
  /\ UNCHANGED <<board, turn, pins, view, reports>>
  /\ commands' \in {Append(commands, m) : m \in Commands}

LoseCommand ==
  /\ UNCHANGED <<board, turn, pins, view, reports>>
  /\ commands' \in {RemoveAt(commands, i) : i \in DOMAIN commands}

(* The serial module's turn: a command, or none has arrived yet. *)
SerialTurn ==
  /\ turn = "serial"
  /\ turn' = "bank"
  /\ \/ /\ commands # <<>>
        /\ board' = Dispatch(board, Head(commands))
        /\ commands' = Tail(commands)
     \/ UNCHANGED <<board, commands>>
  /\ UNCHANGED <<pins, reports, view>>

(* A report is sent or lost. *)
Report(m) == reports' = reports \/ (m # <<>> /\ reports' = Append(reports, m))

BankTurn ==
  /\ turn = "bank"
  /\ turn' = "read"
  /\ board' = BankTicked(board)
  /\ Report(BankReport(board))
  /\ UNCHANGED <<pins, commands, view>>

ReadTurn ==
  /\ turn = "read"
  /\ turn' = "serial"
  /\ board' = ReadTicked(board, pins)
  /\ Report(ReadReport(board, pins))
  /\ UNCHANGED <<pins, commands, view>>

PinChange ==
  /\ \E p \in InputPins : pins' = SymDiff(pins, {p})
  /\ UNCHANGED <<board, turn, commands, reports, view>>

See ==
  /\ UNCHANGED <<board, turn, pins, commands>>
  /\ reports # <<>>
  /\ reports' = Tail(reports)
  /\ view' = Seen(view, Head(reports))

BNext ==
  Send \/ LoseCommand \/ SerialTurn \/ BankTurn \/ ReadTurn \/ PinChange \/ See

BSpec == BInit /\ [][BNext]_bvars
=============================================================================
