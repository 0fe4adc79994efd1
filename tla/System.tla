------------------------------- MODULE System -------------------------------
(***************************************************************************)
(* From a Python program to the motors and pins, and back:                 *)
(*                                                                         *)
(*   program -- toCc --> bridge == ReliableLink == serial, bank, read      *)
(*           <- fromCc -                                                   *)
(*                                                                         *)
(* The files are those of FileProtocol, the link is what FairLink shows    *)
(* Link to implement, the modules are those of Board.  A step is one turn  *)
(* of a module, one message at the bridge, or one of the program's         *)
(* threads.  A message is written to a file in one piece, as both writers  *)
(* flush it at its end.                                                    *)
(***************************************************************************)
EXTENDS Board, FileProtocol

CONSTANTS
  PC, BOARD,    \* the ends of the link
  BufferSize,   \* messages a writer of the link can hold
  Commands,     \* the messages the program sends
  InputPins,    \* the pins whose level changes
  MaxSends,     \* bound: messages the program sends
  MaxChanges    \* bound: changes of a pin

ASSUME SystemAssumption ==
  /\ PC # BOARD
  /\ BufferSize \in Nat
  /\ Commands \subseteq Seq(Int)

VARIABLES
  toCc, fromCc, \* what is in the files and has not been read
  bridge,       \* "tick": Tick and Receive are next; "drain": reading toCc
  open, accepted, delivered, held,      \* see ReliableLink
  wire,         \* the messages an end has accepted and the other not received
  board, turn, pins, view,              \* see RemoteBoard
  sent, asked,  \* ghosts: messages, and requests for a report, sent so far
  dropped,      \* ghost: messages from the program that were lost
  unanswered,   \* ghost: requests whose answer was lost, or which were
  stale,        \* ghost: the last report of the pins was lost
  changes       \* ghost: changes of a pin so far

link == <<open, accepted, delivered, held>>
ghosts == <<sent, asked, dropped, unanswered, stale, changes>>
svars == <<toCc, fromCc, bridge, link, wire, board, turn, pins, view, ghosts>>

Devices == {PC, BOARD}

Link == INSTANCE ReliableLink WITH Devices <- Devices

Remote ==
  INSTANCE RemoteBoard WITH commands <- wire[PC] \o Messages(toCc),
                            reports <- Messages(fromCc) \o wire[BOARD]

Asks(m) == m # <<>> /\ Type(m) = MOTOR_REQUEST_REPORT
Count(condition) == IF condition THEN 1 ELSE 0

Init ==
  /\ toCc = <<>> /\ fromCc = <<>>
  /\ bridge = "tick"
  /\ Link!RInit
  /\ wire = [d \in Devices |-> <<>>]
  /\ board = NewBoard /\ turn = "serial" /\ pins = {} /\ view = Remote!NoView
  /\ sent = 0 /\ asked = 0 /\ dropped = 0 /\ unanswered = 0 /\ changes = 0
  /\ stale = FALSE

-----------------------------------------------------------------------------
(* The link: Transmit takes the message if there is room for it. *)
Transmitted(d, m) ==
  IF Link!HasRoom(d)
    THEN Link!Accept(d) /\ wire' = [wire EXCEPT ![d] = Append(@, m)]
    ELSE UNCHANGED <<link, wire>>

Received(d, from) ==
  /\ Link!Deliver(d)
  /\ wire' = [wire EXCEPT ![from] = Tail(@)]

(* What an RxTxPair does in its Tick for the link itself. *)
LinkTick(d) ==
  /\ IF d = PC THEN bridge = "tick" ELSE turn = "serial"
  /\ Link!Open(d) \/ Link!Acknowledge(d)
  /\ UNCHANGED <<toCc, fromCc, bridge, wire, board, turn, pins, view, ghosts>>

-----------------------------------------------------------------------------
(* The program: its main thread sends, the connection's thread reads. *)
Send ==
  /\ sent < MaxSends
  /\ \E m \in Commands :
       /\ toCc' = toCc \o Line(m)
       /\ asked' = asked + Count(Asks(m))
  /\ sent' = sent + 1
  /\ UNCHANGED <<fromCc, bridge, link, wire, board, turn, pins, view,
                 dropped, unanswered, stale, changes>>

See ==
  /\ Messages(fromCc) # <<>>
  /\ view' = Remote!Seen(view, Messages(fromCc)[1])
  /\ fromCc' = WithoutFirst(fromCc)
  /\ UNCHANGED <<toCc, bridge, link, wire, board, turn, pins, ghosts>>

-----------------------------------------------------------------------------
(* The bridge, once it is initialized: Tick and Receive, then the file. *)
BridgeReceive ==
  /\ bridge = "tick"
  /\ open[PC]
  /\ Received(PC, BOARD)
  /\ fromCc' = fromCc \o Line(wire[BOARD][1])
  /\ bridge' = "drain"
  /\ UNCHANGED <<toCc, board, turn, pins, view, ghosts>>

MutBridgeReceiveNothing ==
  /\ bridge = "tick"
  /\ bridge' = "drain"
  /\ UNCHANGED <<toCc, fromCc, link, wire, board, turn, pins, view, ghosts>>
BridgeReceiveNothing ==
  /\ bridge = "tick"
  /\ open[PC]
  /\ bridge' = "drain"
  /\ UNCHANGED <<toCc, fromCc, link, wire, board, turn, pins, view, ghosts>>

(* Transmit's result is not looked at; an empty line is not a message. *)
BridgeTransmit ==
  /\ bridge = "drain"
  /\ Messages(toCc) # <<>>
  /\ LET m == Messages(toCc)[1]
         lost == m # <<>> /\ ~Link!HasRoom(PC)
     IN /\ IF m = <<>> THEN UNCHANGED <<link, wire>> ELSE Transmitted(PC, m)
        /\ dropped' = dropped + Count(lost)
        /\ unanswered' = unanswered + Count(lost /\ Asks(m))
  /\ toCc' = WithoutFirst(toCc)
  /\ UNCHANGED <<fromCc, bridge, board, turn, pins, view, sent, asked, stale, changes>>

BridgeEndOfFile ==
  /\ bridge = "drain"
  /\ toCc = <<>>
  /\ bridge' = "tick"
  /\ UNCHANGED <<toCc, fromCc, link, wire, board, turn, pins, view, ghosts>>

(* The loop of main. *)
Bridge == BridgeReceive \/ BridgeReceiveNothing \/ BridgeTransmit \/ BridgeEndOfFile

-----------------------------------------------------------------------------
(* The board: a round of HandleLoopMessages is three turns. *)
SerialReceive ==
  /\ turn = "serial"
  /\ Received(BOARD, PC)
  /\ board' = Dispatch(board, wire[PC][1])
  /\ turn' = "bank"
  /\ UNCHANGED <<toCc, fromCc, bridge, pins, view, ghosts>>

SerialReceiveNothing ==
  /\ turn = "serial"
  /\ turn' = "bank"
  /\ UNCHANGED <<toCc, fromCc, bridge, link, wire, board, pins, view, ghosts>>

(* SerialModule::AcceptMessage of a module's message, if it has one. *)
SerialAccepts(m) ==
  IF m # <<>> /\ ForPC(m) THEN Transmitted(BOARD, m) ELSE UNCHANGED <<link, wire>>

BankTick ==
  /\ turn = "bank"
  /\ LET report == BankReport(board)
     IN /\ SerialAccepts(report)
        /\ unanswered' = unanswered
             + Count(board.request /\ (report = <<>> \/ ~Link!HasRoom(BOARD)))
  /\ board' = BankTicked(board)
  /\ turn' = "read"
  /\ UNCHANGED <<toCc, fromCc, bridge, pins, view, sent, asked, dropped, stale, changes>>

ReadTick ==
  /\ turn = "read"
  /\ LET report == ReadReport(board, pins)
     IN /\ SerialAccepts(report)
        /\ stale' = IF report = <<>> THEN stale ELSE ~Link!HasRoom(BOARD)
  /\ board' = ReadTicked(board, pins)
  /\ turn' = "serial"
  /\ UNCHANGED <<toCc, fromCc, bridge, pins, view, sent, asked, dropped, unanswered, changes>>

Round == SerialReceive \/ SerialReceiveNothing \/ BankTick \/ ReadTick

PinChange ==
  /\ changes < MaxChanges
  /\ \E p \in InputPins : pins' = SymDiff(pins, {p})
  /\ changes' = changes + 1
  /\ UNCHANGED <<toCc, fromCc, bridge, link, wire, board, turn, view,
                 sent, asked, dropped, unanswered, stale>>

-----------------------------------------------------------------------------
Next ==
  \/ \E d \in Devices : LinkTick(d)
  \/ Send \/ See \/ Bridge \/ Round \/ PinChange

Spec == Init /\ [][Next]_svars
=============================================================================
