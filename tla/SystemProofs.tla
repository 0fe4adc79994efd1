---------------------------- MODULE SystemProofs ----------------------------
(***************************************************************************)
(* Proofs that a Python program has a board at the other end of its files, *)
(* its bridge and its link, and that its requests are accounted for.       *)
(***************************************************************************)
EXTENDS SystemProperties, FileProofs, FiniteSetTheorems

Queue == INSTANCE ReliableLinkProofs WITH Devices <- Devices

-----------------------------------------------------------------------------
(* How many of a sequence are in T. *)
Hits(s, T) == Cardinality({i \in DOMAIN s : s[i] \in T})

LEMMA HitsNone == \A T : Hits(<<>>, T) = 0
<1> TAKE T
<1>1. {i \in DOMAIN <<>> : <<>>[i] \in T} = {}
  OBVIOUS
<1> QED
  BY <1>1, FS_EmptySet DEF Hits

LEMMA HitsType ==
  ASSUME NEW S, NEW s \in Seq(S), NEW T
  PROVE  /\ IsFiniteSet({i \in DOMAIN s : s[i] \in T})
         /\ Hits(s, T) \in Nat
<1>1. DOMAIN s = 1 .. Len(s) /\ Len(s) \in Nat
  BY LenProperties
<1>2. IsFiniteSet(1 .. Len(s))
  BY <1>1, FS_Interval
<1>3. IsFiniteSet({i \in DOMAIN s : s[i] \in T})
  BY <1>1, <1>2, FS_Subset
<1> QED
  BY <1>3, FS_CardinalityType DEF Hits

LEMMA HitsAppend ==
  ASSUME NEW S, NEW s \in Seq(S), NEW e \in S, NEW T
  PROVE  /\ Hits(s, T) \in Nat
         /\ e \in T => Hits(Append(s, e), T) = Hits(s, T) + 1
         /\ e \notin T => Hits(Append(s, e), T) = Hits(s, T)
<1> DEFINE n == Len(s)
           some == {i \in DOMAIN s : s[i] \in T}
           more == {i \in DOMAIN Append(s, e) : Append(s, e)[i] \in T}
<1>1. /\ DOMAIN s = 1 .. n /\ n \in Nat
      /\ DOMAIN Append(s, e) = 1 .. n + 1
      /\ \A i \in 1 .. n : Append(s, e)[i] = s[i]
      /\ Append(s, e)[n + 1] = e
  BY LenProperties, AppendProperties
<1>2. IsFiniteSet(some) /\ Cardinality(some) \in Nat /\ n + 1 \notin some
  <2>1. IsFiniteSet(some) /\ Cardinality(some) \in Nat
    BY HitsType DEF Hits
  <2> QED
    BY <1>1, <2>1
<1>0. Hits(s, T) = Cardinality(some) /\ Hits(Append(s, e), T) = Cardinality(more)
  BY DEF Hits
<1>3. CASE e \in T
  <2>1. more = some \cup {n + 1}
    BY <1>1, <1>3
  <2>2. Cardinality(more) = Cardinality(some) + 1
    BY <1>2, <2>1, FS_AddElement
  <2> HIDE DEF some, more
  <2> QED
    BY <1>0, <1>2, <1>3, <2>2
<1>4. CASE e \notin T
  <2>1. more = some
    BY <1>1, <1>4
  <2> HIDE DEF some, more
  <2> QED
    BY <1>0, <1>2, <1>4, <2>1
<1> QED
  BY <1>3, <1>4

LEMMA HitsConcat ==
  ASSUME NEW S, NEW s \in Seq(S), NEW t \in Seq(S), NEW T
  PROVE  Hits(s \o t, T) = Hits(s, T) + Hits(t, T)
<1> DEFINE adds == {u \in Seq(S) : Hits(s \o u, T) = Hits(s, T) + Hits(u, T)}
<1>1. <<>> \in adds
  <2>1. s \o <<>> = s /\ <<>> \in Seq(S) /\ Hits(<<>>, T) = 0 /\ Hits(s, T) \in Nat
    BY ConcatEmptySeq, EmptySeq, HitsNone, HitsType
  <2> QED
    BY <2>1
<1>2. ASSUME NEW u \in Seq(S), NEW e \in S, u \in adds
      PROVE  Append(u, e) \in adds
  <2>1. /\ s \o u \in Seq(S) /\ Append(u, e) \in Seq(S)
        /\ s \o Append(u, e) = Append(s \o u, e)
    BY ConcatProperties, AppendProperties, ConcatAppend
  <2>2. Hits(s \o u, T) = Hits(s, T) + Hits(u, T)
    BY <1>2
  <2>3. Hits(s, T) \in Nat /\ Hits(u, T) \in Nat /\ Hits(s \o u, T) \in Nat
    BY <2>1, HitsType
  <2>4. Hits(Append(s \o u, e), T) = Hits(s, T) + Hits(Append(u, e), T)
    <3>1. /\ e \in T => Hits(Append(u, e), T) = Hits(u, T) + 1
          /\ e \notin T => Hits(Append(u, e), T) = Hits(u, T)
      BY HitsAppend
    <3>2. /\ e \in T => Hits(Append(s \o u, e), T) = Hits(s \o u, T) + 1
          /\ e \notin T => Hits(Append(s \o u, e), T) = Hits(s \o u, T)
      BY <2>1, HitsAppend
    <3> QED
      BY <2>2, <2>3, <3>1, <3>2
  <2> QED
    BY <2>1, <2>4
<1> HIDE DEF adds
<1>3. Seq(S) \subseteq adds
  BY <1>1, <1>2, SequenceInduction
<1> QED
  BY <1>3 DEF adds

LEMMA HitsTail ==
  ASSUME NEW S, NEW s \in Seq(S), s # <<>>, NEW T
  PROVE  /\ Hits(Tail(s), T) \in Nat
         /\ s[1] \in T => Hits(s, T) = Hits(Tail(s), T) + 1
         /\ s[1] \notin T => Hits(s, T) = Hits(Tail(s), T)
<1> DEFINE one == <<s[1]>>
<1>1. one \in Seq(S) /\ Tail(s) \in Seq(S) /\ s[1] \in S /\ <<>> \in Seq(S)
  BY HeadTailProperties, EmptySeq
<1>2. s = one \o Tail(s)
  OBVIOUS
<1>3. one = Append(<<>>, s[1])
  OBVIOUS
<1>4. /\ s[1] \in T => Hits(one, T) = 1
      /\ s[1] \notin T => Hits(one, T) = 0
  <2> DEFINE e == s[1]
             none == <<>>
  <2>1. none \in Seq(S) /\ e \in S /\ one = Append(none, e) /\ Hits(none, T) = 0
    BY <1>1, <1>3, HitsNone
  <2> HIDE DEF one, e, none
  <2>2. /\ e \in T => Hits(Append(none, e), T) = Hits(none, T) + 1
        /\ e \notin T => Hits(Append(none, e), T) = Hits(none, T)
    BY <2>1, HitsAppend
  <2>3. /\ e \in T => Hits(one, T) = 1
        /\ e \notin T => Hits(one, T) = 0
    BY <2>1, <2>2
  <2> QED
    BY <2>3 DEF e
<1>5. /\ Hits(one \o Tail(s), T) = Hits(one, T) + Hits(Tail(s), T)
      /\ Hits(Tail(s), T) \in Nat
  BY <1>1, HitsConcat, HitsType
<1> DEFINE rest == Tail(s)
<1>6. Hits(s, T) = Hits(one, T) + Hits(rest, T)
  BY <1>2, <1>5
<1>7. Hits(rest, T) \in Nat
  BY <1>5
<1> HIDE DEF one, rest
<1>8. /\ s[1] \in T => Hits(s, T) = Hits(rest, T) + 1
      /\ s[1] \notin T => Hits(s, T) = Hits(rest, T)
  BY <1>4, <1>6, <1>7
<1> QED
  BY <1>7, <1>8 DEF rest

-----------------------------------------------------------------------------
(* The inductive invariant.  S is what messages consist of, M the          *)
(* messages, Q those that ask for a report, A the reports that answer, W   *)
(* the reports that are well formed.                                       *)
WellFormed(m) == IF Type(m) = MOTOR_REPORT THEN Len(m) = 1 + NumMotors ELSE Len(m) = 2

Alphabet(S, M, Q, A, W) ==
  /\ Int \subseteq S
  /\ M = Seq(S)
  /\ Q = {m \in M : Asks(m)}
  /\ A = {m \in M : Type(m) = MOTOR_REPORT}
  /\ W = {m \in M : WellFormed(m)}

Boards(P, R) ==
  [positions : P, rules : R, request : BOOLEAN, watched : SUBSET (1 .. NumPins),
   states : SUBSET (1 .. NumPins), force : BOOLEAN]

Addresses == 1 .. NumMotors

Views(M) == [reading : M, answers : Nat]

(* Between steps the files end with a line. *)
Files(S, M, W) ==
  /\ toCc \in Seq(S) /\ Whole(toCc) /\ Messages(toCc) \in Seq(M)
  /\ fromCc \in Seq(S) /\ Whole(fromCc) /\ Messages(fromCc) \in Seq(W)

(* An empty line is not a message for the link. *)
Wires(M, W) ==
  /\ wire = [d \in Devices |-> wire[d]]
  /\ wire[PC] \in Seq(M \ {<<>>}) /\ wire[BOARD] \in Seq(W)
  /\ Len(wire[PC]) = accepted[PC] - delivered[BOARD]
  /\ Len(wire[BOARD]) = accepted[BOARD] - delivered[PC]

(* A request is answered in the bank's turn after it came, or lost. *)
Modules(S) ==
  /\ \E P, R : board \in Boards(P, R)
  /\ board.positions \in [Addresses -> S]
  /\ board.states \subseteq board.watched
  /\ board.request => turn = "bank"

Turns ==
  /\ bridge \in {"tick", "drain"}
  /\ bridge = "drain" => open[PC]
  /\ turn \in {"serial", "bank", "read"}

Waiting(Q) == Hits(Messages(toCc), Q) + Hits(wire[PC], Q)
Taken == Count(board.request)
Coming(A) == Hits(wire[BOARD], A) + Hits(Messages(fromCc), A)

Ledger(Q, A) ==
  /\ asked \in Nat /\ unanswered \in Nat
  /\ asked = Waiting(Q) + Taken + Coming(A) + view.answers + unanswered

(* Empty lines are not passed on, nor counted as lost. *)
PassedOn ==
  /\ sent \in Nat /\ dropped \in Nat
  /\ accepted[PC] + dropped + Len(Messages(toCc)) <= sent
  /\ BurstIsCarried

Carries(S, M, Q, A, W) ==
  /\ Alphabet(S, M, Q, A, W)
  /\ Turns
  /\ Queue!QueueInv
  /\ Files(S, M, W)
  /\ Wires(M, W)
  /\ Modules(S)
  /\ view \in Views(M)
  /\ Ledger(Q, A)
  /\ PassedOn

SystemInv == \E S, M, Q, A, W : Carries(S, M, Q, A, W)

-----------------------------------------------------------------------------
(* The link. *)

LEMMA Ends ==
  /\ Devices = {PC, BOARD} /\ PC # BOARD
  /\ Link!Other(PC) = BOARD /\ Link!Other(BOARD) = PC
  /\ Queue!Other(PC) = BOARD /\ Queue!Other(BOARD) = PC
  /\ Queue!TwoDevices
  /\ BufferSize \in Nat
<1>1. PC # BOARD /\ BufferSize \in Nat
  BY SystemAssumption
<1> QED
  BY <1>1 DEF Devices, Link!Other, Queue!Other, Queue!TwoDevices

LEMMA LinkStepIsQueueStep ==
  ASSUME NEW d \in Devices, Link!Open(d) \/ Link!Accept(d) \/ Link!Deliver(d) \/ Link!Acknowledge(d)
  PROVE  [Queue!RNext]_(Queue!rvars)
<1>1. Link!Open(d) => Queue!Open(d)
  BY DEF Link!Open, Queue!Open
<1>2. Link!Accept(d) => Queue!Accept(d)
  BY DEF Link!Accept, Queue!Accept, Link!HasRoom, Queue!HasRoom,
         Link!Cardinality, Queue!Cardinality
<1>3. Link!Deliver(d) => Queue!Deliver(d)
  BY DEF Link!Deliver, Queue!Deliver, Link!Other, Queue!Other
<1>4. Link!Acknowledge(d) => Queue!Acknowledge(d)
  BY DEF Link!Acknowledge, Queue!Acknowledge, Link!Other, Queue!Other
<1> QED
  BY <1>1, <1>2, <1>3, <1>4 DEF Queue!RNext

LEMMA QueueKept ==
  ASSUME Queue!QueueInv,
         \/ UNCHANGED link
         \/ \E d \in Devices :
              Link!Open(d) \/ Link!Accept(d) \/ Link!Deliver(d) \/ Link!Acknowledge(d)
  PROVE  Queue!QueueInv'
<1>1. [Queue!RNext]_(Queue!rvars)
  BY LinkStepIsQueueStep DEF link, Queue!rvars
<1> QED
  BY <1>1, Ends, Queue!NextQueue

LEMMA OnWires ==
  ASSUME NEW M, NEW W, Wires(M, W)
  PROVE  wire[PC] \in Seq(M) /\ wire[BOARD] \in Seq(W)
  BY SeqMonotonic DEF Wires

LEMMA SameCardinality ==
  /\ \A s : Link!Cardinality(s) = Cardinality(s)
  /\ \A s : Queue!Cardinality(s) = Cardinality(s)
  BY DEF Link!Cardinality, Queue!Cardinality, Cardinality

(* What Transmitted does to what is on the link. *)
LEMMA TransmittedIs ==
  ASSUME NEW d \in Devices, NEW m, NEW M, NEW W, Queue!QueueInv, Wires(M, W),
         Transmitted(d, m)
  PROVE  /\ Queue!QueueInv'
         /\ open' = open /\ delivered' = delivered
         /\ \/ /\ Link!HasRoom(d)
               /\ accepted' = [accepted EXCEPT ![d] = accepted[d] + 1]
               /\ wire' = [wire EXCEPT ![d] = Append(wire[d], m)]
            \/ /\ ~Link!HasRoom(d)
               /\ UNCHANGED <<link, wire>>
<1>1. CASE Link!HasRoom(d)
  <2>1. Link!Accept(d) /\ wire' = [wire EXCEPT ![d] = Append(wire[d], m)]
    BY <1>1 DEF Transmitted
  <2>2. Queue!QueueInv'
    BY <2>1, QueueKept
  <2> QED
    BY <1>1, <2>1, <2>2 DEF Link!Accept
<1>2. CASE ~Link!HasRoom(d)
  <2>1. UNCHANGED <<link, wire>>
    BY <1>2 DEF Transmitted
  <2>2. Queue!QueueInv'
    BY <2>1, QueueKept
  <2> QED
    BY <1>2, <2>1, <2>2 DEF link
<1> QED
  BY <1>1, <1>2

(* What Received does, and that there is a message to receive. *)
LEMMA ReceivedIs ==
  ASSUME NEW d \in Devices, NEW from \in Devices, from = Link!Other(d), NEW M, NEW W,
         Queue!QueueInv, Wires(M, W), Received(d, from)
  PROVE  /\ Queue!QueueInv'
         /\ open' = open /\ accepted' = accepted
         /\ wire[from] # <<>>
         /\ delivered' = [delivered EXCEPT ![d] = delivered[d] + 1]
         /\ wire' = [wire EXCEPT ![from] = Tail(wire[from])]
<1>1. Link!Deliver(d) /\ wire' = [wire EXCEPT ![from] = Tail(wire[from])]
  BY DEF Received
<1>2. Queue!QueueInv'
  BY <1>1, QueueKept
<1>3. /\ open' = open /\ accepted' = accepted
      /\ delivered' = [delivered EXCEPT ![d] = delivered[d] + 1]
      /\ delivered[d] < accepted[from]
  BY <1>1 DEF Link!Deliver
<1>4. Len(wire[from]) = accepted[from] - delivered[d]
  BY Ends DEF Wires
<1>5. accepted[from] \in Nat /\ delivered[d] \in Nat
  BY DEF Queue!QueueInv, Queue!QueueTypes
<1>6. Len(wire[from]) # 0
  BY <1>3, <1>4, <1>5
<1> QED
  BY <1>1, <1>2, <1>3, <1>6, EmptySeq

-----------------------------------------------------------------------------
(* The modules. *)

(* A board keeps its form when the bank sets positions or rules. *)
Set(b, c, request) ==
  /\ \E P, R : c \in Boards(P, R)
  /\ c.watched = b.watched /\ c.states = b.states
  /\ c.request = request

LEMMA PositionsSet ==
  ASSUME NEW P, NEW R, NEW b \in Boards(P, R), NEW q,
         NEW c, c = [b EXCEPT !.positions = q]
  PROVE  Set(b, c, b.request) /\ c.positions = q
<1>1. c \in Boards({q}, R)
  BY DEF Boards
<1> QED
  BY <1>1 DEF Set, Boards

LEMMA RulesSet ==
  ASSUME NEW P, NEW R, NEW b \in Boards(P, R), NEW q,
         NEW c, c = [b EXCEPT !.rules = q]
  PROVE  Set(b, c, b.request) /\ c.positions = b.positions
<1>1. c \in Boards(P, {q})
  BY DEF Boards
<1> QED
  BY <1>1 DEF Set, Boards

LEMMA RequestSet ==
  ASSUME NEW P, NEW R, NEW b \in Boards(P, R), NEW q \in BOOLEAN,
         NEW c, c = [b EXCEPT !.request = q]
  PROVE  Set(b, c, q) /\ c.positions = b.positions
<1>1. c \in Boards(P, R)
  BY DEF Boards
<1> QED
  BY <1>1 DEF Set, Boards

LEMMA MaybeTareIs ==
  ASSUME NEW P, NEW R, NEW b \in Boards(P, R), NEW S, b.positions \in [Addresses -> S],
         NEW bitmap, NEW c, c = MaybeTare(b, bitmap)
  PROVE  Set(b, c, b.request) /\ \E T : c.positions \in [Addresses -> T]
<1> DEFINE q == [a \in DOMAIN b.positions |->
                   LET matching == Matching(b.rules[a], bitmap)
                   IN IF matching = {} THEN b.positions[a]
                                       ELSE b.rules[a][Max(matching)][1]]
<1>1. c = [b EXCEPT !.positions = q]
  BY DEF MaybeTare
<1>2. q \in [Addresses -> {q[a] : a \in Addresses}]
  <2>1. DOMAIN b.positions = Addresses
    OBVIOUS
  <2>2. q = [a \in Addresses |-> q[a]]
    BY <2>1
  <2> HIDE DEF q
  <2> QED
    BY <2>2
<1> HIDE DEF q
<1>3. Set(b, c, b.request) /\ c.positions = q
  BY <1>1, PositionsSet
<1> QED
  BY <1>2, <1>3

LEMMA BankAcceptsIs ==
  ASSUME NEW P, NEW R, NEW b \in Boards(P, R), NEW S, b.positions \in [Addresses -> S],
         NEW m, NEW c, c = BankAccepts(b, m)
  PROVE  /\ Set(b, c, IF Type(m) = MOTOR_REQUEST_REPORT THEN TRUE ELSE b.request)
         /\ \E T : c.positions \in [Addresses -> T]
<1> DEFINE request == IF Type(m) = MOTOR_REQUEST_REPORT THEN TRUE ELSE b.request
           Kept == Set(b, c, request) /\ \E T : c.positions \in [Addresses -> T]
<1>0. b.request \in BOOLEAN
  BY DEF Boards
<1>1. ASSUME NEW x, NEW y, c = [b EXCEPT !.positions[x] = y], request = b.request
      PROVE  Kept
  <2> DEFINE q == [b.positions EXCEPT ![x] = y]
  <2>1. q \in [Addresses -> S \cup {y}]
    OBVIOUS
  <2>2. c = [b EXCEPT !.positions = q]
    BY <1>1
  <2> HIDE DEF q
  <2>3. Set(b, c, b.request) /\ c.positions = q
    BY <2>2, PositionsSet
  <2> QED
    BY <1>1, <2>1, <2>3
<1>2. CASE Type(m) = MOTOR_INIT
  <2>1. c = [b EXCEPT !.positions[m[2] + 1] = 0]
    BY <1>2 DEF BankAccepts, MOTOR_INIT, MOTOR_CONFIG, MOTOR_MOVE, MOTOR_TARE,
                MOTOR_TARE_IF, READ_REPORT, MOTOR_REQUEST_REPORT
  <2>2. request = b.request
    BY <1>2 DEF MOTOR_INIT, MOTOR_REQUEST_REPORT
  <2> QED
    BY <1>1, <2>1, <2>2
<1>3. CASE Type(m) = MOTOR_CONFIG
  <2> DEFINE y == IF m[3] = 1 THEN 0 ELSE b.positions[m[2] + 1]
  <2>1. c = [b EXCEPT !.positions[m[2] + 1] = y]
    BY <1>3 DEF BankAccepts, MOTOR_INIT, MOTOR_CONFIG, MOTOR_MOVE, MOTOR_TARE,
                MOTOR_TARE_IF, READ_REPORT, MOTOR_REQUEST_REPORT
  <2>2. request = b.request
    BY <1>3 DEF MOTOR_CONFIG, MOTOR_REQUEST_REPORT
  <2> HIDE DEF y
  <2> QED
    BY <1>1, <2>1, <2>2
<1>4. CASE Type(m) = MOTOR_MOVE
  <2> DEFINE q == [a \in DOMAIN b.positions |-> m[a + 1]]
  <2>1. c = [b EXCEPT !.positions = q]
    BY <1>4 DEF BankAccepts, MOTOR_INIT, MOTOR_CONFIG, MOTOR_MOVE, MOTOR_TARE,
                MOTOR_TARE_IF, READ_REPORT, MOTOR_REQUEST_REPORT
  <2>2. request = b.request
    BY <1>4 DEF MOTOR_MOVE, MOTOR_REQUEST_REPORT
  <2>3. q \in [Addresses -> {m[a + 1] : a \in Addresses}]
    OBVIOUS
  <2> HIDE DEF q
  <2>4. Set(b, c, b.request) /\ c.positions = q
    BY <2>1, PositionsSet
  <2> QED
    BY <2>2, <2>3, <2>4
<1>5. CASE Type(m) = MOTOR_TARE
  <2>1. c = [b EXCEPT !.positions[m[2] + 1] = m[3]]
    BY <1>5 DEF BankAccepts, MOTOR_INIT, MOTOR_CONFIG, MOTOR_MOVE, MOTOR_TARE,
                MOTOR_TARE_IF, READ_REPORT, MOTOR_REQUEST_REPORT
  <2>2. request = b.request
    BY <1>5 DEF MOTOR_TARE, MOTOR_REQUEST_REPORT
  <2> QED
    BY <1>1, <2>1, <2>2
<1>6. CASE Type(m) = MOTOR_TARE_IF
  <2> DEFINE q == [b.rules EXCEPT ![m[2] + 1] =
                     [b.rules[m[2] + 1] EXCEPT ![m[3] + 1] = <<m[4], m[5], m[6] = 1>>]]
  <2>1. c = [b EXCEPT !.rules = q]
    BY <1>6 DEF BankAccepts, MOTOR_INIT, MOTOR_CONFIG, MOTOR_MOVE, MOTOR_TARE,
                MOTOR_TARE_IF, READ_REPORT, MOTOR_REQUEST_REPORT
  <2>2. request = b.request
    BY <1>6 DEF MOTOR_TARE_IF, MOTOR_REQUEST_REPORT
  <2> HIDE DEF q
  <2>3. Set(b, c, b.request) /\ c.positions = b.positions
    BY <2>1, RulesSet
  <2> QED
    BY <2>2, <2>3
<1>7. CASE Type(m) = READ_REPORT
  <2>1. c = MaybeTare(b, m[2])
    BY <1>7 DEF BankAccepts, MOTOR_INIT, MOTOR_CONFIG, MOTOR_MOVE, MOTOR_TARE,
                MOTOR_TARE_IF, READ_REPORT, MOTOR_REQUEST_REPORT
  <2>2. request = b.request
    BY <1>7 DEF READ_REPORT, MOTOR_REQUEST_REPORT
  <2> QED
    BY <2>1, <2>2, MaybeTareIs
<1>8. CASE Type(m) = MOTOR_REQUEST_REPORT
  <2>1. c = [b EXCEPT !.request = TRUE]
    BY <1>8 DEF BankAccepts, MOTOR_INIT, MOTOR_CONFIG, MOTOR_MOVE, MOTOR_TARE,
                MOTOR_TARE_IF, READ_REPORT, MOTOR_REQUEST_REPORT
  <2>2. request = TRUE
    BY <1>8
  <2> DEFINE on == TRUE
  <2>3. on \in BOOLEAN /\ c = [b EXCEPT !.request = on] /\ request = on
    BY <2>1, <2>2
  <2> HIDE DEF on, request
  <2>4. Set(b, c, on) /\ c.positions = b.positions
    BY <2>3, RequestSet
  <2>5. Set(b, c, request) /\ \E T : c.positions \in [Addresses -> T]
    BY <2>3, <2>4
  <2> QED
    BY <2>5 DEF request
<1>9. CASE Type(m) \notin {MOTOR_INIT, MOTOR_CONFIG, MOTOR_MOVE, MOTOR_TARE, MOTOR_TARE_IF,
                           READ_REPORT, MOTOR_REQUEST_REPORT}
  <2>1. c = b /\ request = b.request
    BY <1>9 DEF BankAccepts
  <2> QED
    BY <2>1 DEF Set
<1> HIDE DEF request
<1> QED
  BY <1>2, <1>3, <1>4, <1>5, <1>6, <1>7, <1>8, <1>9

IsBoard(b) ==
  /\ \E P, R : b \in Boards(P, R)
  /\ \E S : b.positions \in [Addresses -> S]
  /\ b.states \subseteq b.watched

LEMMA DispatchIs ==
  ASSUME NEW b, IsBoard(b), NEW m, NEW c, c = Dispatch(b, m)
  PROVE  /\ IsBoard(c)
         /\ c.request = IF Type(m) = MOTOR_REQUEST_REPORT THEN TRUE ELSE b.request
<1> DEFINE d == BankAccepts(b, m)
           request == IF Type(m) = MOTOR_REQUEST_REPORT THEN TRUE ELSE b.request
<1>1. PICK P, R, S : b \in Boards(P, R) /\ b.positions \in [Addresses -> S]
  BY DEF IsBoard
<1>2. Set(b, d, request) /\ \E T : d.positions \in [Addresses -> T]
  BY <1>1, BankAcceptsIs
<1>3. c = ReadAccepts(d, m)
  BY DEF Dispatch
<1>4. b.states \subseteq b.watched
  BY DEF IsBoard
<1> HIDE DEF d, request
<1>5. PICK P2, R2 : d \in Boards(P2, R2)
  BY <1>2 DEF Set
<1>6. d.states \subseteq d.watched /\ d.request = request
  BY <1>2, <1>4 DEF Set
<1>7. CASE Type(m) = READ_REQUEST
  <2> DEFINE w == d.watched \cup Pins(m[2]) \cup Pins(m[3])
  <2>1. c = [d EXCEPT !.watched = w, !.force = TRUE]
    BY <1>3, <1>7 DEF ReadAccepts
  <2>2. Pins(m[2]) \subseteq 1 .. NumPins /\ Pins(m[3]) \subseteq 1 .. NumPins
    BY DEF Pins
  <2>3. w \in SUBSET (1 .. NumPins) /\ d.watched \subseteq w
    BY <1>5, <2>2 DEF Boards
  <2> HIDE DEF w
  <2>4. /\ c \in Boards(P2, R2)
        /\ c.positions = d.positions /\ c.request = d.request
        /\ c.states = d.states /\ c.watched = w
    BY <1>5, <2>1, <2>3 DEF Boards
  <2>5. c.states \subseteq c.watched
    BY <1>6, <2>3, <2>4
  <2>6. \E T : c.positions \in [Addresses -> T]
    BY <1>2, <2>4
  <2>7. IsBoard(c)
    BY <2>4, <2>5, <2>6 DEF IsBoard
  <2>8. c.request = request
    BY <1>6, <2>4
  <2> QED
    BY <2>7, <2>8 DEF request
<1>8. CASE Type(m) # READ_REQUEST
  <2>1. c = d
    BY <1>3, <1>8 DEF ReadAccepts
  <2> QED
    BY <1>2, <1>5, <1>6, <2>1 DEF IsBoard, request
<1> QED
  BY <1>7, <1>8

LEMMA BankTickedIs ==
  ASSUME NEW b, IsBoard(b), NEW c, c = BankTicked(b)
  PROVE  IsBoard(c) /\ c.request = FALSE /\ c.positions = b.positions
<1>1. PICK P, R : b \in Boards(P, R)
  BY DEF IsBoard
<1>2. c = [b EXCEPT !.request = FALSE]
  BY DEF BankTicked
<1> DEFINE off == FALSE
<1>3. Set(b, c, off) /\ c.positions = b.positions
  <2>1. off \in BOOLEAN /\ c = [b EXCEPT !.request = off]
    BY <1>2
  <2> HIDE DEF off
  <2> QED
    BY <1>1, <2>1, RequestSet
<1> QED
  BY <1>3 DEF Set, IsBoard

LEMMA ReadTickedIs ==
  ASSUME NEW b, IsBoard(b), NEW high, NEW c, c = ReadTicked(b, high)
  PROVE  IsBoard(c) /\ c.request = b.request
<1> DEFINE polled == Polled(b, high)
           d == [b EXCEPT !.states = polled, !.force = FALSE]
<1>1. PICK P, R, S : b \in Boards(P, R) /\ b.positions \in [Addresses -> S]
  BY DEF IsBoard
<1>2. polled \subseteq b.watched
  BY DEF Polled
<1> HIDE DEF polled
<1>3. /\ d \in Boards(P, R) /\ d.positions = b.positions /\ d.request = b.request
      /\ d.states = polled /\ d.watched = b.watched
  BY <1>1, <1>2 DEF Boards
<1>4. IsBoard(d)
  BY <1>1, <1>2, <1>3 DEF IsBoard
<1>5. c = IF ReadReport(b, high) = <<>> THEN d ELSE BankAccepts(d, ReadReport(b, high))
  BY DEF ReadTicked, polled
<1> HIDE DEF d
<1>6. CASE ReadReport(b, high) = <<>>
  BY <1>3, <1>4, <1>5, <1>6
<1>7. CASE ReadReport(b, high) # <<>>
  <2> DEFINE m == ReadReport(b, high)
  <2>1. c = BankAccepts(d, m)
    BY <1>5, <1>7
  <2>2. Type(m) # MOTOR_REQUEST_REPORT
    BY <1>7 DEF ReadReport, Type, READ_REPORT, MOTOR_REQUEST_REPORT
  <2> HIDE DEF m
  <2>3. d \in Boards(P, R) /\ d.positions \in [Addresses -> S]
    BY <1>1, <1>3
  <2>4. /\ Set(d, c, IF Type(m) = MOTOR_REQUEST_REPORT THEN TRUE ELSE d.request)
        /\ \E T : c.positions \in [Addresses -> T]
    BY <2>1, <2>3, BankAcceptsIs
  <2>5. Set(d, c, d.request)
    BY <2>2, <2>4
  <2> QED
    BY <1>2, <1>3, <2>4, <2>5 DEF Set, IsBoard
<1> QED
  BY <1>6, <1>7

(* What the modules report. *)

LEMMA BankReportIs ==
  ASSUME NEW S, NEW M, NEW Q, NEW A, NEW W, Alphabet(S, M, Q, A, W),
         NEW b, b.positions \in [Addresses -> S], NEW r, r = BankReport(b), r # <<>>
  PROVE  r \in W /\ r \in A /\ ForPC(r) /\ b.request
<1>1. r = <<MOTOR_REPORT>> \o b.positions /\ b.request
  BY DEF BankReport
<1>2. MOTOR_REPORT \in S
  BY DEF Alphabet, MOTOR_REPORT
<1> DEFINE one == <<MOTOR_REPORT>>
           p == b.positions
<1>3. one \in Seq(S) /\ Len(one) = 1 /\ one[1] = MOTOR_REPORT
  BY <1>2
<1>4. p \in Seq(S) /\ Len(p) = NumMotors
  BY BoardAssumption DEF Addresses
<1>5. r = one \o p
  BY <1>1
<1> HIDE DEF one, p
<1>6. r \in Seq(S) /\ Len(r) = 1 + NumMotors /\ r[1] = one[1]
  <2>1. /\ one \o p \in Seq(S) /\ Len(one \o p) = Len(one) + Len(p)
        /\ \A i \in 1 .. Len(one) + Len(p) :
             (one \o p)[i] = IF i <= Len(one) THEN one[i] ELSE p[i - Len(one)]
    BY <1>3, <1>4, ConcatProperties
  <2>2. 1 \in 1 .. Len(one) + Len(p) /\ 1 <= Len(one)
    BY <1>3, <1>4, BoardAssumption
  <2> QED
    BY <1>3, <1>4, <1>5, <2>1, <2>2
<1>7. r \in M /\ Type(r) = MOTOR_REPORT
  BY <1>3, <1>6 DEF Alphabet, Type
<1> QED
  BY <1>1, <1>6, <1>7 DEF Alphabet, WellFormed, ForPC, MOTOR_REPORT

LEMMA ReadReportIs ==
  ASSUME NEW S, NEW M, NEW Q, NEW A, NEW W, Alphabet(S, M, Q, A, W),
         NEW b, NEW high, Bitmap(Polled(b, high)) \in S,
         NEW r, r = ReadReport(b, high), r # <<>>
  PROVE  r \in W /\ r \notin A /\ ForPC(r)
<1>1. r = <<READ_REPORT, Bitmap(Polled(b, high))>>
  BY DEF ReadReport
<1>2. READ_REPORT \in S
  BY DEF Alphabet, READ_REPORT
<1>3. r \in Seq(S) /\ Len(r) = 2 /\ Type(r) = READ_REPORT
  BY <1>1, <1>2 DEF Type
<1> QED
  BY <1>3 DEF Alphabet, WellFormed, ForPC, READ_REPORT, MOTOR_REPORT

-----------------------------------------------------------------------------
(* What messages consist of may be taken to be more than it is. *)

LEMMA HitsSame ==
  ASSUME NEW M, NEW s \in Seq(M), NEW T, NEW U, \A m \in M : m \in T <=> m \in U
  PROVE  Hits(s, T) = Hits(s, U)
<1>1. \A i \in DOMAIN s : s[i] \in M
  BY LenProperties, ElementOfSeq
<1>2. {i \in DOMAIN s : s[i] \in T} = {i \in DOMAIN s : s[i] \in U}
  BY <1>1
<1> QED
  BY <1>2 DEF Hits

LEMMA Widen ==
  ASSUME NEW S, NEW M, NEW Q, NEW A, NEW W, Carries(S, M, Q, A, W),
         NEW S2, S \subseteq S2
  PROVE  \E M2, Q2, A2, W2 : Carries(S2, M2, Q2, A2, W2)
<1>1. PICK M2, Q2, A2, W2 :
         /\ M2 = Seq(S2)
         /\ Q2 = {m \in M2 : Asks(m)}
         /\ A2 = {m \in M2 : Type(m) = MOTOR_REPORT}
         /\ W2 = {m \in M2 : WellFormed(m)}
  OBVIOUS
<1>2. Alphabet(S, M, Q, A, W) /\ Alphabet(S2, M2, Q2, A2, W2)
  BY <1>1 DEF Carries, Alphabet
<1>3. M \subseteq M2 /\ M \ {<<>>} \subseteq M2 \ {<<>>} /\ W \subseteq M /\ W \subseteq W2
  <2>1. Seq(S) \subseteq Seq(S2)
    BY SeqMonotonic
  <2> QED
    BY <1>2, <2>1 DEF Alphabet
<1>4. /\ Seq(S) \subseteq Seq(S2) /\ Seq(M) \subseteq Seq(M2)
      /\ Seq(M \ {<<>>}) \subseteq Seq(M2 \ {<<>>})
      /\ Seq(W) \subseteq Seq(W2) /\ Seq(W) \subseteq Seq(M)
  BY <1>3, SeqMonotonic
<1>5. Files(S, M, W) /\ Wires(M, W)
  BY DEF Carries
<1>6. Files(S2, M2, W2) /\ Wires(M2, W2)
  BY <1>4, <1>5 DEF Files, Wires
<1>7. Modules(S2) /\ view \in Views(M2)
  BY <1>3 DEF Carries, Modules, Views
<1>8. Ledger(Q2, A2)
  <2>1. \A m \in M : (m \in Q <=> m \in Q2) /\ (m \in A <=> m \in A2)
    BY <1>2, <1>3 DEF Alphabet
  <2>2. ASSUME NEW s \in Seq(M)
        PROVE  Hits(s, Q) = Hits(s, Q2) /\ Hits(s, A) = Hits(s, A2)
    BY <2>1, HitsSame
  <2>3. /\ Messages(toCc) \in Seq(M) /\ Messages(fromCc) \in Seq(M)
        /\ wire[PC] \in Seq(M) /\ wire[BOARD] \in Seq(M)
    BY <1>4, <1>5, OnWires DEF Files
  <2>4. Ledger(Q, A)
    BY DEF Carries
  <2> QED
    BY <2>2, <2>3, <2>4 DEF Ledger, Waiting, Coming
<1> QED
  BY <1>2, <1>6, <1>7, <1>8 DEF Carries

-----------------------------------------------------------------------------
LEMMA InitSystem == Init => SystemInv
<1> SUFFICES ASSUME Init PROVE SystemInv
  OBVIOUS
<1>1. PICK S, M, Q, A, W :
         /\ S = Int /\ M = Seq(S)
         /\ Q = {m \in M : Asks(m)}
         /\ A = {m \in M : Type(m) = MOTOR_REPORT}
         /\ W = {m \in M : WellFormed(m)}
  OBVIOUS
<1>2. Alphabet(S, M, Q, A, W)
  BY <1>1 DEF Alphabet
<1>3. toCc = <<>> /\ fromCc = <<>> /\ Messages(<<>>) = <<>> /\ Whole(<<>>)
  <2>1. Whole(<<>>) /\ AtEnd(<<>>).messages = <<>>
    BY NothingIsWhole
  <2>2. Messages(<<>>) = AtEnd(<<>>).messages
    BY DEF Messages, AtEnd
  <2> QED
    BY <2>1, <2>2 DEF Init
<1>4. \A T : <<>> \in Seq(T)
  BY EmptySeq
<1>5. Turns
  BY DEF Init, Turns
<1>6. Link!RInit
  BY DEF Init
<1>7. Queue!QueueInv
  <2>1. Queue!RInit
    BY <1>6 DEF Link!RInit, Queue!RInit
  <2> QED
    BY <2>1, Ends, Queue!InitQueue
<1>8. Files(S, M, W)
  BY <1>3, <1>4 DEF Files
<1>9. wire = [d \in Devices |-> <<>>] /\ wire[PC] = <<>> /\ wire[BOARD] = <<>>
  BY Ends DEF Init
<1>10. Wires(M, W)
  <2>1. \A d \in Devices : accepted[d] = 0 /\ delivered[d] = 0
    BY <1>6 DEF Link!RInit
  <2>2. Len(<<>>) = 0
    OBVIOUS
  <2> QED
    BY <1>4, <1>9, <2>1, <2>2, Ends DEF Wires
<1>11. Modules(S)
  <2> DEFINE rules == [a \in 1 .. NumMotors |-> [r \in 1 .. NumRules |-> <<>>]]
             positions == [a \in Addresses |-> 0]
  <2>1. board = [positions |-> positions, rules |-> rules, request |-> FALSE,
                 watched |-> {}, states |-> {}, force |-> FALSE]
    BY DEF Init, NewBoard, Addresses
  <2>2. positions \in [Addresses -> S]
    BY <1>1
  <2> HIDE DEF rules, positions
  <2>3. board \in Boards({positions}, {rules})
    BY <2>1 DEF Boards
  <2>4. board.positions = positions /\ board.states = {} /\ board.request = FALSE
    BY <2>1
  <2> QED
    BY <2>2, <2>3, <2>4 DEF Modules
<1>12. view = Remote!NoView /\ view \in Views(M) /\ view.answers = 0
  BY <1>1, <1>4 DEF Init, Remote!NoView, Views
<1>13. Ledger(Q, A)
  <2>1. Count(board.request) = 0
    BY DEF Init, NewBoard, Count
  <2>2. Hits(<<>>, Q) = 0 /\ Hits(<<>>, A) = 0
    BY HitsNone
  <2>3. asked = 0 /\ unanswered = 0
    BY DEF Init
  <2> QED
    BY <1>3, <1>9, <1>12, <2>1, <2>2, <2>3 DEF Ledger, Waiting, Taken, Coming
<1>14. PassedOn
  <2>1. sent = 0 /\ dropped = 0 /\ accepted[PC] = 0
    BY <1>6, Ends DEF Init, Link!RInit
  <2>2. Len(<<>>) = 0
    OBVIOUS
  <2> QED
    BY <1>3, <2>1, <2>2 DEF PassedOn, BurstIsCarried
<1>15. Carries(S, M, Q, A, W)
  BY <1>2, <1>5, <1>7, <1>8, <1>10, <1>11, <1>12, <1>13, <1>14 DEF Carries
<1> QED
  BY <1>15 DEF SystemInv

-----------------------------------------------------------------------------
(* The steps. *)

LEMMA LinkTickKeeps ==
  ASSUME NEW S, NEW M, NEW Q, NEW A, NEW W, Carries(S, M, Q, A, W),
         NEW d \in Devices, LinkTick(d)
  PROVE  Carries(S, M, Q, A, W)'
<1>1. /\ UNCHANGED <<toCc, fromCc, bridge, wire, board, turn, pins, view, ghosts>>
      /\ Link!Open(d) \/ Link!Acknowledge(d)
  BY DEF LinkTick
<1>2. Queue!QueueInv'
  BY <1>1, QueueKept DEF Carries
<1>3. accepted' = accepted /\ delivered' = delivered
  BY <1>1 DEF Link!Open, Link!Acknowledge
<1>4. open[PC] => open'[PC]
  <2>1. open \in [Devices -> BOOLEAN]
    BY DEF Carries, Queue!QueueInv, Queue!QueueTypes
  <2> QED
    BY <1>1, <2>1, Ends DEF Link!Open, Link!Acknowledge
<1>5. Turns'
  BY <1>1, <1>4 DEF Carries, Turns
<1>6. Files(S, M, W)' /\ Wires(M, W)' /\ Modules(S)' /\ Alphabet(S, M, Q, A, W)
  BY <1>1, <1>3 DEF Carries, Files, Wires, Modules
<1>7. Ledger(Q, A)' /\ PassedOn' /\ (view \in Views(M))'
  BY <1>1, <1>3 DEF Carries, Ledger, Waiting, Taken, Coming, PassedOn, BurstIsCarried, ghosts
<1> QED
  BY <1>2, <1>5, <1>6, <1>7 DEF Carries, Alphabet

(* What the ledger adds up. *)
Numbers(Q, A) ==
  /\ Waiting(Q) \in Nat /\ Taken \in Nat /\ Coming(A) \in Nat
  /\ view.answers \in Nat

LEMMA LedgerNumbers ==
  ASSUME NEW S, NEW M, NEW Q, NEW A, NEW W, Carries(S, M, Q, A, W)
  PROVE  Numbers(Q, A)
<1>1. Files(S, M, W) /\ Wires(M, W) /\ view \in Views(M)
  BY DEF Carries
<1>2. Hits(Messages(toCc), Q) \in Nat /\ Hits(wire[PC], Q) \in Nat
  BY <1>1, HitsType, OnWires DEF Files
<1>3. Hits(Messages(fromCc), A) \in Nat /\ Hits(wire[BOARD], A) \in Nat
  BY <1>1, HitsType DEF Files, Wires
<1>4. Taken \in Nat
  BY DEF Taken, Count
<1> QED
  BY <1>1, <1>2, <1>3, <1>4 DEF Numbers, Waiting, Coming, Views

LEMMA SendKeeps ==
  ASSUME NEW S, NEW M, NEW Q, NEW A, NEW W, Carries(S, M, Q, A, W), Send
  PROVE  Carries(S, M, Q, A, W)'
<1>1. PICK m \in Commands : toCc' = toCc \o Line(m) /\ asked' = asked + Count(Asks(m))
  BY DEF Send
<1>2. /\ sent' = sent + 1
      /\ UNCHANGED <<fromCc, bridge, link, wire, board, turn, pins, view,
                     dropped, unanswered, stale, changes>>
  BY DEF Send
<1>3. Alphabet(S, M, Q, A, W) /\ Files(S, M, W) /\ Wires(M, W)
  BY DEF Carries
<1>4. m \in Seq(S) /\ NEWLINE \in S /\ DELIMITER \in S
  <2>1. m \in Seq(Int) /\ Int \subseteq S
    BY <1>3, SystemAssumption DEF Alphabet
  <2> QED
    BY <2>1, SeqMonotonic DEF NEWLINE, DELIMITER
<1>5. /\ toCc' \in Seq(S) /\ Whole(toCc') /\ m \in M
      /\ Messages(toCc') = Append(Messages(toCc), m)
  <2>1. toCc \in Seq(S) /\ Whole(toCc)
    BY <1>3 DEF Files
  <2> QED
    BY <1>1, <1>3, <1>4, <2>1, LineIsRead DEF Alphabet
<1> DEFINE ms == Messages(toCc)
<1>6. ms \in Seq(M)
  BY <1>3 DEF Files
<1>7. Append(ms, m) \in Seq(M) /\ Len(Append(ms, m)) = Len(ms) + 1 /\ Len(ms) \in Nat
  <2> HIDE DEF ms
  <2> QED
    BY <1>5, <1>6, AppendProperties, LenProperties
<1>8. Files(S, M, W)'
  BY <1>2, <1>3, <1>5, <1>7 DEF Files
<1>9. /\ Wires(M, W)' /\ Modules(S)' /\ Turns' /\ (view \in Views(M))'
      /\ Alphabet(S, M, Q, A, W)' /\ Queue!QueueInv'
  <2>1. Queue!QueueInv'
    BY <1>2, QueueKept DEF Carries
  <2> QED
    BY <1>2, <2>1 DEF Carries, Wires, Modules, Turns, Alphabet, link
<1>10. Ledger(Q, A)'
  <2> DEFINE k == Count(Asks(m))
  <2>1. Hits(Append(ms, m), Q) = Hits(ms, Q) + k /\ Hits(ms, Q) \in Nat /\ k \in Nat
    <3>1. m \in Q <=> Asks(m)
      BY <1>3, <1>5 DEF Alphabet
    <3>2. /\ Hits(ms, Q) \in Nat
          /\ m \in Q => Hits(Append(ms, m), Q) = Hits(ms, Q) + 1
          /\ m \notin Q => Hits(Append(ms, m), Q) = Hits(ms, Q)
      <4> HIDE DEF ms
      <4> QED
        BY <1>5, <1>6, HitsAppend
    <3>3. /\ Asks(m) => k = 1
          /\ ~Asks(m) => k = 0
      BY DEF Count
    <3> HIDE DEF k, ms
    <3> QED
      BY <3>1, <3>2, <3>3
  <2>2. Ledger(Q, A) /\ Numbers(Q, A)
    BY LedgerNumbers DEF Carries
  <2>3. Waiting(Q)' = Waiting(Q) + k
    <3>1. Hits(wire[PC], Q) \in Nat
      BY <1>3, HitsType, OnWires
    <3>2. /\ Waiting(Q)' = Hits(Append(ms, m), Q) + Hits(wire[PC], Q)
          /\ Waiting(Q) = Hits(ms, Q) + Hits(wire[PC], Q)
      BY <1>2, <1>5 DEF Waiting
    <3> HIDE DEF k, ms
    <3> QED
      BY <2>1, <3>1, <3>2
  <2>4. /\ Taken' = Taken /\ Coming(A)' = Coming(A) /\ view' = view
        /\ unanswered' = unanswered /\ asked' = asked + k
    BY <1>1, <1>2 DEF Taken, Coming
  <2> HIDE DEF k
  <2> QED
    BY <2>1, <2>2, <2>3, <2>4 DEF Ledger, Numbers
<1>11. PassedOn'
  <2>1. PassedOn /\ accepted' = accepted /\ dropped' = dropped /\ accepted[PC] \in Nat
    BY <1>2, Ends DEF Carries, link, Queue!QueueInv, Queue!QueueTypes
  <2>2. Len(Messages(toCc')) = Len(Messages(toCc)) + 1 /\ Len(Messages(toCc)) \in Nat
    BY <1>5, <1>7
  <2> QED
    BY <1>2, <2>1, <2>2, Ends DEF PassedOn, BurstIsCarried
<1> QED
  BY <1>8, <1>9, <1>10, <1>11 DEF Carries

LEMMA TailIs ==
  ASSUME NEW M, NEW s \in Seq(M), s # <<>>
  PROVE  /\ s[1] \in M /\ Tail(s) \in Seq(M)
         /\ Len(Tail(s)) = Len(s) - 1 /\ Len(s) \in Nat
  BY HeadTailProperties, LenProperties

LEMMA SeenIs ==
  ASSUME NEW M, NEW v \in Views(M), NEW m \in M, NEW w, w = Remote!Seen(v, m)
  PROVE  /\ w \in Views(M)
         /\ Type(m) = MOTOR_REPORT => w.answers = v.answers + 1
         /\ Type(m) # MOTOR_REPORT => w.answers = v.answers
<1>1. CASE Type(m) = MOTOR_REPORT
  <2>1. w = [v EXCEPT !.answers = v.answers + 1]
    BY <1>1 DEF Remote!Seen, Remote!Type, Type, Remote!READ_REPORT, Remote!MOTOR_REPORT,
                MOTOR_REPORT
  <2> QED
    BY <1>1, <2>1 DEF Views
<1>2. CASE Type(m) = READ_REPORT
  <2>1. w = [v EXCEPT !.reading = m]
    BY <1>2 DEF Remote!Seen, Remote!Type, Type, Remote!READ_REPORT, Remote!MOTOR_REPORT,
                READ_REPORT
  <2>2. w \in Views(M) /\ w.answers = v.answers
    BY <2>1 DEF Views
  <2> QED
    BY <1>2, <2>2 DEF MOTOR_REPORT, READ_REPORT
<1>3. CASE Type(m) # MOTOR_REPORT /\ Type(m) # READ_REPORT
  <2>1. w = v
    BY <1>3 DEF Remote!Seen, Remote!Type, Type, Remote!READ_REPORT, Remote!MOTOR_REPORT,
                READ_REPORT, MOTOR_REPORT
  <2> QED
    BY <1>3, <2>1
<1> QED
  BY <1>1, <1>2, <1>3

LEMMA SeeKeeps ==
  ASSUME NEW S, NEW M, NEW Q, NEW A, NEW W, Carries(S, M, Q, A, W), See
  PROVE  Carries(S, M, Q, A, W)'
<1> DEFINE ms == Messages(fromCc)
           m == ms[1]
<1>1. /\ ms # <<>> /\ view' = Remote!Seen(view, m) /\ fromCc' = WithoutFirst(fromCc)
      /\ UNCHANGED <<toCc, bridge, link, wire, board, turn, pins, ghosts>>
  BY DEF See
<1>2. Alphabet(S, M, Q, A, W) /\ Files(S, M, W)
  BY DEF Carries
<1>3. ms \in Seq(W) /\ W \subseteq M
  BY <1>2 DEF Files, Alphabet
<1>4. m \in W /\ Tail(ms) \in Seq(W)
  <2> HIDE DEF ms
  <2> QED
    BY <1>1, <1>3, TailIs
<1>5. fromCc' \in Seq(S) /\ Whole(fromCc') /\ Messages(fromCc') = Tail(ms)
  BY <1>1, <1>2, FirstIsRead DEF Files
<1>6. Files(S, M, W)'
  BY <1>1, <1>2, <1>4, <1>5 DEF Files
<1>7. /\ (view \in Views(M))'
      /\ Type(m) = MOTOR_REPORT => view'.answers = view.answers + 1
      /\ Type(m) # MOTOR_REPORT => view'.answers = view.answers
  <2>1. view \in Views(M) /\ m \in M
    BY <1>3, <1>4 DEF Carries
  <2> HIDE DEF m
  <2> QED
    BY <1>1, <2>1, SeenIs
<1>8. /\ Wires(M, W)' /\ Modules(S)' /\ Turns' /\ Alphabet(S, M, Q, A, W)'
      /\ Queue!QueueInv' /\ PassedOn'
  <2>1. Queue!QueueInv'
    BY <1>1, QueueKept DEF Carries
  <2> QED
    BY <1>1, <2>1 DEF Carries, Wires, Modules, Turns, Alphabet, link, PassedOn, BurstIsCarried,
                      ghosts
<1>9. Ledger(Q, A)'
  <2>1. Ledger(Q, A) /\ Numbers(Q, A)
    BY LedgerNumbers DEF Carries
  <2>2. /\ Coming(A)' + view'.answers = Coming(A) + view.answers
        /\ Coming(A)' \in Nat /\ view'.answers \in Nat
    <3>1. Coming(A)' = Hits(wire[BOARD], A) + Hits(Tail(ms), A)
      BY <1>1, <1>5 DEF Coming
    <3>2. Coming(A) = Hits(wire[BOARD], A) + Hits(ms, A) /\ Hits(wire[BOARD], A) \in Nat
      BY HitsType DEF Coming, Carries, Wires
    <3>3. /\ Hits(Tail(ms), A) \in Nat
          /\ m \in A => Hits(ms, A) = Hits(Tail(ms), A) + 1
          /\ m \notin A => Hits(ms, A) = Hits(Tail(ms), A)
      <4> HIDE DEF ms
      <4> QED
        BY <1>1, <1>3, HitsTail DEF m
    <3>4. m \in A <=> Type(m) = MOTOR_REPORT
      BY <1>2, <1>3, <1>4 DEF Alphabet
    <3>5. view.answers \in Nat
      BY <2>1 DEF Numbers
    <3> HIDE DEF ms, m
    <3> QED
      BY <1>7, <3>1, <3>2, <3>3, <3>4, <3>5
  <2>3. /\ Taken' = Taken /\ Waiting(Q)' = Waiting(Q)
        /\ unanswered' = unanswered /\ asked' = asked
    BY <1>1 DEF Taken, Waiting, ghosts
  <2> QED
    BY <2>1, <2>2, <2>3 DEF Ledger, Numbers
<1> QED
  BY <1>6, <1>7, <1>8, <1>9 DEF Carries

LEMMA BridgeReceiveKeeps ==
  ASSUME NEW S, NEW M, NEW Q, NEW A, NEW W, Carries(S, M, Q, A, W), BridgeReceive
  PROVE  Carries(S, M, Q, A, W)'
<1> DEFINE ms == Messages(fromCc)
           w == wire[BOARD]
           m == w[1]
<1>1. /\ open[PC] /\ Received(PC, BOARD) /\ fromCc' = fromCc \o Line(m)
      /\ bridge' = "drain"
      /\ UNCHANGED <<toCc, board, turn, pins, view, ghosts>>
  BY DEF BridgeReceive
<1>2. Alphabet(S, M, Q, A, W) /\ Files(S, M, W) /\ Wires(M, W) /\ Queue!QueueInv
  BY DEF Carries
<1>3. /\ Queue!QueueInv' /\ open' = open /\ accepted' = accepted
      /\ w # <<>>
      /\ delivered' = [delivered EXCEPT ![PC] = delivered[PC] + 1]
      /\ wire' = [wire EXCEPT ![BOARD] = Tail(w)]
  BY <1>1, <1>2, Ends, ReceivedIs
<1>4. ms \in Seq(W) /\ w \in Seq(W) /\ W \subseteq M
  BY <1>2 DEF Files, Wires, Alphabet
<1>5. m \in W /\ Tail(w) \in Seq(W) /\ Len(Tail(w)) = Len(w) - 1 /\ Len(w) \in Nat
  <2> HIDE DEF w
  <2> QED
    BY <1>3, <1>4, TailIs DEF m
<1>6. /\ fromCc' \in Seq(S) /\ Whole(fromCc')
      /\ Messages(fromCc') = Append(ms, m)
  <2>1. /\ fromCc \in Seq(S) /\ Whole(fromCc) /\ m \in Seq(S)
        /\ NEWLINE \in S /\ DELIMITER \in S
    BY <1>2, <1>4, <1>5 DEF Files, Alphabet, NEWLINE, DELIMITER
  <2> HIDE DEF m
  <2> QED
    BY <1>1, <2>1, LineIsRead
<1>7. Append(ms, m) \in Seq(W)
  <2> HIDE DEF ms, m
  <2> QED
    BY <1>4, <1>5, AppendProperties
<1>8. Files(S, M, W)'
  BY <1>1, <1>2, <1>6, <1>7 DEF Files
<1>9. wire'[PC] = wire[PC] /\ wire'[BOARD] = Tail(w) /\ wire' = [d \in Devices |-> wire'[d]]
  BY <1>2, <1>3, Ends DEF Wires
<1>10. Wires(M, W)'
  <2>1. delivered'[PC] = delivered[PC] + 1 /\ delivered'[BOARD] = delivered[BOARD]
    BY <1>2, <1>3, Ends DEF Queue!QueueInv, Queue!QueueTypes
  <2>2. accepted[BOARD] \in Nat /\ delivered[PC] \in Nat
    BY <1>2, Ends DEF Queue!QueueInv, Queue!QueueTypes
  <2> DEFINE rest == Tail(w)
  <2>3. Len(w) = accepted[BOARD] - delivered[PC] /\ Len(rest) = Len(w) - 1
    BY <1>2, <1>5 DEF Wires
  <2>4. rest \in Seq(W) /\ wire'[BOARD] = rest
    BY <1>5, <1>9
  <2> HIDE DEF rest, w
  <2>5. Len(rest) = accepted'[BOARD] - delivered'[PC]
    BY <1>3, <2>1, <2>2, <2>3
  <2>6. wire[PC] \in Seq(M \ {<<>>}) /\ Len(wire[PC]) = accepted'[PC] - delivered'[BOARD]
    BY <1>2, <1>3, <2>1 DEF Wires
  <2> QED
    BY <1>9, <2>4, <2>5, <2>6 DEF Wires
<1>11. /\ Modules(S)' /\ Turns' /\ Alphabet(S, M, Q, A, W)' /\ (view \in Views(M))'
       /\ PassedOn'
  BY <1>1, <1>3 DEF Carries, Modules, Turns, Alphabet, PassedOn, BurstIsCarried, ghosts
<1>12. Ledger(Q, A)'
  <2>1. Ledger(Q, A) /\ Numbers(Q, A)
    BY LedgerNumbers DEF Carries
  <2>2. Coming(A)' = Coming(A)
    <3>1. Coming(A)' = Hits(Tail(w), A) + Hits(Append(ms, m), A)
      BY <1>6, <1>9 DEF Coming
    <3>2. Coming(A) = Hits(w, A) + Hits(ms, A)
      BY DEF Coming
    <3>3. /\ Hits(Tail(w), A) \in Nat
          /\ m \in A => Hits(w, A) = Hits(Tail(w), A) + 1
          /\ m \notin A => Hits(w, A) = Hits(Tail(w), A)
      <4> HIDE DEF w
      <4> QED
        BY <1>3, <1>4, HitsTail DEF m
    <3>4. /\ Hits(ms, A) \in Nat
          /\ m \in A => Hits(Append(ms, m), A) = Hits(ms, A) + 1
          /\ m \notin A => Hits(Append(ms, m), A) = Hits(ms, A)
      <4> HIDE DEF ms, m
      <4> QED
        BY <1>4, <1>5, HitsAppend
    <3> HIDE DEF ms, m, w
    <3> QED
      BY <3>1, <3>2, <3>3, <3>4
  <2>3. /\ Taken' = Taken /\ Waiting(Q)' = Waiting(Q) /\ view' = view
        /\ unanswered' = unanswered /\ asked' = asked
    BY <1>1, <1>9 DEF Taken, Waiting, ghosts
  <2> QED
    BY <2>1, <2>2, <2>3 DEF Ledger, Numbers
<1> QED
  BY <1>3, <1>8, <1>10, <1>11, <1>12 DEF Carries

LEMMA TransmittedKeepsWires ==
  ASSUME NEW S, NEW M, NEW Q, NEW A, NEW W, Carries(S, M, Q, A, W),
         NEW d \in Devices, NEW m \in M \ {<<>>}, d = BOARD => m \in W, Transmitted(d, m)
  PROVE  Wires(M, W)'
<1>1. Wires(M, W) /\ Queue!QueueInv
  BY DEF Carries
<1>2. /\ delivered' = delivered
      /\ \/ /\ accepted' = [accepted EXCEPT ![d] = accepted[d] + 1]
            /\ wire' = [wire EXCEPT ![d] = Append(wire[d], m)]
         \/ UNCHANGED <<link, wire>>
  BY <1>1, TransmittedIs
<1>3. CASE UNCHANGED <<link, wire>>
  BY <1>1, <1>3 DEF Wires, link
<1>4. CASE /\ accepted' = [accepted EXCEPT ![d] = accepted[d] + 1]
           /\ wire' = [wire EXCEPT ![d] = Append(wire[d], m)]
  <2> DEFINE more == Append(wire[d], m)
  <2>0. /\ accepted \in [Devices -> Nat] /\ delivered \in [Devices -> Nat]
        /\ wire = [e \in Devices |-> wire[e]]
    BY <1>1 DEF Queue!QueueInv, Queue!QueueTypes, Wires
  <2>1. CASE d = PC
    <3>1. more \in Seq(M \ {<<>>}) /\ Len(more) = Len(wire[PC]) + 1 /\ Len(wire[PC]) \in Nat
      BY <1>1, <2>1, AppendProperties, LenProperties DEF Wires
    <3> HIDE DEF more
    <3>2. /\ wire'[PC] = more /\ wire'[BOARD] = wire[BOARD]
          /\ accepted'[PC] = accepted[PC] + 1 /\ accepted'[BOARD] = accepted[BOARD]
          /\ wire' = [e \in Devices |-> wire'[e]]
      BY <1>4, <2>0, <2>1, Ends DEF more
    <3>3. Len(more) = accepted'[PC] - delivered'[BOARD]
      <4>1. Len(wire[PC]) = accepted[PC] - delivered[BOARD]
        BY <1>1 DEF Wires
      <4>2. accepted[PC] \in Nat /\ delivered[BOARD] \in Nat
        BY <2>0, Ends
      <4> QED
        BY <1>2, <3>1, <3>2, <4>1, <4>2
    <3> QED
      BY <1>1, <1>2, <3>1, <3>2, <3>3 DEF Wires
  <2>2. CASE d = BOARD
    <3>1. more \in Seq(W) /\ Len(more) = Len(wire[BOARD]) + 1 /\ Len(wire[BOARD]) \in Nat
      BY <1>1, <2>2, AppendProperties, LenProperties DEF Wires
    <3> HIDE DEF more
    <3>2. /\ wire'[BOARD] = more /\ wire'[PC] = wire[PC]
          /\ accepted'[BOARD] = accepted[BOARD] + 1 /\ accepted'[PC] = accepted[PC]
          /\ wire' = [e \in Devices |-> wire'[e]]
      BY <1>4, <2>0, <2>2, Ends DEF more
    <3>3. Len(more) = accepted'[BOARD] - delivered'[PC]
      BY <1>1, <1>2, <2>0, <3>1, <3>2, Ends, SMTT(30) DEF Wires
    <3> QED
      BY <1>1, <1>2, <3>1, <3>2, <3>3 DEF Wires
  <2> QED
    BY <2>1, <2>2, Ends
<1> QED
  BY <1>2, <1>3, <1>4

(* A full buffer holds BufferSize of the messages accepted so far.         *)
LEMMA FullHasAccepted ==
  ASSUME Queue!QueueInv, open[PC], ~Link!HasRoom(PC)
  PROVE  BufferSize <= accepted[PC]
<1>1. /\ held[PC] \subseteq 1 .. accepted[PC] /\ accepted[PC] \in Nat
      /\ IsFiniteSet(held[PC])
  <2>1. Queue!HoldsUndelivered(PC) /\ Queue!QueueTypes
    BY Ends DEF Queue!QueueInv
  <2>2. Queue!IsFiniteSet(held[PC]) => IsFiniteSet(held[PC])
    BY DEF Queue!IsFiniteSet, IsFiniteSet
  <2> QED
    BY <2>1, <2>2, Ends DEF Queue!HoldsUndelivered, Queue!QueueTypes
<1>2. IsFiniteSet(1 .. accepted[PC]) /\ Cardinality(1 .. accepted[PC]) = accepted[PC]
  BY <1>1, FS_Interval, SMTT(30)
<1>3. Cardinality(held[PC]) <= accepted[PC] /\ Cardinality(held[PC]) \in Nat
  BY <1>1, <1>2, FS_Subset, FS_CardinalityType
<1>4. ~(Cardinality(held[PC]) < BufferSize)
  BY SameCardinality DEF Link!HasRoom
<1> QED
  BY <1>1, <1>3, <1>4, Ends

LEMMA BridgeTransmitKeeps ==
  ASSUME NEW S, NEW M, NEW Q, NEW A, NEW W, Carries(S, M, Q, A, W), BridgeTransmit
  PROVE  Carries(S, M, Q, A, W)'
<1> DEFINE ms == Messages(toCc)
           w == wire[PC]
           m == ms[1]
           Room == Link!HasRoom(PC)
           lost == m # <<>> /\ ~Room
<1>1. /\ bridge = "drain" /\ ms # <<>> /\ toCc' = WithoutFirst(toCc)
      /\ IF m = <<>> THEN UNCHANGED <<link, wire>> ELSE Transmitted(PC, m)
      /\ dropped' = dropped + Count(lost)
      /\ unanswered' = unanswered + Count(lost /\ Asks(m))
      /\ UNCHANGED <<fromCc, bridge, board, turn, pins, view, sent, asked, stale, changes>>
  BY DEF BridgeTransmit
<1>2. Alphabet(S, M, Q, A, W) /\ Files(S, M, W) /\ Wires(M, W) /\ Queue!QueueInv /\ Turns
  BY DEF Carries
<1>3. ms \in Seq(M) /\ w \in Seq(M)
  BY <1>2, OnWires DEF Files
<1>4. m \in M /\ Tail(ms) \in Seq(M) /\ Len(Tail(ms)) = Len(ms) - 1 /\ Len(ms) \in Nat
  <2> HIDE DEF ms
  <2> QED
    BY <1>1, <1>3, TailIs DEF m
<1>5. toCc' \in Seq(S) /\ Whole(toCc') /\ Messages(toCc') = Tail(ms)
  BY <1>1, <1>2, FirstIsRead DEF Files
<1>6. Files(S, M, W)'
  BY <1>1, <1>2, <1>4, <1>5 DEF Files
<1>7. \/ /\ m = <<>> /\ UNCHANGED <<link, wire>>
      \/ /\ m # <<>> /\ Room /\ open' = open
         /\ accepted' = [accepted EXCEPT ![PC] = accepted[PC] + 1]
         /\ wire' = [wire EXCEPT ![PC] = Append(w, m)]
      \/ lost /\ UNCHANGED <<link, wire>>
  <2> HIDE DEF m
  <2> QED
    BY <1>1, <1>2, TransmittedIs, Ends
<1>8. Queue!QueueInv' /\ Wires(M, W)' /\ open' = open
  <2> HIDE DEF m
  <2>1. CASE m = <<>>
    BY <1>1, <1>2, <2>1, QueueKept DEF Wires, link
  <2>2. CASE m # <<>>
    <3>1. Transmitted(PC, m)
      BY <1>1, <2>2
    <3>2. PC \in Devices /\ PC # BOARD /\ m \in M \ {<<>>}
      BY <1>4, <2>2, Ends
    <3>3. Wires(M, W)'
      BY <1>4, <3>1, <3>2, TransmittedKeepsWires
    <3> QED
      BY <1>2, <3>1, <3>2, <3>3, TransmittedIs
  <2> QED
    BY <2>1, <2>2
<1>9. Modules(S)' /\ Turns' /\ Alphabet(S, M, Q, A, W)' /\ (view \in Views(M))'
  BY <1>1, <1>8 DEF Carries, Modules, Turns, Alphabet
<1>10. PassedOn'
  <2>1. /\ PassedOn /\ sent' = sent /\ Len(Messages(toCc')) = Len(ms) - 1
        /\ accepted \in [Devices -> Nat]
    BY <1>1, <1>2, <1>4, <1>5 DEF Carries, Queue!QueueInv, Queue!QueueTypes
  <2>2. CASE lost
    <3>1. dropped' = dropped + 1 /\ accepted' = accepted
      BY <1>1, <1>7, <2>2 DEF Count, link
    <3>2. BufferSize <= accepted[PC]
      BY <1>1, <1>2, <2>2, FullHasAccepted DEF Turns
    <3>3. Len(ms) >= 1
      BY <1>4, <2>1, EmptySeq, LenProperties
    <3> HIDE DEF ms, lost
    <3> QED
      BY <1>4, <2>1, <3>1, <3>2, <3>3, Ends DEF PassedOn, BurstIsCarried, ms
  <2>3. CASE ~lost
    <3>1. dropped' = dropped
      <4>1. Count(lost) = 0
        BY <2>3 DEF Count
      <4>2. dropped \in Nat
        BY <2>1 DEF PassedOn
      <4> QED
        BY <1>1, <4>1, <4>2
    <3>2. accepted'[PC] \in {accepted[PC], accepted[PC] + 1} /\ accepted[PC] \in Nat
      BY <1>7, <2>1, <2>3, Ends DEF link
    <3> HIDE DEF ms, lost
    <3> QED
      BY <1>4, <2>1, <3>1, <3>2, Ends DEF PassedOn, BurstIsCarried, ms
  <2> QED
    BY <2>2, <2>3
<1>11. Ledger(Q, A)'
  <2>1. Ledger(Q, A) /\ Numbers(Q, A)
    BY LedgerNumbers DEF Carries
  <2>2. m \in Q <=> Asks(m)
    BY <1>2, <1>4 DEF Alphabet
  <2>3. /\ Hits(Tail(ms), Q) \in Nat
        /\ m \in Q => Hits(ms, Q) = Hits(Tail(ms), Q) + 1
        /\ m \notin Q => Hits(ms, Q) = Hits(Tail(ms), Q)
    <3> HIDE DEF ms
    <3> QED
      BY <1>1, <1>3, HitsTail DEF m
  <2>4. /\ Hits(w, Q) \in Nat
        /\ m \in Q => Hits(Append(w, m), Q) = Hits(w, Q) + 1
        /\ m \notin Q => Hits(Append(w, m), Q) = Hits(w, Q)
    <3> HIDE DEF w, m
    <3> QED
      BY <1>3, <1>4, HitsAppend
  <2>5. /\ Waiting(Q) = Hits(ms, Q) + Hits(w, Q)
        /\ Waiting(Q)' = Hits(Tail(ms), Q) + Hits(wire'[PC], Q)
    BY <1>5 DEF Waiting
  <2>6. Waiting(Q)' + unanswered' = Waiting(Q) + unanswered /\ Waiting(Q)' \in Nat
        /\ unanswered' \in Nat
    <3>0. unanswered \in Nat
      BY <2>1 DEF Ledger
    <3>1. CASE m = <<>>
      <4>1. ~Asks(m) /\ ~lost /\ wire' = wire
        BY <1>7, <3>1 DEF Asks
      <4>2. unanswered' = unanswered
        BY <1>1, <3>0, <4>1 DEF Count
      <4> HIDE DEF ms, m, w, lost
      <4> QED
        BY <2>2, <2>3, <2>4, <2>5, <3>0, <4>1, <4>2 DEF w
    <3>2. CASE m # <<>> /\ ~lost
      <4>1. wire'[PC] = Append(w, m)
        BY <1>2, <1>7, <3>2, Ends DEF Wires
      <4>2. unanswered' = unanswered
        BY <1>1, <3>0, <3>2 DEF Count
      <4> HIDE DEF ms, m, w, lost
      <4> QED
        BY <2>2, <2>3, <2>4, <2>5, <3>0, <4>1, <4>2
    <3>3. CASE lost
      <4>1. wire' = wire
        BY <1>7, <3>3
      <4>2. /\ Asks(m) => unanswered' = unanswered + 1
            /\ ~Asks(m) => unanswered' = unanswered
        BY <1>1, <3>0, <3>3 DEF Count
      <4> HIDE DEF ms, m, w, lost
      <4> QED
        BY <2>2, <2>3, <2>4, <2>5, <3>0, <4>1, <4>2 DEF w
    <3> QED
      BY <3>1, <3>2, <3>3
  <2>7. Coming(A)' = Coming(A)
    <3>1. wire'[BOARD] = wire[BOARD]
      BY <1>2, <1>7, Ends DEF Wires
    <3> QED
      BY <1>1, <3>1 DEF Coming
  <2>8. Taken' = Taken /\ view' = view /\ asked' = asked
    BY <1>1 DEF Taken
  <2> QED
    BY <2>1, <2>6, <2>7, <2>8 DEF Ledger, Numbers
<1> QED
  BY <1>6, <1>8, <1>9, <1>10, <1>11 DEF Carries

LEMMA BridgeTurnsKeep ==
  ASSUME NEW S, NEW M, NEW Q, NEW A, NEW W, Carries(S, M, Q, A, W),
         BridgeReceiveNothing \/ BridgeEndOfFile
  PROVE  Carries(S, M, Q, A, W)'
<1>1. /\ UNCHANGED <<toCc, fromCc, link, wire, board, turn, pins, view, ghosts>>
      /\ bridge' \in {"tick", "drain"}
      /\ bridge' = "drain" => open[PC]
  BY DEF BridgeReceiveNothing, BridgeEndOfFile
<1>2. Queue!QueueInv' /\ open' = open /\ accepted' = accepted /\ delivered' = delivered
  BY <1>1, QueueKept DEF Carries, link
<1>3. Turns' /\ Alphabet(S, M, Q, A, W)'
  BY <1>1, <1>2 DEF Carries, Turns, Alphabet
<1>4. Files(S, M, W)' /\ Wires(M, W)' /\ Modules(S)' /\ (view \in Views(M))'
  BY <1>1, <1>2 DEF Carries, Files, Wires, Modules
<1>5. Ledger(Q, A)' /\ PassedOn'
  BY <1>1, <1>2 DEF Carries, Ledger, Waiting, Taken, Coming, PassedOn, BurstIsCarried, ghosts
<1> QED
  BY <1>2, <1>3, <1>4, <1>5 DEF Carries

LEMMA SerialReceiveNothingKeeps ==
  ASSUME NEW S, NEW M, NEW Q, NEW A, NEW W, Carries(S, M, Q, A, W), SerialReceiveNothing
  PROVE  Carries(S, M, Q, A, W)'
<1>1. /\ UNCHANGED <<toCc, fromCc, bridge, link, wire, board, pins, view, ghosts>>
      /\ turn = "serial" /\ turn' = "bank"
  BY DEF SerialReceiveNothing
<1>2. Queue!QueueInv' /\ open' = open /\ accepted' = accepted /\ delivered' = delivered
  BY <1>1, QueueKept DEF Carries, link
<1>3. Turns' /\ Alphabet(S, M, Q, A, W)'
  BY <1>1, <1>2 DEF Carries, Turns, Alphabet
<1>4. Files(S, M, W)' /\ Wires(M, W)' /\ Modules(S)' /\ (view \in Views(M))'
  BY <1>1, <1>2 DEF Carries, Files, Wires, Modules
<1>5. Ledger(Q, A)' /\ PassedOn'
  BY <1>1, <1>2 DEF Carries, Ledger, Waiting, Taken, Coming, PassedOn, BurstIsCarried, ghosts
<1> QED
  BY <1>2, <1>3, <1>4, <1>5 DEF Carries

LEMMA PinChangeKeeps ==
  ASSUME NEW S, NEW M, NEW Q, NEW A, NEW W, Carries(S, M, Q, A, W),
         PinChange \/ UNCHANGED svars
  PROVE  Carries(S, M, Q, A, W)'
<1>1. UNCHANGED <<toCc, fromCc, bridge, link, wire, board, turn, view,
                  sent, asked, dropped, unanswered>>
  BY DEF PinChange, svars, ghosts
<1>2. Queue!QueueInv' /\ open' = open /\ accepted' = accepted /\ delivered' = delivered
  BY <1>1, QueueKept DEF Carries, link
<1>3. Turns' /\ Alphabet(S, M, Q, A, W)'
  BY <1>1, <1>2 DEF Carries, Turns, Alphabet
<1>4. Files(S, M, W)' /\ Wires(M, W)' /\ Modules(S)' /\ (view \in Views(M))'
  BY <1>1, <1>2 DEF Carries, Files, Wires, Modules
<1>5. Ledger(Q, A)' /\ PassedOn'
  BY <1>1, <1>2 DEF Carries, Ledger, Waiting, Taken, Coming, PassedOn, BurstIsCarried
<1> QED
  BY <1>2, <1>3, <1>4, <1>5 DEF Carries

(* A board that keeps its form, with what its positions are then. *)
LEMMA ModulesKept ==
  ASSUME NEW S, NEW M, NEW Q, NEW A, NEW W, Carries(S, M, Q, A, W),
         IsBoard(board'), NEW e
  PROVE  \E S2, M2, Q2, A2, W2 :
           /\ Carries(S2, M2, Q2, A2, W2) /\ e \in S2
           /\ board'.positions \in [Addresses -> S2]
<1> DEFINE S2 == S \cup {e} \cup {board'.positions[a] : a \in Addresses}
<1>1. PICK M2, Q2, A2, W2 : Carries(S2, M2, Q2, A2, W2)
  <2>1. S \subseteq S2
    OBVIOUS
  <2> HIDE DEF S2
  <2> QED
    BY <2>1, Widen
<1>2. board'.positions \in [Addresses -> S2]
  BY DEF IsBoard
<1> QED
  BY <1>1, <1>2

LEMMA BoardIs ==
  ASSUME NEW S, NEW M, NEW Q, NEW A, NEW W, Carries(S, M, Q, A, W)
  PROVE  IsBoard(board) /\ board.positions \in [Addresses -> S] /\ board.request \in BOOLEAN
  BY DEF Carries, Modules, IsBoard, Boards

LEMMA SerialReceiveKeeps ==
  ASSUME NEW S, NEW M, NEW Q, NEW A, NEW W, Carries(S, M, Q, A, W), SerialReceive,
         board'.positions \in [Addresses -> S]
  PROVE  Carries(S, M, Q, A, W)'
<1> DEFINE w == wire[PC]
           m == w[1]
           N == M \ {<<>>}
<1>1. /\ turn = "serial" /\ Received(BOARD, PC) /\ board' = Dispatch(board, m)
      /\ turn' = "bank" /\ UNCHANGED <<toCc, fromCc, bridge, pins, view, ghosts>>
  BY DEF SerialReceive
<1>2. Alphabet(S, M, Q, A, W) /\ Wires(M, W) /\ Queue!QueueInv /\ Modules(S)
  BY DEF Carries
<1>3. /\ Queue!QueueInv' /\ open' = open /\ accepted' = accepted
      /\ w # <<>>
      /\ delivered' = [delivered EXCEPT ![BOARD] = delivered[BOARD] + 1]
      /\ wire' = [wire EXCEPT ![PC] = Tail(w)]
  BY <1>1, <1>2, Ends, ReceivedIs
<1>4. w \in Seq(N) /\ w \in Seq(M)
  BY <1>2, OnWires DEF Wires
<1>5. m \in N /\ Tail(w) \in Seq(N) /\ Len(Tail(w)) = Len(w) - 1 /\ Len(w) \in Nat
  <2> HIDE DEF w, N
  <2> QED
    BY <1>3, <1>4, TailIs DEF m
<1>6. wire'[BOARD] = wire[BOARD] /\ wire'[PC] = Tail(w) /\ wire' = [d \in Devices |-> wire'[d]]
  BY <1>2, <1>3, Ends DEF Wires
<1>7. Wires(M, W)'
  <2>1. delivered'[BOARD] = delivered[BOARD] + 1 /\ delivered'[PC] = delivered[PC]
    BY <1>2, <1>3, Ends DEF Queue!QueueInv, Queue!QueueTypes
  <2>2. accepted[PC] \in Nat /\ delivered[BOARD] \in Nat
    BY <1>2, Ends DEF Queue!QueueInv, Queue!QueueTypes
  <2> DEFINE rest == Tail(w)
  <2>3. Len(w) = accepted[PC] - delivered[BOARD] /\ Len(rest) = Len(w) - 1
    BY <1>2, <1>5 DEF Wires
  <2>4. rest \in Seq(N) /\ wire'[PC] = rest
    BY <1>5, <1>6
  <2> HIDE DEF rest, w
  <2>5. Len(rest) = accepted'[PC] - delivered'[BOARD]
    BY <1>3, <2>1, <2>2, <2>3
  <2>6. wire[BOARD] \in Seq(W) /\ Len(wire[BOARD]) = accepted'[BOARD] - delivered'[PC]
    BY <1>2, <1>3, <2>1 DEF Wires
  <2> QED
    BY <1>6, <2>4, <2>5, <2>6 DEF Wires
<1>8. /\ IsBoard(board')
      /\ board'.request = IF Type(m) = MOTOR_REQUEST_REPORT THEN TRUE ELSE board.request
  <2>1. IsBoard(board)
    BY BoardIs
  <2> HIDE DEF m
  <2> QED
    BY <1>1, <2>1, DispatchIs
<1>9. Modules(S)'
  BY <1>1, <1>8 DEF Modules, IsBoard
<1>10. /\ Files(S, M, W)' /\ Turns' /\ Alphabet(S, M, Q, A, W)' /\ (view \in Views(M))'
       /\ PassedOn'
  BY <1>1, <1>3 DEF Carries, Files, Turns, Alphabet, PassedOn, BurstIsCarried, ghosts
<1>11. Ledger(Q, A)'
  <2>1. Ledger(Q, A) /\ Numbers(Q, A)
    BY LedgerNumbers DEF Carries
  <2>2. /\ m \in Q => Taken' = 1
        /\ m \notin Q => Taken' = 0
        /\ Taken = 0
    <3>1. m \in Q <=> Type(m) = MOTOR_REQUEST_REPORT
      BY <1>2, <1>5 DEF Alphabet, Asks
    <3>2. board.request = FALSE
      BY <1>1, <1>2, BoardIs DEF Modules
    <3> HIDE DEF m
    <3> QED
      BY <1>8, <3>1, <3>2 DEF Taken, Count
  <2>3. /\ Hits(Tail(w), Q) \in Nat
        /\ m \in Q => Hits(w, Q) = Hits(Tail(w), Q) + 1
        /\ m \notin Q => Hits(w, Q) = Hits(Tail(w), Q)
    <3> HIDE DEF w
    <3> QED
      BY <1>3, <1>4, HitsTail DEF m
  <2>4. /\ Waiting(Q) = Hits(Messages(toCc), Q) + Hits(w, Q)
        /\ Waiting(Q)' = Hits(Messages(toCc), Q) + Hits(Tail(w), Q)
        /\ Hits(Messages(toCc), Q) \in Nat
    <3>1. Hits(Messages(toCc), Q) \in Nat
      BY HitsType DEF Carries, Files
    <3> QED
      BY <1>1, <1>6, <3>1 DEF Waiting
  <2>5. Waiting(Q)' + Taken' = Waiting(Q) + Taken /\ Waiting(Q)' \in Nat /\ Taken' \in Nat
    <3> HIDE DEF m, w
    <3> QED
      BY <2>2, <2>3, <2>4
  <2>6. Coming(A)' = Coming(A) /\ view' = view /\ unanswered' = unanswered /\ asked' = asked
    BY <1>1, <1>6 DEF Coming, ghosts
  <2> QED
    BY <2>1, <2>5, <2>6 DEF Ledger, Numbers
<1> QED
  BY <1>3, <1>7, <1>9, <1>10, <1>11 DEF Carries

(* What the serial module does with a report r. *)
LEMMA SerialAcceptsIs ==
  ASSUME NEW S, NEW M, NEW Q, NEW A, NEW W, Carries(S, M, Q, A, W),
         NEW r, SerialAccepts(r), r # <<>> => r \in W /\ ForPC(r)
  PROVE  /\ Queue!QueueInv' /\ Wires(M, W)' /\ open' = open
         /\ accepted'[PC] = accepted[PC] /\ wire'[PC] = wire[PC]
         /\ wire'[BOARD] = IF r # <<>> /\ Link!HasRoom(BOARD)
                             THEN Append(wire[BOARD], r) ELSE wire[BOARD]
<1>1. Queue!QueueInv /\ Wires(M, W) /\ Alphabet(S, M, Q, A, W)
  BY DEF Carries
<1>2. CASE r = <<>>
  <2>1. UNCHANGED <<link, wire>>
    BY <1>2 DEF SerialAccepts
  <2>2. Queue!QueueInv'
    BY <1>1, <2>1, QueueKept
  <2> QED
    BY <1>1, <1>2, <2>1, <2>2 DEF Wires, link
<1>3. CASE r # <<>>
  <2>1. Transmitted(BOARD, r) /\ r \in W
    BY <1>3 DEF SerialAccepts
  <2>2. r \in M \ {<<>>} /\ BOARD \in Devices
    BY <1>1, <1>3, <2>1, Ends DEF Alphabet
  <2>3. Wires(M, W)'
    BY <2>1, <2>2, TransmittedKeepsWires
  <2>4. /\ Queue!QueueInv'
        /\ open' = open
        /\ \/ /\ Link!HasRoom(BOARD)
              /\ accepted' = [accepted EXCEPT ![BOARD] = accepted[BOARD] + 1]
              /\ wire' = [wire EXCEPT ![BOARD] = Append(wire[BOARD], r)]
           \/ /\ ~Link!HasRoom(BOARD)
              /\ UNCHANGED <<link, wire>>
    BY <1>1, <2>1, <2>2, TransmittedIs
  <2>5. accepted \in [Devices -> Nat] /\ wire = [d \in Devices |-> wire[d]]
    BY <1>1 DEF Queue!QueueInv, Queue!QueueTypes, Wires
  <2>6. CASE Link!HasRoom(BOARD)
    BY <1>3, <2>3, <2>4, <2>5, <2>6, Ends
  <2>7. CASE ~Link!HasRoom(BOARD)
    BY <1>3, <2>3, <2>4, <2>7 DEF link
  <2> QED
    BY <2>6, <2>7
<1> QED
  BY <1>2, <1>3

LEMMA BankTickKeeps ==
  ASSUME NEW S, NEW M, NEW Q, NEW A, NEW W, Carries(S, M, Q, A, W), BankTick
  PROVE  Carries(S, M, Q, A, W)'
<1> DEFINE r == BankReport(board)
           w == wire[BOARD]
           Room == Link!HasRoom(BOARD)
           missed == board.request /\ (r = <<>> \/ ~Room)
<1>1. /\ turn = "bank" /\ SerialAccepts(r) /\ unanswered' = unanswered + Count(missed)
      /\ board' = BankTicked(board) /\ turn' = "read"
      /\ UNCHANGED <<toCc, fromCc, bridge, pins, view, sent, asked, dropped, stale, changes>>
  BY DEF BankTick
<1>2. Alphabet(S, M, Q, A, W) /\ Wires(M, W)
  BY DEF Carries
<1>3. IsBoard(board) /\ board.positions \in [Addresses -> S] /\ board.request \in BOOLEAN
  BY BoardIs
<1>4. r # <<>> => r \in W /\ r \in A /\ ForPC(r) /\ board.request
  <2> DEFINE b == board
  <2>1. b.positions \in [Addresses -> S] /\ r = BankReport(b)
    BY <1>3
  <2> HIDE DEF b, r
  <2>2. r # <<>> => r \in W /\ r \in A /\ ForPC(r) /\ b.request
    BY <1>2, <2>1, BankReportIs
  <2> QED
    BY <2>2 DEF b
<1>5. /\ Queue!QueueInv' /\ Wires(M, W)' /\ open' = open
      /\ accepted'[PC] = accepted[PC] /\ wire'[PC] = wire[PC]
      /\ wire'[BOARD] = IF r # <<>> /\ Room THEN Append(w, r) ELSE w
  <2> HIDE DEF r
  <2> QED
    BY <1>1, <1>4, SerialAcceptsIs
<1>6. IsBoard(board') /\ board'.request = FALSE /\ board'.positions = board.positions
  BY <1>1, <1>3, BankTickedIs
<1>7. Modules(S)'
  BY <1>1, <1>3, <1>6 DEF Modules, IsBoard
<1>8. /\ Files(S, M, W)' /\ Turns' /\ Alphabet(S, M, Q, A, W)' /\ (view \in Views(M))'
      /\ PassedOn'
  BY <1>1, <1>5 DEF Carries, Files, Turns, Alphabet, PassedOn, BurstIsCarried
<1>9. Ledger(Q, A)'
  <2>1. Ledger(Q, A) /\ Numbers(Q, A)
    BY LedgerNumbers DEF Carries
  <2>2. Waiting(Q)' = Waiting(Q) /\ view' = view /\ asked' = asked
    BY <1>1, <1>5 DEF Waiting
  <2>3. Taken' = 0
    BY <1>6 DEF Taken, Count
  <2>4. /\ Coming(A) = Hits(w, A) + Hits(Messages(fromCc), A)
        /\ Coming(A)' = Hits(wire'[BOARD], A) + Hits(Messages(fromCc), A)
        /\ Hits(Messages(fromCc), A) \in Nat /\ Hits(w, A) \in Nat
    <3>1. Hits(Messages(fromCc), A) \in Nat /\ Hits(w, A) \in Nat
      BY <1>2, HitsType, OnWires DEF Carries, Files
    <3> QED
      BY <1>1, <3>1 DEF Coming
  <2>5. /\ Coming(A)' + unanswered' = Coming(A) + Taken + unanswered
        /\ Coming(A)' \in Nat /\ unanswered' \in Nat
    <3>0. unanswered \in Nat
      BY <2>1 DEF Ledger
    <3>1. CASE r # <<>> /\ Room
      <4>1. Taken = 1 /\ Count(missed) = 0
        BY <1>4, <3>1 DEF Taken, Count
      <4>2. Hits(wire'[BOARD], A) = Hits(w, A) + 1
        <5>1. wire'[BOARD] = Append(w, r) /\ w \in Seq(W) /\ r \in W /\ r \in A
          BY <1>2, <1>4, <1>5, <3>1, OnWires
        <5> HIDE DEF r, w
        <5> QED
          BY <5>1, HitsAppend
      <4> HIDE DEF missed, w
      <4> QED
        BY <1>1, <2>4, <3>0, <4>1, <4>2
    <3>2. CASE ~(r # <<>> /\ Room)
      <4>1. Count(missed) = Taken /\ Taken \in Nat
        BY <3>2, <1>3 DEF Taken, Count
      <4>2. wire'[BOARD] = w
        BY <1>5, <3>2
      <4> HIDE DEF missed, w
      <4> QED
        BY <1>1, <2>4, <3>0, <4>1, <4>2
    <3> QED
      BY <3>1, <3>2
  <2> QED
    BY <2>1, <2>2, <2>3, <2>5 DEF Ledger, Numbers
<1> QED
  BY <1>5, <1>7, <1>8, <1>9 DEF Carries

LEMMA ReadTickKeeps ==
  ASSUME NEW S, NEW M, NEW Q, NEW A, NEW W, Carries(S, M, Q, A, W), ReadTick,
         Bitmap(Polled(board, pins)) \in S, board'.positions \in [Addresses -> S]
  PROVE  Carries(S, M, Q, A, W)'
<1> DEFINE r == ReadReport(board, pins)
           w == wire[BOARD]
           Room == Link!HasRoom(BOARD)
<1>1. /\ turn = "read" /\ SerialAccepts(r)
      /\ board' = ReadTicked(board, pins) /\ turn' = "serial"
      /\ UNCHANGED <<toCc, fromCc, bridge, pins, view, sent, asked, dropped, unanswered,
                     changes>>
  BY DEF ReadTick
<1>2. Alphabet(S, M, Q, A, W) /\ Wires(M, W)
  BY DEF Carries
<1>3. IsBoard(board)
  BY BoardIs
<1>4. r # <<>> => r \in W /\ r \notin A /\ ForPC(r)
  <2> DEFINE b == board
             high == pins
  <2>1. Bitmap(Polled(b, high)) \in S /\ r = ReadReport(b, high)
    OBVIOUS
  <2> HIDE DEF b, high, r
  <2> QED
    BY <1>2, <2>1, ReadReportIs
<1>5. /\ Queue!QueueInv' /\ Wires(M, W)' /\ open' = open
      /\ accepted'[PC] = accepted[PC] /\ wire'[PC] = wire[PC]
      /\ wire'[BOARD] = IF r # <<>> /\ Room THEN Append(w, r) ELSE w
  <2> HIDE DEF r
  <2> QED
    BY <1>1, <1>4, SerialAcceptsIs
<1>6. IsBoard(board') /\ board'.request = board.request
  BY <1>1, <1>3, ReadTickedIs
<1>7. Modules(S)'
  <2>1. board.request = FALSE
    BY <1>1, BoardIs DEF Carries, Modules
  <2> QED
    BY <1>6, <2>1 DEF Modules, IsBoard
<1>8. /\ Files(S, M, W)' /\ Turns' /\ Alphabet(S, M, Q, A, W)' /\ (view \in Views(M))'
      /\ PassedOn'
  BY <1>1, <1>5 DEF Carries, Files, Turns, Alphabet, PassedOn, BurstIsCarried
<1>9. Ledger(Q, A)'
  <2>1. Ledger(Q, A) /\ Numbers(Q, A)
    BY LedgerNumbers DEF Carries
  <2>2. /\ Waiting(Q)' = Waiting(Q) /\ view' = view /\ asked' = asked
        /\ Taken' = Taken /\ unanswered' = unanswered
    BY <1>1, <1>5, <1>6 DEF Waiting, Taken
  <2>3. Hits(wire'[BOARD], A) = Hits(w, A)
    <3>1. CASE r # <<>> /\ Room
      <4>1. wire'[BOARD] = Append(w, r) /\ w \in Seq(W) /\ r \in W /\ r \notin A
        BY <1>2, <1>4, <1>5, <3>1, OnWires
      <4> HIDE DEF r, w
      <4> QED
        BY <4>1, HitsAppend
    <3>2. CASE ~(r # <<>> /\ Room)
      BY <1>5, <3>2
    <3> QED
      BY <3>1, <3>2
  <2>4. Coming(A)' = Coming(A)
    BY <1>1, <2>3 DEF Coming
  <2> QED
    BY <2>1, <2>2, <2>4 DEF Ledger
<1> QED
  BY <1>5, <1>7, <1>8, <1>9 DEF Carries

-----------------------------------------------------------------------------
LEMMA NextSystem ==
  ASSUME SystemInv, [Next]_svars
  PROVE  SystemInv'
<1>1. PICK S, M, Q, A, W : Carries(S, M, Q, A, W)
  BY DEF SystemInv
<1>2. (\E S2, M2, Q2, A2, W2 : Carries(S2, M2, Q2, A2, W2)') => SystemInv'
  BY DEF SystemInv
<1>3. CASE \E d \in Devices : LinkTick(d)
  BY <1>1, <1>2, <1>3, LinkTickKeeps
<1>4. CASE Send
  BY <1>1, <1>2, <1>4, SendKeeps
<1>5. CASE See
  BY <1>1, <1>2, <1>5, SeeKeeps
<1>6. CASE BridgeReceive
  BY <1>1, <1>2, <1>6, BridgeReceiveKeeps
<1>7. CASE BridgeReceiveNothing \/ BridgeEndOfFile
  BY <1>1, <1>2, <1>7, BridgeTurnsKeep
<1>8. CASE BridgeTransmit
  BY <1>1, <1>2, <1>8, BridgeTransmitKeeps
<1>9. CASE SerialReceive
  <2> DEFINE m == wire[PC][1]
  <2>1. IsBoard(board')
    <3>1. IsBoard(board) /\ board' = Dispatch(board, m)
      BY <1>1, <1>9, BoardIs DEF SerialReceive
    <3> HIDE DEF m
    <3> QED
      BY <3>1, DispatchIs
  <2>2. PICK S2, M2, Q2, A2, W2 :
           /\ Carries(S2, M2, Q2, A2, W2)
           /\ board'.positions \in [Addresses -> S2]
    BY <1>1, <2>1, ModulesKept
  <2>3. Carries(S2, M2, Q2, A2, W2)'
    BY <1>9, <2>2, SerialReceiveKeeps
  <2> QED
    BY <1>2, <2>3
<1>10. CASE SerialReceiveNothing
  BY <1>1, <1>2, <1>10, SerialReceiveNothingKeeps
<1>11. CASE BankTick
  BY <1>1, <1>2, <1>11, BankTickKeeps
<1>12. CASE ReadTick
  <2> DEFINE e == Bitmap(Polled(board, pins))
  <2>1. IsBoard(board')
    BY <1>1, <1>12, BoardIs, ReadTickedIs DEF ReadTick
  <2>2. PICK S2, M2, Q2, A2, W2 :
           /\ Carries(S2, M2, Q2, A2, W2) /\ e \in S2
           /\ board'.positions \in [Addresses -> S2]
    <3> HIDE DEF e
    <3> QED
      BY <1>1, <2>1, ModulesKept
  <2>3. Carries(S2, M2, Q2, A2, W2)'
    BY <1>12, <2>2, ReadTickKeeps
  <2> QED
    BY <1>2, <2>3
<1>13. CASE PinChange \/ UNCHANGED svars
  BY <1>1, <1>2, <1>13, PinChangeKeeps
<1> QED
  BY <1>3, <1>4, <1>5, <1>6, <1>7, <1>8, <1>9, <1>10, <1>11, <1>12, <1>13
     DEF Next, Bridge, Round

(* In every state there is a set of values that all messages consist of    *)
(* for which the system carries them: the inductive invariant.             *)
THEOREM SystemCorrect == Spec => []SystemInv
<1>1. Init => SystemInv
  BY InitSystem
<1>2. SystemInv /\ [Next]_svars => SystemInv'
  BY NextSystem
<1> QED
  BY <1>1, <1>2, PTL DEF Spec

-----------------------------------------------------------------------------
(* Each end holds what it must and no more than it can, for every number   *)
(* of messages a writer holds and every command and board: the messages on *)
(* the link are those accepted and not received, pins that were high when  *)
(* polled are watched, a report has a value per motor.                     *)
THEOREM SystemTypeCorrect == Spec => []TypeOK
<1>1. SystemInv => TypeOK
  <2> SUFFICES ASSUME NEW S, NEW M, NEW Q, NEW A, NEW W, Carries(S, M, Q, A, W)
               PROVE  TypeOK
    BY DEF SystemInv
  <2>1. Turns /\ Modules(S) /\ Queue!QueueInv /\ Files(S, M, W) /\ Wires(M, W)
    BY DEF Carries
  <2>2. ASSUME NEW d \in Devices
        PROVE  /\ Cardinality(held[d]) <= BufferSize
               /\ Len(wire[d]) = accepted[d] - delivered[Link!Other(d)]
    <3>1. Cardinality(held[d]) <= BufferSize
      BY <2>1, SameCardinality DEF Queue!QueueInv, Queue!HoldsUndelivered
    <3>2. d \in {PC, BOARD}
      BY Ends
    <3>3. Len(wire[d]) = accepted[d] - delivered[Link!Other(d)]
      BY <2>1, <3>2, Ends DEF Wires
    <3> QED
      BY <3>1, <3>3
  <2>3. ASSUME NEW m \in Range(Messages(fromCc) \o wire[BOARD])
        PROVE  WellFormed(m)
    <3> DEFINE both == Messages(fromCc) \o wire[BOARD]
    <3>1. both \in Seq(W)
      BY <2>1, ConcatProperties DEF Files, Wires
    <3>2. PICK i \in DOMAIN both : m = both[i]
      BY DEF Range
    <3>3. both[i] \in W
      <4> HIDE DEF both
      <4> QED
        BY <3>1, <3>2, LenProperties, ElementOfSeq
    <3> QED
      BY <3>2, <3>3 DEF Carries, Alphabet
  <2>4. \A m \in Range(Messages(fromCc) \o wire[BOARD]) :
          IF Type(m) = MOTOR_REPORT THEN Len(m) = 1 + NumMotors ELSE Len(m) = 2
    BY <2>3 DEF WellFormed
  <2>5. board.states \subseteq board.watched
    BY <2>1 DEF Modules
  <2> QED
    BY <2>1, <2>2, <2>4, <2>5 DEF TypeOK, Turns
<1> QED
  BY <1>1, SystemCorrect, PTL

LEMMA HitsAre ==
  ASSUME NEW M, NEW s \in Seq(M), NEW Q, Q = {m \in M : Asks(m)},
         NEW A, A = {m \in M : Type(m) = MOTOR_REPORT}
  PROVE  /\ Cardinality({i \in DOMAIN s : Asks(s[i])}) = Hits(s, Q)
         /\ Cardinality({i \in DOMAIN s : Type(s[i]) = MOTOR_REPORT}) = Hits(s, A)
<1>1. \A i \in DOMAIN s : s[i] \in M
  BY LenProperties, ElementOfSeq
<1>2. {i \in DOMAIN s : Asks(s[i])} = {i \in DOMAIN s : s[i] \in Q}
  BY <1>1
<1>3. {i \in DOMAIN s : Type(s[i]) = MOTOR_REPORT} = {i \in DOMAIN s : s[i] \in A}
  BY <1>1
<1> QED
  BY <1>2, <1>3 DEF Hits

(* A request is in the file, on the link, with the bank, answered by a     *)
(* report on its way, answered, or lost at one of the places where the     *)
(* code loses messages: whatever is sent, and however the program, bridge, *)
(* link and modules take turns.                                            *)
THEOREM SystemAccounts == Spec => []RequestsAccounted
<1>1. SystemInv => RequestsAccounted
  <2> SUFFICES ASSUME NEW S, NEW M, NEW Q, NEW A, NEW W, Carries(S, M, Q, A, W)
               PROVE  RequestsAccounted
    BY DEF SystemInv
  <2>1. /\ Alphabet(S, M, Q, A, W) /\ Files(S, M, W) /\ Wires(M, W)
        /\ Ledger(Q, A) /\ Numbers(Q, A)
    BY LedgerNumbers DEF Carries
  <2>2. Q = {m \in M : Asks(m)} /\ A = {m \in M : Type(m) = MOTOR_REPORT}
    BY <2>1 DEF Alphabet
  <2>3. /\ Messages(toCc) \in Seq(M) /\ wire[PC] \in Seq(M)
        /\ Messages(fromCc) \in Seq(M) /\ wire[BOARD] \in Seq(M)
    <3>1. W \subseteq M
      BY <2>1 DEF Alphabet
    <3>2. Seq(W) \subseteq Seq(M)
      BY <3>1, SeqMonotonic
    <3> QED
      BY <2>1, <3>2, OnWires DEF Files
  <2> DEFINE Asking(seq) == Cardinality({i \in DOMAIN seq : Asks(seq[i])})
             Answering(seq) == Cardinality({i \in DOMAIN seq : Type(seq[i]) = MOTOR_REPORT})
  <2>4. \A s \in Seq(M) : Asking(s) = Hits(s, Q) /\ Answering(s) = Hits(s, A)
    BY <2>2, HitsAre, ZenonT(60)
  <2>5. /\ Asking(Messages(toCc)) = Hits(Messages(toCc), Q)
        /\ Asking(wire[PC]) = Hits(wire[PC], Q)
        /\ Answering(wire[BOARD]) = Hits(wire[BOARD], A)
        /\ Answering(Messages(fromCc)) = Hits(Messages(fromCc), A)
    BY <2>3, <2>4
  <2>6. /\ Hits(Messages(toCc), Q) \in Nat /\ Hits(wire[PC], Q) \in Nat
        /\ Hits(wire[BOARD], A) \in Nat /\ Hits(Messages(fromCc), A) \in Nat
    BY <2>3, HitsType
  <2> HIDE DEF Asking, Answering
  <2>7. asked = Asking(Messages(toCc)) + Asking(wire[PC]) + Taken
                + Answering(wire[BOARD]) + Answering(Messages(fromCc))
                + view.answers + unanswered
    BY <2>1, <2>5, <2>6 DEF Ledger, Waiting, Coming, Numbers
  <2> QED
    BY <2>7 DEF RequestsAccounted, Asking, Answering, Taken
<1> QED
  BY <1>1, SystemCorrect, PTL

(* Of a burst of messages that fits into the link's buffer the bridge      *)
(* loses none, whatever that buffer holds.                                 *)
THEOREM SystemCarriesBursts == Spec => []BurstIsCarried
<1>1. SystemInv => BurstIsCarried
  BY DEF SystemInv, Carries, PassedOn
<1> QED
  BY <1>1, SystemCorrect, PTL

-----------------------------------------------------------------------------
(* Two queues, one behind the other, as one. *)

LEMMA FirstOfTwo ==
  ASSUME NEW M, NEW s \in Seq(M), NEW t \in Seq(M), s # <<>>
  PROVE  /\ s \o t # <<>> /\ Head(s \o t) = s[1]
         /\ Tail(s \o t) = Tail(s) \o t
<1> DEFINE both == s \o t
           rest == Tail(s)
           one == <<s[1]>>
<1>1. one \in Seq(M) /\ rest \in Seq(M) /\ s = one \o rest
  BY HeadTailProperties
<1>2. both = one \o (rest \o t)
  <2> HIDE DEF one, rest
  <2>1. (one \o rest) \o t = one \o (rest \o t)
    BY <1>1, ConcatAssociative, SMTT(30)
  <2> QED
    BY <1>1, <2>1
<1> DEFINE more == rest \o t
<1>3. more \in Seq(M) /\ both = one \o more
  BY <1>1, <1>2, ConcatProperties
<1>4. both # <<>> /\ Head(both) = s[1] /\ Tail(both) = more
  <2> HIDE DEF more, both, rest
  <2> QED
    BY <1>3
<1> QED
  BY <1>4

LEMMA PassedFromOneToTheOther ==
  ASSUME NEW M, NEW s \in Seq(M), NEW t \in Seq(M), t # <<>>
  PROVE  Append(s, t[1]) \o Tail(t) = s \o t
<1> DEFINE one == <<t[1]>>
           rest == Tail(t)
<1>1. one \in Seq(M) /\ rest \in Seq(M) /\ t = one \o rest
  BY HeadTailProperties
<1>2. Append(s, t[1]) = s \o one
  <2>1. t[1] \in M
    BY HeadTailProperties
  <2> QED
    BY <2>1, AppendIsConcat
<1> HIDE DEF one, rest
<1>3. (s \o one) \o rest = s \o (one \o rest)
  BY <1>1, ConcatAssociative
<1>4. Append(s, t[1]) \o rest = s \o t
  BY <1>1, <1>2, <1>3
<1> QED
  BY <1>4 DEF rest

LEMMA LostBetween ==
  ASSUME NEW M, NEW s \in Seq(M), NEW t \in Seq(M), t # <<>>
  PROVE  /\ Len(s) + 1 \in DOMAIN (s \o t)
         /\ s \o Tail(t) = Remote!RemoveAt(s \o t, Len(s) + 1)
<1> DEFINE both == s \o t
           n == Len(s)
           k == Len(t)
           front == SubSeq(both, 1, n)
           back == SubSeq(both, n + 2, n + k)
<1>1. /\ both \in Seq(M) /\ Len(both) = n + k /\ n \in Nat /\ k \in Nat \ {0}
      /\ \A i \in 1 .. n + k : both[i] = IF i <= n THEN s[i] ELSE t[i - n]
  BY ConcatProperties, LenProperties, EmptySeq
<1>2. n + 1 \in DOMAIN both
  BY <1>1
<1>3. front = s
  <2>1. front \in Seq(M) /\ Len(front) = n /\ \A i \in 1 .. n : front[i] = both[i]
    BY <1>1, SubSeqProperties
  <2>2. \A i \in 1 .. n : front[i] = s[i]
    BY <1>1, <2>1
  <2> HIDE DEF front
  <2> QED
    BY <2>1, <2>2, SeqEqual
<1>4. back = Tail(t)
  <2>1. \A i \in n + 2 .. n + k : both[i] \in M
    BY <1>1, ElementOfSeq
  <2>2. /\ back \in Seq(M) /\ Len(back) = k - 1
        /\ \A i \in 1 .. k - 1 : back[i] = both[n + 1 + i]
    <3> DEFINE lo == n + 2
               hi == n + k
    <3>1. lo \in Int /\ hi \in Int /\ \A i \in lo .. hi : both[i] \in M
      BY <1>1, <2>1
    <3>0. n \in Nat /\ k \in Nat \ {0}
      BY <1>1
    <3>2. (IF lo <= hi THEN hi - lo + 1 ELSE 0) = k - 1 /\ hi - lo + 1 = k - 1
      <4> HIDE DEF n, k, both
      <4> QED
        BY <3>0
    <3>3. \A i \in 1 .. k - 1 : lo + i - 1 = n + 1 + i
      BY <1>1
    <3>4. back = SubSeq(both, lo, hi)
      OBVIOUS
    <3> HIDE DEF both, lo, hi, back, n, k
    <3>5. /\ SubSeq(both, lo, hi) \in Seq(M)
          /\ Len(SubSeq(both, lo, hi)) = IF lo <= hi THEN hi - lo + 1 ELSE 0
          /\ \A i \in 1 .. hi - lo + 1 : SubSeq(both, lo, hi)[i] = both[lo + i - 1]
      BY <3>1, SubSeqProperties
    <3> QED
      BY <3>2, <3>3, <3>4, <3>5
  <2>3. /\ Tail(t) \in Seq(M) /\ Len(Tail(t)) = k - 1
        /\ \A i \in 1 .. k - 1 : Tail(t)[i] = t[i + 1]
    BY HeadTailProperties
  <2>4. \A i \in 1 .. k - 1 : back[i] = Tail(t)[i]
    <3> TAKE i \in 1 .. k - 1
    <3>1. n + 1 + i \in 1 .. n + k /\ ~(n + 1 + i <= n) /\ n + 1 + i - n = i + 1
      BY <1>1
    <3>2. both[n + 1 + i] = t[i + 1]
      BY <1>1, <3>1
    <3> QED
      BY <2>2, <2>3, <3>2
  <2> HIDE DEF back
  <2> QED
    BY <2>2, <2>3, <2>4, SeqEqual
<1>5. Remote!RemoveAt(both, n + 1) = front \o back
  <2> DEFINE at == n + 1
  <2>1. at - 1 = n /\ at + 1 = n + 2
    BY <1>1
  <2>2. Remote!RemoveAt(both, at) = SubSeq(both, 1, at - 1) \o SubSeq(both, at + 1, Len(both))
    BY DEF Remote!RemoveAt
  <2> HIDE DEF both, at
  <2>3. Remote!RemoveAt(both, at) = front \o back
    BY <1>1, <2>1, <2>2
  <2> QED
    BY <2>3 DEF at
<1> QED
  BY <1>2, <1>3, <1>4, <1>5

-----------------------------------------------------------------------------
(* The modules of RemoteBoard are those of Board. *)

LEMMA SameModules ==
  /\ Remote!NewBoard = NewBoard
  /\ \A b, m : Remote!Dispatch(b, m) = Dispatch(b, m)
  /\ \A b : Remote!BankTicked(b) = BankTicked(b)
  /\ \A b : Remote!BankReport(b) = BankReport(b)
  /\ \A b, high : Remote!ReadTicked(b, high) = ReadTicked(b, high)
  /\ \A b, high : Remote!ReadReport(b, high) = ReadReport(b, high)
  /\ \A a, b : Remote!SymDiff(a, b) = SymDiff(a, b)
<1>1. Remote!NewBoard = NewBoard
  BY DEF Remote!NewBoard, NewBoard
<1>2. \A b, m : Remote!BankAccepts(b, m) = BankAccepts(b, m)
  BY DEF Remote!BankAccepts, BankAccepts, Remote!MaybeTare, MaybeTare,
         Remote!Matching, Matching, Remote!HasBit, HasBit, Remote!Max, Max,
         Remote!Type, Type, Remote!MOTOR_INIT, MOTOR_INIT,
         Remote!MOTOR_CONFIG, MOTOR_CONFIG, Remote!MOTOR_MOVE, MOTOR_MOVE,
         Remote!MOTOR_TARE, MOTOR_TARE, Remote!MOTOR_TARE_IF, MOTOR_TARE_IF,
         Remote!READ_REPORT, READ_REPORT,
         Remote!MOTOR_REQUEST_REPORT, MOTOR_REQUEST_REPORT
<1>3. \A b, m : Remote!ReadAccepts(b, m) = ReadAccepts(b, m)
  BY DEF Remote!ReadAccepts, ReadAccepts, Remote!Pins, Pins, Remote!HasBit, HasBit,
         Remote!Type, Type, Remote!READ_REQUEST, READ_REQUEST
<1>4. \A b, m : Remote!Dispatch(b, m) = Dispatch(b, m)
  BY <1>2, <1>3 DEF Remote!Dispatch, Dispatch
<1>5. \A b : Remote!BankTicked(b) = BankTicked(b)
  BY DEF Remote!BankTicked, BankTicked
<1>6. \A p : Remote!ReportSize(p) = ReportSize(p)
  BY DEF Remote!ReportSize, ReportSize, Remote!FoldSet, FoldSet,
         Remote!MapThenFoldSet, MapThenFoldSet, Remote!VarintSize, VarintSize,
         Remote!Cardinality, Cardinality
<1>7. \A b : Remote!BankReport(b) = BankReport(b)
  BY <1>6 DEF Remote!BankReport, BankReport, Remote!MOTOR_REPORT, MOTOR_REPORT
<1>8. \A p : Remote!Bitmap(p) = Bitmap(p)
  BY DEF Remote!Bitmap, Bitmap, Remote!FoldSet, FoldSet,
         Remote!MapThenFoldSet, MapThenFoldSet
<1>9. \A b, high : Remote!Polled(b, high) = Polled(b, high)
  BY DEF Remote!Polled, Polled
<1>10. \A b, high : Remote!ReadReport(b, high) = ReadReport(b, high)
  BY <1>8, <1>9 DEF Remote!ReadReport, ReadReport, Remote!READ_REPORT, READ_REPORT
<1>11. \A b, high : Remote!ReadTicked(b, high) = ReadTicked(b, high)
  BY <1>2, <1>9, <1>10 DEF Remote!ReadTicked, ReadTicked
<1>12. \A a, b : Remote!SymDiff(a, b) = SymDiff(a, b)
  BY DEF Remote!SymDiff, SymDiff
<1> QED
  BY <1>1, <1>4, <1>5, <1>7, <1>10, <1>11, <1>12

(* The two queues of RemoteBoard. *)
commands == wire[PC] \o Messages(toCc)
reports == Messages(fromCc) \o wire[BOARD]

LEMMA Queues ==
  ASSUME NEW S, NEW M, NEW Q, NEW A, NEW W, Carries(S, M, Q, A, W)
  PROVE  /\ Messages(toCc) \in Seq(M) /\ wire[PC] \in Seq(M)
         /\ Messages(fromCc) \in Seq(M) /\ wire[BOARD] \in Seq(M)
         /\ wire = [d \in Devices |-> wire[d]]
<1>1. Files(S, M, W) /\ Wires(M, W) /\ Alphabet(S, M, Q, A, W)
  BY DEF Carries
<1>2. Seq(W) \subseteq Seq(M)
  BY <1>1, SeqMonotonic DEF Alphabet
<1> QED
  BY <1>1, <1>2, OnWires DEF Files, Wires

LEMMA UnchangedQueues ==
  ASSUME UNCHANGED <<toCc, fromCc, wire>>
  PROVE  commands' = commands /\ reports' = reports
  BY DEF commands, reports

LEMMA SendIsSend ==
  ASSUME NEW S, NEW M, NEW Q, NEW A, NEW W, Carries(S, M, Q, A, W), Send
  PROVE  Remote!Send
<1>1. PICK m \in Commands : toCc' = toCc \o Line(m)
  BY DEF Send
<1>2. UNCHANGED <<fromCc, wire, board, turn, pins, view>>
  BY DEF Send, link
<1>3. m \in M /\ Messages(toCc') = Append(Messages(toCc), m)
  <2>1. Alphabet(S, M, Q, A, W) /\ Files(S, M, W)
    BY DEF Carries
  <2>2. m \in Seq(S) /\ NEWLINE \in S /\ DELIMITER \in S
    <3>1. m \in Seq(Int) /\ Int \subseteq S
      BY <2>1, SystemAssumption DEF Alphabet
    <3> QED
      BY <3>1, SeqMonotonic DEF NEWLINE, DELIMITER
  <2>3. toCc \in Seq(S) /\ Whole(toCc)
    BY <2>1 DEF Files
  <2> QED
    BY <1>1, <2>1, <2>2, <2>3, LineIsRead DEF Alphabet
<1> DEFINE s == wire[PC]
           t == Messages(toCc)
<1>4. s \o Append(t, m) = Append(s \o t, m)
  <2>1. s \in Seq(M) /\ t \in Seq(M)
    BY Queues
  <2> HIDE DEF s, t
  <2> QED
    BY <1>3, <2>1, ConcatAppend
<1>5. commands' = Append(commands, m) /\ reports' = reports
  BY <1>2, <1>3, <1>4 DEF commands, reports
<1> QED
  BY <1>2, <1>5 DEF Remote!Send, commands, reports

LEMMA SeeIsSee ==
  ASSUME NEW S, NEW M, NEW Q, NEW A, NEW W, Carries(S, M, Q, A, W), See
  PROVE  Remote!See
<1> DEFINE s == Messages(fromCc)
           t == wire[BOARD]
<1>1. /\ s # <<>> /\ view' = Remote!Seen(view, s[1]) /\ fromCc' = WithoutFirst(fromCc)
      /\ UNCHANGED <<toCc, wire, board, turn, pins>>
  BY DEF See
<1>2. Messages(fromCc') = Tail(s)
  BY <1>1, FirstIsRead DEF Carries, Files
<1>3. s \o t # <<>> /\ Head(s \o t) = s[1] /\ Tail(s \o t) = Tail(s) \o t
  <2>1. s \in Seq(M) /\ t \in Seq(M)
    BY Queues
  <2> HIDE DEF s, t
  <2> QED
    BY <1>1, <2>1, FirstOfTwo
<1>4. /\ commands' = commands
      /\ reports = s \o t /\ reports' = Tail(s) \o t
  BY <1>1, <1>2 DEF commands, reports
<1>5. reports # <<>> /\ Head(reports) = s[1] /\ reports' = Tail(reports)
  BY <1>3, <1>4
<1> QED
  BY <1>1, <1>4, <1>5 DEF Remote!See, commands, reports

LEMMA BridgeReceiveShowsNot ==
  ASSUME NEW S, NEW M, NEW Q, NEW A, NEW W, Carries(S, M, Q, A, W), BridgeReceive
  PROVE  UNCHANGED Remote!bvars
<1> DEFINE s == Messages(fromCc)
           t == wire[BOARD]
           m == t[1]
<1>1. /\ Received(PC, BOARD) /\ fromCc' = fromCc \o Line(m)
      /\ UNCHANGED <<toCc, board, turn, pins, view>>
  BY DEF BridgeReceive
<1>2. /\ t # <<>> /\ wire' = [wire EXCEPT ![BOARD] = Tail(t)]
  BY <1>1, Ends, ReceivedIs DEF Carries
<1>3. s \in Seq(M) /\ t \in Seq(M)
  BY Queues
<1>4. Messages(fromCc') = Append(s, m)
  <2>1. Alphabet(S, M, Q, A, W) /\ Files(S, M, W)
    BY DEF Carries
  <2>2. m \in M
    <3> HIDE DEF t
    <3> QED
      BY <1>2, <1>3, TailIs
  <2>3. m \in Seq(S) /\ NEWLINE \in S /\ DELIMITER \in S /\ fromCc \in Seq(S) /\ Whole(fromCc)
    BY <2>1, <2>2 DEF Alphabet, Files, NEWLINE, DELIMITER
  <2> HIDE DEF m
  <2> QED
    BY <1>1, <2>3, LineIsRead
<1>5. Append(s, m) \o Tail(t) = s \o t
  <2> HIDE DEF s, t
  <2> QED
    BY <1>2, <1>3, PassedFromOneToTheOther DEF m
<1>6. wire'[PC] = wire[PC] /\ wire'[BOARD] = Tail(t)
  BY <1>2, Queues, Ends
<1>7. commands' = commands /\ reports' = reports
  BY <1>1, <1>4, <1>5, <1>6 DEF commands, reports
<1> QED
  BY <1>1, <1>7 DEF Remote!bvars, commands, reports

LEMMA BridgeTransmitIsNothingOrLoss ==
  ASSUME NEW S, NEW M, NEW Q, NEW A, NEW W, Carries(S, M, Q, A, W), BridgeTransmit
  PROVE  Remote!LoseCommand \/ UNCHANGED Remote!bvars
<1> DEFINE s == wire[PC]
           t == Messages(toCc)
           m == t[1]
<1>1. /\ t # <<>> /\ toCc' = WithoutFirst(toCc)
      /\ IF m = <<>> THEN UNCHANGED <<link, wire>> ELSE Transmitted(PC, m)
      /\ UNCHANGED <<fromCc, board, turn, pins, view>>
  BY DEF BridgeTransmit
<1>2. s \in Seq(M) /\ t \in Seq(M)
  BY Queues
<1>3. Messages(toCc') = Tail(t)
  BY <1>1, FirstIsRead DEF Carries, Files
<1>4. \/ wire' = wire
      \/ wire' = [wire EXCEPT ![PC] = Append(s, m)]
  <2> HIDE DEF m
  <2> QED
    BY <1>1, TransmittedIs, Ends DEF Carries
<1>5. wire'[BOARD] = wire[BOARD]
  BY <1>4, Queues, Ends
<1>6. reports' = reports
  BY <1>1, <1>5 DEF reports
<1>7. CASE wire' = wire
  <2>1. /\ Len(s) + 1 \in DOMAIN (s \o t)
        /\ s \o Tail(t) = Remote!RemoveAt(s \o t, Len(s) + 1)
    <3> HIDE DEF s, t
    <3> QED
      BY <1>1, <1>2, LostBetween
  <2>2. commands = s \o t /\ commands' = s \o Tail(t)
    BY <1>3, <1>7 DEF commands
  <2> HIDE DEF s, t
  <2>3. commands' \in {Remote!RemoveAt(commands, i) : i \in DOMAIN commands}
    BY <2>1, <2>2
  <2> QED
    BY <1>1, <1>6, <2>3 DEF Remote!LoseCommand, commands, reports
<1>8. CASE wire' = [wire EXCEPT ![PC] = Append(s, m)]
  <2>1. Append(s, m) \o Tail(t) = s \o t
    <3> HIDE DEF s, t
    <3> QED
      BY <1>1, <1>2, PassedFromOneToTheOther DEF m
  <2>2. wire'[PC] = Append(s, m)
    BY <1>8, Queues, Ends
  <2>3. commands' = commands
    BY <1>3, <2>1, <2>2 DEF commands
  <2> QED
    BY <1>1, <1>6, <2>3 DEF Remote!bvars, commands, reports
<1> QED
  BY <1>4, <1>7, <1>8

LEMMA SerialReceiveIsSerialTurn ==
  ASSUME NEW S, NEW M, NEW Q, NEW A, NEW W, Carries(S, M, Q, A, W), SerialReceive
  PROVE  Remote!SerialTurn
<1> DEFINE s == wire[PC]
           t == Messages(toCc)
<1>1. /\ turn = "serial" /\ turn' = "bank" /\ board' = Dispatch(board, s[1])
      /\ Received(BOARD, PC) /\ UNCHANGED <<toCc, fromCc, pins, view>>
  BY DEF SerialReceive
<1>2. s # <<>> /\ wire' = [wire EXCEPT ![PC] = Tail(s)]
  BY <1>1, Ends, ReceivedIs DEF Carries
<1>3. wire'[PC] = Tail(s) /\ wire'[BOARD] = wire[BOARD]
  BY <1>2, Queues, Ends
<1>4. s \o t # <<>> /\ Head(s \o t) = s[1] /\ Tail(s \o t) = Tail(s) \o t
  <2>1. s \in Seq(M) /\ t \in Seq(M)
    BY Queues
  <2> HIDE DEF s, t
  <2> QED
    BY <1>2, <2>1, FirstOfTwo
<1>5. /\ reports' = reports
      /\ commands = s \o t /\ commands' = Tail(s) \o t
  BY <1>1, <1>3 DEF commands, reports
<1>6. commands # <<>> /\ Head(commands) = s[1] /\ commands' = Tail(commands)
  BY <1>4, <1>5
<1>7. board' = Remote!Dispatch(board, Head(commands))
  BY <1>1, <1>6, SameModules
<1> QED
  BY <1>1, <1>5, <1>6, <1>7 DEF Remote!SerialTurn, commands, reports

(* A report is sent or lost. *)
LEMMA SerialAcceptsIsReport ==
  ASSUME NEW S, NEW M, NEW Q, NEW A, NEW W, Carries(S, M, Q, A, W),
         NEW r, SerialAccepts(r), r # <<>> => r \in W /\ ForPC(r),
         UNCHANGED <<toCc, fromCc>>
  PROVE  commands' = commands /\ Remote!Report(r)
<1> DEFINE s == Messages(fromCc)
           t == wire[BOARD]
<1>1. /\ wire'[PC] = wire[PC]
      /\ wire'[BOARD] = IF r # <<>> /\ Link!HasRoom(BOARD) THEN Append(t, r) ELSE t
  BY SerialAcceptsIs
<1>2. commands' = commands
  BY <1>1 DEF commands
<1>3. CASE r # <<>> /\ Link!HasRoom(BOARD)
  <2>1. s \in Seq(M) /\ t \in Seq(M) /\ r \in M
    BY <1>3, Queues DEF Carries, Alphabet
  <2>2. s \o Append(t, r) = Append(s \o t, r)
    <3> HIDE DEF s, t
    <3> QED
      BY <2>1, ConcatAppend
  <2>3. reports' = Append(reports, r)
    BY <1>1, <1>3, <2>2 DEF reports
  <2> QED
    BY <1>2, <1>3, <2>3 DEF Remote!Report, reports
<1>4. CASE ~(r # <<>> /\ Link!HasRoom(BOARD))
  <2>1. reports' = reports
    BY <1>1, <1>4 DEF reports
  <2> QED
    BY <1>2, <2>1 DEF Remote!Report, reports
<1> QED
  BY <1>3, <1>4

LEMMA BankTickIsBankTurn ==
  ASSUME NEW S, NEW M, NEW Q, NEW A, NEW W, Carries(S, M, Q, A, W), BankTick
  PROVE  Remote!BankTurn
<1> DEFINE b == board
           r == BankReport(b)
<1>1. /\ turn = "bank" /\ turn' = "read" /\ SerialAccepts(r) /\ board' = BankTicked(b)
      /\ UNCHANGED <<toCc, fromCc, pins, view>>
  BY DEF BankTick
<1>2. r # <<>> => r \in W /\ ForPC(r)
  <2>1. b.positions \in [Addresses -> S] /\ Alphabet(S, M, Q, A, W) /\ r = BankReport(b)
    BY BoardIs DEF Carries
  <2> HIDE DEF b, r
  <2> QED
    BY <2>1, BankReportIs
<1>3. commands' = commands /\ Remote!Report(r)
  <2> HIDE DEF r
  <2> QED
    BY <1>1, <1>2, SerialAcceptsIsReport
<1>4. board' = Remote!BankTicked(board) /\ Remote!Report(Remote!BankReport(board))
  <2>1. Remote!BankReport(b) = r /\ Remote!BankTicked(b) = BankTicked(b)
    BY SameModules
  <2> HIDE DEF r
  <2> QED
    BY <1>1, <1>3, <2>1
<1> QED
  BY <1>1, <1>3, <1>4 DEF Remote!BankTurn, commands

LEMMA ReadTickIsReadTurn ==
  ASSUME NEW S, NEW M, NEW Q, NEW A, NEW W, Carries(S, M, Q, A, W), ReadTick,
         Bitmap(Polled(board, pins)) \in S
  PROVE  Remote!ReadTurn
<1> DEFINE b == board
           high == pins
           r == ReadReport(b, high)
<1>1. /\ turn = "read" /\ turn' = "serial" /\ SerialAccepts(r)
      /\ board' = ReadTicked(b, high) /\ UNCHANGED <<toCc, fromCc, pins, view>>
  BY DEF ReadTick
<1>2. r # <<>> => r \in W /\ ForPC(r)
  <2>1. Bitmap(Polled(b, high)) \in S /\ Alphabet(S, M, Q, A, W) /\ r = ReadReport(b, high)
    BY DEF Carries
  <2> HIDE DEF b, high, r
  <2> QED
    BY <2>1, ReadReportIs
<1>3. commands' = commands /\ Remote!Report(r)
  <2> HIDE DEF r
  <2> QED
    BY <1>1, <1>2, SerialAcceptsIsReport
<1>4. board' = Remote!ReadTicked(board, pins) /\ Remote!Report(Remote!ReadReport(board, pins))
  <2>1. /\ Remote!ReadReport(b, high) = r
        /\ Remote!ReadTicked(b, high) = ReadTicked(b, high)
    BY SameModules
  <2> HIDE DEF r
  <2> QED
    BY <1>1, <1>3, <2>1
<1> QED
  BY <1>1, <1>3, <1>4 DEF Remote!ReadTurn, commands

LEMMA StepIsRemoteStep ==
  ASSUME SystemInv, [Next]_svars
  PROVE  [Remote!BNext]_(Remote!bvars)
<1>1. PICK S, M, Q, A, W : Carries(S, M, Q, A, W)
  BY DEF SystemInv
<1>2. CASE Send
  BY <1>1, <1>2, SendIsSend DEF Remote!BNext
<1>3. CASE See
  BY <1>1, <1>3, SeeIsSee DEF Remote!BNext
<1>4. CASE BridgeReceive
  BY <1>1, <1>4, BridgeReceiveShowsNot
<1>5. CASE BridgeTransmit
  BY <1>1, <1>5, BridgeTransmitIsNothingOrLoss DEF Remote!BNext
<1>6. CASE \/ \E d \in Devices : LinkTick(d)
           \/ BridgeReceiveNothing \/ BridgeEndOfFile \/ UNCHANGED svars
  <2>1. UNCHANGED <<toCc, fromCc, wire, board, turn, pins, view>>
    BY <1>6 DEF LinkTick, BridgeReceiveNothing, BridgeEndOfFile, svars
  <2>2. commands' = commands /\ reports' = reports
    BY <2>1, UnchangedQueues
  <2> QED
    BY <2>1, <2>2 DEF Remote!bvars, commands, reports
<1>7. CASE SerialReceive
  BY <1>1, <1>7, SerialReceiveIsSerialTurn DEF Remote!BNext
<1>8. CASE SerialReceiveNothing
  <2>1. /\ turn = "serial" /\ turn' = "bank"
        /\ UNCHANGED <<toCc, fromCc, wire, board, pins, view>>
    BY <1>8 DEF SerialReceiveNothing
  <2>2. commands' = commands /\ reports' = reports
    BY <2>1, UnchangedQueues
  <2>3. Remote!SerialTurn
    BY <2>1, <2>2 DEF Remote!SerialTurn, commands, reports
  <2> QED
    BY <2>3 DEF Remote!BNext
<1>9. CASE BankTick
  BY <1>1, <1>9, BankTickIsBankTurn DEF Remote!BNext
<1>10. CASE ReadTick
  <2> DEFINE e == Bitmap(Polled(board, pins))
  <2>1. IsBoard(board')
    BY <1>1, <1>10, BoardIs, ReadTickedIs DEF ReadTick
  <2>2. PICK S2, M2, Q2, A2, W2 : Carries(S2, M2, Q2, A2, W2) /\ e \in S2
    <3> HIDE DEF e
    <3> QED
      BY <1>1, <2>1, ModulesKept
  <2>3. Remote!ReadTurn
    BY <1>10, <2>2, ReadTickIsReadTurn
  <2> QED
    BY <2>3 DEF Remote!BNext
<1>11. CASE PinChange
  <2>1. /\ \E p \in InputPins : pins' = SymDiff(pins, {p})
        /\ UNCHANGED <<toCc, fromCc, wire, board, turn, view>>
    BY <1>11 DEF PinChange
  <2>2. commands' = commands /\ reports' = reports
    BY <2>1, UnchangedQueues
  <2>3. Remote!PinChange
    BY <2>1, <2>2, SameModules DEF Remote!PinChange, commands, reports
  <2> QED
    BY <2>3 DEF Remote!BNext
<1> QED
  BY <1>2, <1>3, <1>4, <1>5, <1>6, <1>7, <1>8, <1>9, <1>10, <1>11 DEF Next, Bridge, Round

(* Bridge, files and link do not show: for every board, number of motors   *)
(* and buffer, and however program, bridge, link and modules take turns, a *)
(* program sees what it would see of modules to which its commands are     *)
(* handed one by one, in the order they were sent and as they were sent,   *)
(* or are lost, and whose reports come back the same way.                  *)
THEOREM SystemIsRemoteBoard == Spec => IsRemoteBoard
<1>1. Init => Remote!BInit
  <2> SUFFICES ASSUME Init PROVE Remote!BInit
    OBVIOUS
  <2>1. Messages(<<>>) = <<>>
    BY NothingIsWhole DEF Messages, AtEnd
  <2>2. toCc = <<>> /\ fromCc = <<>> /\ wire[PC] = <<>> /\ wire[BOARD] = <<>>
    BY Ends DEF Init
  <2>3. <<>> \o <<>> = <<>>
    OBVIOUS
  <2>4. wire[PC] \o Messages(toCc) = <<>> /\ Messages(fromCc) \o wire[BOARD] = <<>>
    BY <2>1, <2>2, <2>3
  <2> QED
    BY <2>4, SameModules DEF Remote!BInit, Init
<1>2. SystemInv /\ [Next]_svars => [Remote!BNext]_(Remote!bvars)
  BY StepIsRemoteStep
<1> QED
  BY <1>1, <1>2, SystemCorrect, PTL DEF Spec, IsRemoteBoard, Remote!BSpec
=============================================================================
