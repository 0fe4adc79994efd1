# TenSixty in TLA+

TenSixty carries messages between a PC and an Arduino over an unreliable serial
line, and lets a Python program on the PC drive stepper motors on the Arduino.
This directory holds a formal model of it: TLA+ modules translated from the C++
sources under `src/`, instances that TLC checks exhaustively, and theorems that
TLAPS proves for every value of the constants.

| Read this | for |
|---|---|
| section 1 | the parts of the system, their state, how they interact, what is hard |
| section 2 | which module models what, and what was abstracted |
| section 3 | what each run checks, with which bounds, and why they are enough |
| section 4 | fairness |
| section 5 | what is proved, from which assumptions, along which argument |
| section 6 | where the code does not do what its documentation says |
| section 7 | what is not modelled, and the plan |

To check: `tlc -config X.cfg M` with the pairs of section 3, and `tlapm` on
the modules named `...Proofs.tla`.

## 1. The system

    Python program
      |  ^   two files, messages escaped and ended by newlines
      v  |
    commlink_main.cc (the bridge)             SerialModule --- ModuleDispatcher
      RxTxPair                                  RxTxPair           |  broadcast
        Writer ---- serial line, lossy ------->   Reader           +-- MotorBankModule
        Reader <--- serial line, lossy --------   Writer           |     Motor (x N) <- timer
                                                                   +-- ReadModule       interrupt

**Reader and PacketRingBuffer** (`cc/commlink.cc`, `cc/commlink.h`). State: four
packets with a live flag each, the index of the last packet popped, the packet
under construction, an ack to be sent (`incoming_ack_`), an ack received
(`outgoing_ack_`), and whether the peer's sequence has started. `Read` takes one
byte, `PopPacket` returns the next packet in order, `PopIncomingAck` and
`PopOutgoingAck` hand the acks to the writer of the same side. Correct if it
never skips, repeats or reorders a message, never acknowledges one it has not
taken, and always gets room again.

**Writer and OutgoingPacketBuffer** (same files). State: four packets, each live
or not and pending or not, the earliest index sent, the last index given out,
whether the sequence has started, and the time of the last resend.
`AddToOutgoingQueue` accepts a message, `Write` digests an ack, possibly marks
everything for resending, and sends one packet. Correct if a message stays in
the buffer, and comes to be sent again, until the peer has delivered it.

**RxTxPair** (same files). A reader and a writer that share the two acks.
`Tick` reads until `Read` returns false and then writes once. Correct if
both directions open, and are queues of bounded length with guaranteed, in-order
delivery (`README:5-6`), whatever the line does to the packets.

**Index arithmetic** (`NextIndex`, `IncrementIndex`, `InRange`,
`PrecedesIndex`). Indices run from 1 to 127 and wrap around; 0 is "no data" and
0x80 opens a sequence. Correct if it is "always clear from local context" which
lap an index belongs to (`README:29`).

**Packet and Ack** (`cc/packet.cc`). State: how many bytes of header and data
have come, the fields of the header, two running checksums for each part.
`ParseChar` takes a byte; after an error `ReProcessPacket` looks for a packet that
begins later in what was received. Correct if nothing passes for a packet that was
not sent, damaged data is reported under its own index where its bytes do not look like
a packet, and the parser finds its way back to the start of a packet.

**Python client** (`python/tensixty.py`). A main thread that writes commands to one
file, escaped, and a thread that reads reports from another and calls back.

**Bridge** (`python/commlink_main.cc`). A loop of `Tick`, and, once both
directions are open, one `Receive` and any number of `Transmit`s, one for each
message in the file; the result of `Transmit` is not looked at. Correct, with the
client, if a message arrives as it was sent and in order, or, when there is no
room for it, not at all.

**SerialModule, ModuleDispatcher, Message** (`cc/serial_module.cc`,
`cc/module_dispatcher.cc`). Each round, every module ticks, and the message
it returns is offered to every other module; a refusal is ignored. The serial
module's `Tick` is the link's `Tick` and one `Receive`.

**Motor** (`cc/motor.cc`). State: position, target, direction, ramp
(speed, acceleration, slowdown step), limits, tare rules and two output pins.
The main loop handles messages (init, config, move, tare, tare-if, report of
pins); `FastTick` moves the motor and is, on the Arduino, the handler of a timer
interrupt, which shares all of that state without any lock. Correct if the motor
goes to its target and nowhere else, is enabled while it has to move and
disabled afterwards if asked, and stays within limits that its target observes.

**MotorBankModule, ReadModule** (`cc/motor_bank_module.cc`, `cc/read_module.cc`).
The bank routes messages to motors and reports their positions when asked; the read
module polls the pins it was told to watch and reports them when one changes or a
request forced it. Its reports go to the PC and, on the way, to the
tare rules of the motors. Correct if every request is answered once, and what the
program was last told of the pins becomes what they are.

What is hard here: corruption, truncation and loss on the line at any point,
with retransmission and piggybacked acks that outlive what they acknowledge; a
resend timer that races the answer; indices that wrap around; a buffer of four
that refuses even acks when it is full; an opening handshake whose own packets
get lost; constructors that leave live flags uninitialised; a parser that
has to find its place again after a lost byte, with what it has kept of the bytes;
refusals that nobody looks at; and an interrupt handler between any two statements
of the motor's ramp computation.
`PROJECT.json` lists each hazard at its line with the properties that watch it.

## 2. The modules

| Module | Models | Role |
|---|---|---|
| `PacketIndex` | index arithmetic, ack byte, packet | constants and their assumption |
| `Reader` | `Reader`, `PacketRingBuffer` | a record and one operator per operation |
| `Writer` | `Writer`, `OutgoingPacketBuffer` | the same |
| `Link` | two `RxTxPair`s, the serial line, the loops that drive them | state machine; one action per outcome of `Read`, of `Write`, and of the program's calls |
| `LinkProperties` | | what a link must guarantee |
| `ReliableLink` | `README:5-6` | the abstract specification: two bounded FIFO queues |
| `Delivery` | | why a link delivers: the invariant of a direction, in terms of messages instead of indices |
| `FairLink` | the clock, finitely many faults | fairness, liveness, refinement of `ReliableLink` |
| `Session` | | a link in the middle of a session, and the invariants that hold of it |
| `MCLink` | | instances of `Session` for TLC |
| `BufferLoops` | the loops of `Cleanup`, `UpdateNextIndex`, `NextPacket` | recursive functions, and what it means that the closed forms are these loops (`LinkProofs`) |
| `IndexLoops` | the loops of `InRange`, `PrecedesIndex` | the same; evaluated for all indices at the real constants too |
| `PacketParser` | `Packet`: checksums, `Serialize`, `ParseChar`, `ReProcessPacket` | a record and one operator per operation |
| `ByteStream` | a line of bytes and `Read`'s use of the parser | state machine and its properties |
| `MCParser` | | the packets for TLC |
| `FileProtocol` | escaping and parsing in the two files | operators |
| `Board` | `ModuleDispatcher`, `MotorBankModule`, `ReadModule`, message types | a record and one operator per handler |
| `RemoteBoard` | what a program has of its board | the abstract specification of the composition |
| `System` | Python client, files, bridge, an abstract link, the rounds of the board | composes `FileProtocol`, `ReliableLink`, `Board` |
| `SystemProperties` | | what a program may rely on; refinement of `RemoteBoard`; fairness |
| `MCSystem` | | the commands for TLC |
| `Motor` | `Motor`, its messages from `MotorBankModule`, the interrupt | state machine; one action per access of a handler, and `FastTick` |
| `MotorProperties` | | what a motor must guarantee |
| `MCMotor` | | instances for TLC |
| `LinkProofs`, `DeliveryProofs`, `SessionProofs`, `ReliableLinkProofs`, `ParserProofs`, `FileProofs`, `SystemProofs`, `MotorProofs` | | theorems |

`PROJECT.json` maps every definition to its lines. An operator `Mut<Name>` is
`<Name>` with a plausible mistake. No behaviour uses it; put in the place of
`<Name>` it makes the property it was written for fail, which shows that the
property depends on that line of the code.

### The link

A packet is received in two steps, because that is where the code's state
changes: its first byte takes a slot of the ring buffer (with the `Cleanup` that
`AllocatePacket` does) and its last byte yields a `ParseStatus`. What the line
does to the bytes in between is a choice among the outcomes the parser has:
parsed, header error, data error, or swallowed by a re-parse
(`ReadIntact`, `ReadGarbled`, `ReadCorrupted`, `ReadResync`; `ReadOpening` and
`ReadUnopened` are the outcomes for a start packet and for a reader that waits for
one, where the code does not look at the checksum of the data). What does
not fit into the line is dropped. `Read` refuses bytes in two situations, both
modelled: while an ack waits for the writer, and when no slot is free. Since a
device's loop may find no byte available at any moment, `Write` may follow any
`Read`, in the middle of a packet too.

`Write` is one step: pop the outgoing ack, handle it (`HandleAck`), mark all
packets for resending if the period has expired, update the earliest index, choose
the packet, attach the ack that waits if the packet has none yet, send. Whether
the period has expired is a choice. A stored packet keeps the ack of its first
transmission, as in the code.

The live flags of the ring buffer start with any values (`NewReaders`): the
constructor does not set them. The receiver's history `delivered` and the sender's
`accepted` are the only ghost variables: the n-th message accepted carries the
payload n, so order, loss and duplication are visible.

The loops of the source are given in closed form, for the sake of the proofs
("the first live packet of the scan", "the packets that an acked one
overtook"). That the closed forms are what the loops compute says nothing about the behaviour of a
link, so no run has it as a property: section 5 proves it for every value of the constants, and
`RealIndices`, an assumption of `MCParser`, evaluates it for `InRange` and `PrecedesIndex` and all
pairs of indices at 4, 127 and 15.

### The packets

`Link` takes a parse for one of its outcomes; `PacketParser` and `ByteStream` say
which outcomes a stream of bytes has. The parser is modelled byte by byte, with
sums modulo 256, because the hazard is in the numbers: `ReProcessPacket` does not
look at the bytes that were received but at the packet serialized again (magic bytes
and checksums as they should have been), and, once the header is complete, at as many of
them as there are of *data*, counted from the start of the header. The
line loses and changes bytes; the writer sends any packets in any order, as often as
it likes. `heard` remembers that the packet on the line found the parser waiting (`Waits`) and
that no fault has hit it: `ReadAsSent` is about those packets, before the first fault and after it.

### From the program to the board

`System` is composed the way the program is. Files are sequences of bytes:
`Line` escapes a message as both writers do, `Parser` is the state of a `DelimitParser` after each
byte of a file, `Messages` what it has returned by the end. A file stands for what its reader has not read
yet: `WithoutFirst` is the file after the reader has come to the end of a line. The link is
`ReliableLink`, with the messages attached: that `Link` implements it is what
`handshake` and `two_way` check, so the protocol need not be explored
again under each command. The board takes a round of three turns, serial, bank,
read (`module_dispatcher.cc:37`). Which modules a board has, and in which order, a sketch decides
that is not in the repository: `tests/motor_serial_integration.cc` adds the serial module and the
bank only (by `AddModule`, which does not exist: the dispatcher's is `Add`). The read module is added
after them here, because the bank acts on its reports. A turn ticks the module, hands its message to the
others and transmits it, or loses it if the link refuses it.

`RemoteBoard` is the abstract specification: two queues, commands and
reports, from which messages may be lost but in which they are never reordered,
duplicated or changed, and a board. `IsRemoteBoard` is the refinement: what
is in a file and on the link, parsed and concatenated, is the queue.

A motor in `Board` is its position, and a message sets it at once: `Motor` has the
course. A message is its type and its fields; the protocol buffers' encoding is left
out except for the size of a report, which decides whether it is sent.

### The motor

One motor: motors share nothing, and a message for all of them is one message
for each, one after the other. A handler is a sequence of steps, one for each of its accesses
to what `FastTick` uses, and `pc` names the next one: of the statements of `UpdateRamps`, 54 sets
`acceleration_`, 55 `step_speed_`, 56 reads position and target, 59 reads `step_speed_`, 82 reads
position and target again, 83 and 85 set the slowdown step. With `build = "arduino"`,
`FastTick` may come between any two of them; with `build = "pc"` it comes only
between handlers, since there is no interrupt there. A test and what it decides are one step in four places
(`motor.cc:90`, `:93`, `:94`, `:147`): between the two an interrupt can only reach the target, where
neither the speed nor the direction matters any longer, and where it disables the motor itself.
Speeds and accelerations are multiples of `1/Scale`. The simulated ramp of `UpdateRamps`
is modelled tick by tick, with its own speed and progress, because it decides where the motor
starts to brake.

Abstractions: a 32-bit access is one step (on the 8-bit processor the compiler
needs several instructions, and a torn value is possible: listed as a hazard,
not modelled); the assignments of `Update` to the parameters of the ramp are one
step, as the first statements of `UpdateRamps` overwrite what an interrupt
among them can change; `Rezeroes` says whether a client
zeroes a motor that is not resting at zero, which the tests never do. A client sets
any of the `Limits` at any time, narrower than the position or the target too.

## 3. The runs

All runs are exhaustive. Every constant named below is in the `.cfg`.

| Run | Module | Distinct states | Bounds | Shows |
|---|---|---|---|---|
| `handshake` | `MCLink` | 68,829 | 3 slots, indices 1..7, gap 4, line 2, 1+1 messages, 1 fault, B a bridge | `TypeOK`, the inductive `HandshakeInv`; opening loses nothing (`ClearDiscardsNothing`, `DataMeetsStartedReader`); `OneNewPacket`; both open (`BothInitialize`); every step is a step of `ReliableLink` or none (`IsReliable`), fairly (`DeliversAll`) |
| `one_way_wrap` | `MCLink` | 497,217 | 2 slots, indices 1..5, gap 3, line 2, 5 messages (a lap of the indices), 1 fault | the inductive `SessionInv`; `NoLoss`, `SpaceComesBack`, `WindowsAgree`, `AcksAreTrue`, `InOrder` |
| `two_way` | `MCLink` | 745,328 | as above but indices 1..7, 2+1 messages across the wrap-around, 1 fault | the inductive `SessionInv`; `NoLoss`, `WindowsAgree`, `InOrder` with piggybacked acks; acks have the right packets sent again (`SkippedAreResent`); `StepsAreReliable` |
| `deliver_session` | `MCLink` | 94,393 | indices 1..6, gap 4, 3 messages across the wrap-around, 1 fault | `EveryMessageArrives` |
| `parser` | `MCParser` | 438,913 | 7 packets, 2 bytes lost or changed, 3 whole packets to be in step | `TypeOK`, `ReadAsSent`, `ParsedWasSent`, `ErrorNamesItsPacket`, `InStep` |
| `system` | `MCSystem` | 300,528 | link buffers of 2, 3 commands of 3 kinds, 1 pin that changes once, 2 motors | `TypeOK`, `IsRemoteBoard`, `RequestsAccounted`, `BurstIsCarried`, `RequestsAnswered`, `ViewCatchesUp` |
| `motor` | `MCMotor` | 1,342,317 | halves of a step per tick, targets 0 and 6, limits -2..2 and -4..4, min_speed 0 and a half, track -4..4 | `TypeOK`, `HeadsForTarget`, `RestsDisabled`, `BrakesLast`, `ObservesMaxPositions`, `MinSpeedArrives` |
| `stale_ack` | `MCLink` | | | a violation of `NoLoss`, section 6 |
| `stalled_scan` | `MCLink` | | | a violation of `EveryMessageArrives`, section 6 |
| `stuck_handshake` | `MCLink` | | | a violation of `EveryMessageArrives`, section 6 |
| `deaf_parser` | `MCParser` | | | a violation of `ResendsArrive`, section 6 |
| `standstill` | `MCMotor` | | | a violation of `MovesComplete`, section 6 |

Why the bounds are enough. Two slots are the least with which packets overtake
each other, a duplicate meets its original and the buffer fills. `handshake` has three, the least with
which a packet could have two duplicates, one more than `Cleanup` drops: `OneNewPacket` says that
it never has, though each packet may be sent again and again. The index range
of the runs about the wrap-around is the smallest that `IndexAssumption` admits, so
that old and new indices come as close as they can; these runs start in the
middle of a session (`FirstA`, `FirstB`) and reach it after one or two messages. In `two_way`
the range is one larger than twice the scan: a longer scan could take a newer packet for one that
an ack has skipped, and `SkippedAreResent` would be false (127 and 15 in the source leave far more).
The bounded queues themselves are `IsReliable` from the switching on and `StepsAreReliable` from the
middle of a session, where old packets and acks meet new indices. The
line holds two packets, so that a retransmission and its original are both in
transit, and drops the third. One fault is enough for each of the repair
mechanisms to be needed (error ack, repeated start packet, repeated ack, resend), and
for an ack to be late by more than a window of messages, which is what the proof about
one-way sessions is about. Faults are what costs states: a packet not
arriving whole, or the period expiring while something is still in transit. The
drops of a full line are not counted.

What the bounds exclude, and why. `one_way_wrap` has traffic in one direction, so
that no data packet carries an ack, and `deliver_session` sends fewer than
`MaxGap` messages: beyond these, the properties are false (section 6). Within these, section 5 proves
`NoLoss`, `AcksAreTrue`, `WindowsAgree`, `SpaceComesBack` and `InOrder` without the other bounds. The
properties are stated as the documentation promises them, and the runs show how far
the promise reaches: `NoLoss` and `AcksAreTrue` up to the stale acks,
`EveryMessageArrives` up to the stalled scan. Deadlock is checked in every run.

The parser's bounds: the seven packets are an opening packet, an ack, and data whose
acks, indices, lengths and bytes include 10 and 60, the magic bytes, alone and
together. One has an ack of 10, an index of 60 and eight bytes of data, so many that a re-parse
of its header goes on past a wrong index: there `ErrorNamesItsPacket` needs its exception, without which it is
false (section 6). Two faults let the re-parse of one be hit by the next. `Noise` has the
bytes that begin a packet, their neighbours and the extremes. It leaves out
pairs of bytes that differ by 128 from what was sent at an even distance from each other:
such a pair leaves both checksums as they were, as a sum modulo 256 cannot see it, and
`ParsedWasSent` is false for it; the code promises no more than its checksums
detect. `Lag = 3`: after a fault, at most two of the packets that follow are taken
for parts of the damaged one.

The bounds of `system`: two messages fill a buffer of the link, and the third
is dropped; the three commands are a request for the positions, a request for pins
whose bitmaps, as bytes, are the backslash and the newline, so that escaping is needed, and a
tare rule that fires on a reported pin and makes a position negative. `ReportBuffer = 45` for two
motors stands for 160 for six: a report with the positions that are not negative fits,
and one with a negative position (six of them, in the source) does not.

The motor's bounds: four steps are enough to speed up, go at full speed and brake;
with an acceleration of one half per tick the simulated ramp reaches full speed after
two ticks, and runs out of its four ticks when an interrupt has
made the acceleration negative. The target 6 lies outside of all limits, so that `Update` clamps it.
The two limits are narrower and wider than each other and than the way of a move, so that limits
are narrowed while a motor is beyond them, on its way out of them, or at rest there; both are wider than
-1..1, those of a motor that was not configured. The track leaves room for a step out of all but the
widest. The tare to 1 falls on a motor on either side of
it, and into its ramps.
On a PC no position beyond 4 is reachable. On the Arduino, interrupts between the new target and the
new increment
may take a motor arbitrarily far the wrong way (section 6): such steps off the track
are cut off. The safety properties do not depend on that, being proved
for every `Track`; `MinSpeedArrives` is checked for motors that stay on it. It is about motors whose
`min_speed` is positive; `MovesComplete` has no such condition and is false (`standstill`).

`ObservesMaxPositions` says what `motor_test.cc:100` tests of a motor whose target is inside its limits: no tick
between handlers takes it out of them. Limits that are narrowed under a target do not bind it, since `Config`
does not clamp the target again (`motor.cc:169`, section 6); the property adds that nothing else ever leaves a
target outside.

## 4. Fairness

A device's loop never ends: it ticks, and the program's part of the round comes,
for ever (`LoopsForever`). If a device can again and again read a byte, it reads
(`SF(SoundRead)`): `Tick` calls `Read` until it returns false. When nothing is in
transit and no answer is owed, only the clock goes on, so that the resend period
expires (`SF(Quiet /\ Write(d, TRUE))`). Strong fairness is needed for these since
the other device's steps can disable them for a moment. Faults are
finite in number: a line that loses every packet delivers nothing. Nothing obliges a program to
transmit.

The composition: the two loops, the bridge's and the dispatcher's, go round for
ever (`[]<>` of each place in them, which for the bridge takes an open link), and the
program's reading thread reads what is there (`WF(See)`). A message that an end finds again and again
when it calls `Receive` is received at last (`SF(BridgeReceive)`,
`SF(SerialReceive)`): that is `DeliversAll`, checked of the concrete link. Nothing obliges
the program to send, the pins to change, or the sender of a delivered message to
learn of it soon.

The stream of bytes: the line carries every byte in the end, and the writer sends for
ever (weak fairness of both), which the resend period sees to as long as a
packet is not acknowledged.

The motor: the timer goes on (`WF(FastTick)`) and a handler that has begun comes to
its end (`WF(Handle)`). Nothing obliges a client to send a message.

## 5. The proofs

Assumptions on the constants, each with a name, in the module that declares
them: `IndexAssumption` (a buffer is smaller than the gap of a scan, and both
together fit in a lap of the indices; 4, 15 and 127 in the source),
`LinkAssumption` (two devices, a line that holds a packet), `StreamAssumption` (the acks, indices and
data of packets are bytes, and so is the length of the data), `FaultsAssumption`,
`FirstAssumption` and `MotorAssumption` (types), `BoardAssumption` (a number of motors) and
`SystemAssumption` (the ends of the link differ, its buffer has a size, a command is a sequence of
integers; nothing is assumed of what they say).

**`LinkProofs`.** `TypeCorrect`: every index, ack and slot keeps its type.
`HandshakeCorrect`: `HandshakeInv` is an invariant, for every size of the buffers,
the index range and the line, any number of messages and faults, and each device
bridge or not. It is inductive relative to `TypeOK`:

 * `StartAcksAreEarned`: only a started reader sends the start ack, so wherever one is
   found (in a reader, in a stored packet, on the line), and wherever a writer
   has started, the reader it came from has started;
 * `WriterOpensOrSends`: a writer holds its opening packet or data, never both;
 * `LineOpensThenSends`: of an opening packet and data on the same line, the
   opening packet is ahead; while one is on its way, the reader it goes to holds no data.

The third part is why the second is needed (what the writer puts on the line
after data is never an opening packet), and the second needs the first (the opening packet
goes away with the start ack, before any data is accepted). `NothingDiscarded`
and `DataIsAwaited` follow: a reader that clears its buffer has nothing in it, and
data never meets a reader that throws it away. The proof classifies
the actions of `Next` by what they can disturb (a change within a reader,
an arrival, a write, a transmit); one lemma per operator of `Reader` and
`Writer` says what it returns and preserves, one lemma per class shows that the
invariant is kept.

The same module has the lemmas on the index arithmetic. Counting by indices is counting modulo
`MaxIndex`: `IndexOf(n)` is the index that the n-th message gets, `IndexOfNext` and
`IndexOfAdvance` say that `NextIndex` and `Advance` (the scans) follow it, and `IndexOfSame` that
two messages less than a lap apart have different indices, which is what the proofs of delivery rest on.

And it proves that the closed forms of the model are the loops of the source; these theorems are about the model
and not about the link, but for the one on `Cleanup`. A loop is a recursive
function; one of the closed forms satisfies its equation, so there is such a function, and by induction
over the passes (`FileProofs!NaturalInduction`) it has no other values. `LoopsAreClosed`, `InRangeIsLoop` and `PrecedesIsLoop`
are about the indices; the last adds that no two packets precede each other, which needs
`2 * MaxGap < MaxIndex` (30 and 127 in the source) and is the only place where that is assumed.
`UpdateNextIndexIsLoop` and `NextPacketIsLoops` hold of any writer: a loop that returns at a hit returns at the
first (`FirstHitIs`). `CleanupIsLoops` does not hold of any reader: a pass of `Cleanup` drops *one*
duplicate of each packet. It takes the inductive invariant `OneNewPacket` (**`OneRepeats`**, for any number of
slots): at most one packet, the one
under construction or the last one received, repeats the index of another, which is so because the `Cleanup`
that found its slot left none. `handshake` checks it with three slots.

**`MotorProofs`.** `MotorTypeCorrect`: types, with the handler's local state
(`HandlerInv`) as the strengthening; a braking motor's speed never becomes
negative. `HeadsCorrect` and `RestsCorrect`: with `Rezeroes = FALSE`, whatever
interrupts come into the handlers, a motor between messages is enabled and
heads for its target, or rests and is disabled if that was asked. `CourseInv` says for each place in a handler
what it has settled (direction pin, increment, enable pin), guarded by "not at
the target". It is kept by the interrupt because a step of one cannot pass the
target without stopping on it: until then the direction computed
by the handler remains true, and there it no longer matters.

`BrakesCorrect`: on a build without the interrupt, and with `Rezeroes = FALSE`, a motor
with steps to go brakes if and only if it is past its slowdown step. `BrakesInv`
follows the handler: after `ResetAcceleration` the acceleration is not negative; the
simulated ramp starts from half of the way; so the slowdown step that comes out of it, however the
simulation ends, is less than the whole way from the target and lies ahead (`SlowdownAhead`),
and remains so until the handler is done. Between messages
a tick changes the sign of the acceleration exactly where it passes the slowdown step, which
needs `CourseInv`: a motor that heads the wrong way would never pass it.

`LimitsObserved`: on every build, whatever an interrupt did within the handlers before, no tick
between handlers takes a motor out of its limits while its target is inside of them, and only a step that
changes the limits ever leaves the target outside. Nothing is assumed of the limits: they may be narrowed or widened at
any time. `TargetKept`: `Update` clamps the target, no tare touches it, and a tick moves the motor only.
`TickInside`: a motor inside its limits that heads for a target inside of them (`CourseInv`) makes
a step towards it, and stays there. Whether a target that was left outside comes inside again is up to the next
`Update`. All four theorems about the motor's course need `Rezeroes = FALSE`: section 6 shows what
happens otherwise.

**`ReliableLinkProofs`.** `QueueCorrect`: what it means for a program that the link
implements `ReliableLink`: a message that is not delivered is held by its sender, and
no more than `BufferSize` messages are ever under way in a direction. The
inductive invariant adds that a sender holds only messages it has
accepted, finitely many; the bound is the cardinality of an interval inside the set held.

**`DeliveryProofs`.** Why the link delivers. An index says little by itself; `Direction`
(module `Delivery`) says which *message* each one stands for, in the sender's buffer, on the line and in
the receiver's buffer, and how far apart these messages can be:

 * `SenderInv`: the sender holds every message that is not delivered, once, under its
   index; `WindowInv`: none of those it holds is older than its window, and the receiver is not
   a window ahead of it;
 * `ReceiverInv`: what the receiver holds is less than a window from what it waits
   for and from each other, so that `PopPacket` finds the right message by its index and
   `InRange` tells new from old; while a packet is being received the others are new and
   no two the same, so that there is room (`SpaceComesBack`: the `Cleanup` that
   precedes it leaves at most `BufferSize - 1` of them, `RoomReturns`);
 * `LineInv`: a packet on the line is behind what was sent before it by less than a
   window. That is where the line being a queue comes in.

`Direction` is parameterised by the window. With the window of `NextPacket`'s scan (`ScanInv`,
`MaxGap`) the sender never sends a message that is `MaxGap` newer than its oldest, so
the invariant holds of any number of messages and needs only that the two together fit into
a lap: `MaxGap + BufferSize <= MaxIndex`. What a step does to it is proved
for each operator of `Reader` and `Writer` and then for each action; the one thing it
needs from elsewhere is that an ack removes only a message that was delivered.
So **`TrueAcksSuffice`**: as long as `AcksAreTrue` (and no second start ack comes after the first
window, `StartAcksAreEarly`), `NoLoss`, `WindowsAgree`, `SpaceComesBack` and `InOrder` hold, for every
number of messages, faults and constants. The hypothesis cannot go: the run
`stale_ack` violates it, and then `NoLoss`.

**`SessionProofs`.** Three ways in which the acks are true, which makes the theorem unconditional:

 * `ShortLinkDelivers`: two devices that have been switched on, traffic both ways, acks
   piggybacked and repeated at will, no more than `Lap = MaxIndex - BufferSize` messages
   each way (123 in the source). `ShortInv` adds to `Direction` that each ack anywhere is that of
   a message that was delivered (`Earned`); no two messages share an index, so it cannot
   remove another. Finding 1 shows what can happen after that.
 * `ShortSessionDelivers`: the same counted from any moment at which all earlier messages are over,
   so that the wrap-around may lie anywhere among them.
 * `OneWaySessionDelivers`: one device sends any number of messages, through any number of
   laps, the other none. Stored packets carry no acks then, so that acks travel alone, in the order in which they
   were earned. They may still be late, the message having been sent twice, and meet a sender that
   is more than a lap ahead: `Punctual` says that if the sender has accepted a message `n` that
   is `MaxGap` or more newer than the late ack's, then `n` is still in its buffer and no ack ahead of the late
   one is for its index. Those messages fill the buffer, so there are at most `BufferSize` of
   them, and their indices are not the late ack's (`LateIsNotNew`): it removes nothing.

`SessionCorrect` states the last two as one invariant, `SessionInv`, which `one_way_wrap` and `two_way` check.

The refinement, step by step: **`TrueAcksAreReliable`** (as long as acks are true, for any
number of messages) and **`ShortLinkIsReliable`** (without a hypothesis on acks) prove
`IsReliable`. A `Transmit` is an `Accept`: a slot is free, so the abstract sender has room
(`FreeSlotIsRoom`, `OneSlotPerIndex`). A `Receive` that returns a packet is a `Deliver`. A `Write` that
digests an ack is an `Open`, an `Acknowledge` of what it removes, or nothing. All else,
reading and losing, leaves the abstract state as it is.

**`FileProofs`.** `LineIsRead`: a message of any bytes, escaped and written behind a file of whole
lines, is read as it was written, after the messages before it. `FirstIsRead`: a reader that has come
to the end of the first message has left the others as they were. Both are about what a recursive function
computes on a sequence of any length, so they need induction over data. The library's induction
theorems take an operator, which the provers cannot instantiate; `LeastNatural`, `NaturalInduction` and
`SequenceInduction` are derived from its theorem on minimal elements of a well-founded order, which
takes a set. Then:

 * `ParserIs`, `AtEndOfMore`: the recursive function exists, and one more byte is one more
   `Consume`;
 * `ReadsOn`: a parser in its first state, between two lines, reads on as a new one
   would, so `MessagesOfConcat`;
 * `DelimitIsRead`: reading an escaped message byte by byte fills the buffer with it, by induction on the
   message, since `Delimit` of one byte more is what it was and that byte, escaped (`DelimitAppend`);
 * `FirstEnds`: the end of the first message is where a parser returns to its first state.

**`SystemProofs`.** The composition, for any number of motors, rules and pins, any size of the link's
buffer and of a report's, any commands, and without the bounds on sends and changes (which may be any
value). `SystemCorrect`: `SystemInv` is inductive. It says that there is a set of values of which all messages
consist (a position may be set to whatever a tare rule has, so the set grows on the way: `Widen`) such that

 * `Files`, `Wires`: what is in a file is whole lines; what is on the link are as many messages as were
   accepted and not received, none to the board is empty, each from it is well formed;
 * `Modules`, `Turns`: the bank has a request only in its turn, and the bridge reads its
   file only while the link is open. The first is why no request is overwritten by a
   second; the second is why a loss means that the buffer is full;
 * `Queue!QueueInv`: the invariant of `ReliableLinkProofs`, kept since a step of the composition is
   a step of the abstract link or none;
 * `Ledger`: the equation of `RequestsAccounted`, with the counts of requests and answers in each queue;
 * `PassedOn`: what the bridge passed on, dropped or has still to read is no more than was sent. A
   bridge that drops a message has a full buffer, all of which it has accepted before, and the message itself:
   more than `BufferSize` were sent.

`SystemTypeCorrect`, `SystemAccounts` and `SystemCarriesBursts` follow. **`SystemIsRemoteBoard`** is the
refinement, one lemma per step: `Send`, `See`, the three turns and `PinChange` are steps of the same
name, a `BridgeTransmit` that the link refuses or that has an empty line is a `LoseCommand`, everything else
the bridge and the link do moves a message from the end of one queue to the head of the next, which
does not show (`PassedFromOneToTheOther`).

`TLC` checked the parts of `SystemInv` that are not about sets of all sequences on the states of `system`
before they were proved.

**`ParserProofs`.** The parser of `packet.cc`, for any packets whose acks, indices, data and lengths are bytes, and any noise.

 * `StreamTypeCorrect`: the parser stays within its arrays. `Sound` says that it holds exactly the
   data bytes it has counted, no more than the header announced. Each byte keeps that, and so does a
   re-parse, which feeds a parser with what another has received, as often as it fails (`ReProcessSound`).
 * `PacketIsRead`: the bytes that `Serialize` makes of a packet take a waiting parser to that very packet, complete
   at its last byte and not before. `Holds(p, f, k)` describes the parser after `k` bytes of packet `f`:
   which fields it has, and which running checksums (`HeaderGoesOn`, `DataGoesOn`, `DataEnds`).
   Since it is about one packet and any waiting parser, nothing that a packet leaves behind in a parser
   reaches the next.
 * `StreamIsRead`: `ReadAsSent`. `StreamInv` says that the parser `Holds` what the line has carried of
   the packet sent last, if that one was `heard`: before the first fault, and after any number of them.
   `StaysInStep`: only a fault makes a parser in step lose its step. A packet that is heard ends with the
   parser waiting, so that the next one is heard as well.
 * `OneChangeIsSeen`: a packet with one byte changed, any packet and any byte of it, never gets past the
   place where the parser compares: at once for the magic bytes and the checksums, and else at the first checksum
   of the header or of the data (`Seen`). The argument is that the bytes up to there are those of another packet
   (`TakenFor`), whose first checksum differs, since a sum modulo 256 tells any two values of one byte apart
   (`SumsDiffer`). What becomes of it then is up to the re-parse.
 * `NoiseIsSkipped`, `DamagedDataIsNamed`, `OneChangeCostsOnePacket`, `RetransmissionIsRead`: where no packet can
   begin in the bytes that are parsed again (`Startless`: no 10 that is followed by 60 or is the last byte), the
   re-parse finds nothing (`ReProcessFails`), and damaged data is reported under its own index; where none can
   begin in what is left of the damaged packet either, nothing is parsed of it, the parser waits at its end,
   and the packet that follows is read as it was sent. Most packets are such, but an index of 10 or 60, or data with these
   values, can break the condition, and then the conclusion may be false (section 6). TLC evaluated the
   statements, before they were proved, on ten packets with every byte changed to up to ten other values.

Checksums, re-parses and the bytes received are folds over sequences, which the community modules define by
recursion over the set of indices left. `FoldsNothing`, `FoldsNext` and `FoldSteps` derive from this that a fold
over a sequence of one more element is one more step, and `FoldStays` that it stays in a
set that each step keeps. A step is given as a function, as the provers instantiate no operators.

`ParseAllSteps` and `ReProcessSteps` turn a fold into the sequence of its values, so that induction over
their places says what an attempt of a re-parse comes to.

**Only model-checked:** of the parser, what it does after any faults (`ParsedWasSent`, `ErrorNamesItsPacket`,
`InStep`). These are not theorems: two changes can leave sums modulo 256 as they were, a packet can begin inside of
another one as section 6 describes (so that `DamagedDataIsNamed` has a condition), and no number of whole packets is enough for every stream
(finding 4). They hold of the packets and faults of the run. Of a link: `SkippedAreResent`; its
arithmetic is a theorem (`PrecedesIsLoop`). The other properties of a link are theorems under the
hypotheses above; for traffic both ways of more than a lap they are false (section 6). **Out of the
prover's reach:** liveness under fairness (`DeliversAll`, `BothInitialize`, `EveryMessageArrives`,
`MinSpeedArrives`, `RequestsAnswered`, `ViewCatchesUp`).

## 6. Findings

1. **A stored ack outlives its packet** (`stale_ack`, `cc/commlink.cc:400`). A
   retransmission repeats the ack of the first transmission. If the indices wrap
   around while the packet is still in the buffer, that ack removes a message
   that was never delivered, and the reader waits for it for ever. In the run,
   this is the opening packet of a device that its peer never started.
2. **A scan that stalls** (`stalled_scan`, `cc/commlink.cc:327`). If the oldest
   message is acknowledged after the `MAX_OUTGOING_INDEX_GAP - 1` that follow it,
   `UpdateNextIndex` finds no live packet, keeps the old index, and the next message
   is never sent.
3. **A handshake that gets stuck** (`stuck_handshake`, `python/commlink_main.cc:92`).
   The start ack to the bridge is lost, the peer fills the bridge's reader, and the
   full reader refuses the repeated start ack; the bridge does not receive
   before it is initialized.
4. **A parser that stays deaf** (`deaf_parser`, `cc/packet.cc:104`). A packet whose
   last byte is 10 is sent again and again, and one of its bytes was lost. The
   parser takes the last byte of each for the first of the next, rejects the
   10 that follows it, and the re-parse, which sees the 60 that should have been there in its place,
   gives that 10 up as well. No resend arrives until something else is sent.

5. **A motor that stops short** (`standstill`, `cc/motor.cc:79`). With `min_speed` 0, as in the tests, the
   speed of a braking motor may reach zero before the target, and nothing raises it again. In the run, a move of
   four steps brakes from position 3, makes half of the last step and stands still for ever, enabled and with one step left.
   `motor_test.cc:198` asserts that the speed is not zero while steps are left, of the move it tries.

The traces of all five were replayed with the compiled C++ classes, at the real
constants.

Defects that the models show and that have no run of their own, as no document or test
speaks of them or a run would only repeat a hazard of `PROJECT.json`:

 * *The motor runs away* (`cc/motor.cc:167`). A motor at a target other than zero
   whose last move did not move it has increment -1; zeroing its position makes it
   step away from its target and past its limits: `ObservesMaxPositions` fails
   with `Rezeroes = TRUE`.
 * *Limits do not bind a target that was set before* (`cc/motor.cc:169`). `Config` replaces the limits and leaves
   `target_absolute_steps_`: after an `Update` to 4 and a `Config` with -2..2 the motor goes on to 4, enabled and out of
   its limits. `motor_test.cc:100` configures before it moves. That is why `ObservesMaxPositions` is about targets inside the limits.
 * *The interrupt sees half of a handler.* From the new target (`motor.cc:101`) to
   the new increment (`motor.cc:94`) it steps with the old increment, away from
   the target or past the limits, and from 93 to 94 with the new direction pin, counting a step
   opposite to the one made. If it passes the old slowdown step after `motor.cc:54`
   it negates the acceleration of the new ramp (`motor.cc:142`). That is why `BrakesLast` is
   about builds without the interrupt, and `ObservesMaxPositions` about ticks between handlers.
 * *A report that does not fit* (`motor_bank_module.h:43`). `report_buffer_` has 160
   bytes and a report up to 168 (`motor_command.pb.h:232`): with six negative
   positions it is not serialized and the request is forgotten, so that the program
   waits for ever (`unanswered`). A report of exactly 160 bytes is shifted
   one past its buffer (`module_dispatcher.cc:15`).
 * *Refusals are not repeated.* A burst loses what does not fit into the link's buffer
   (`commlink_main.cc:117`); messages that are delivered and not yet acknowledged still
   count. A report of the pins that the link refuses, such as the one a request forced,
   is never sent again (`read_module.cc:22`): `stale` in `ViewCatchesUp`.
 * *A pin has two numbers.* Bit 0 of a report is pin 1 (`read_module.cc:12`,
   `read_module_test.cc:60`), and pin 0 of a tare rule (`motor.cc:184`,
   `motor_test.cc:470`). A rule fires on every report that
   matches (`motor.cc:187`), whether its pin changed or not; `motor_command.proto:67` says that the
   motor is tared if the pin "reaches" the state.
 * *An error under the wrong index* (`packet.cc:108`). A damaged packet whose re-parsed bytes
   hold 10, 60, any byte and 0x80 has its index overwritten: `Read` takes the error for one of an
   opening packet and clears the buffer in the middle of a session. Data can hold them (12 bytes are enough
   if the last checksum is the one that is damaged), and other wrong indices come from the header itself, with
   an ack of 10 and the index 60 and 7 bytes of data or more. `DamagedDataIsNamed` says when it cannot happen.

## 7. Not modelled, and the plan

Not modelled: wall-clock time and the length of the resend period; the bridge's buffer
of 512 bytes and the truncation of a length to a byte (no client of the
repository sends as much); a 32-bit access torn by the interrupt; the race of
`RegisterCallback` with the client's reading thread, its polling and the start of
the subprocess; the encoding of protocol buffers, apart from the size of
a report, and generated code; the set-up of timer and pins and the hardware interfaces; `motor_module.h`, which belongs to another
framework and is not built; `commlink_profile.py`, which imports a module that is not
there; `file_relay.py`, a fault injector of the tests, whose faults are the line's.

Done, in this order: index arithmetic, reader, writer, link, properties, the
abstract link and its refinement, fairness and liveness, the proofs about the
opening; motor, its properties and proofs; the byte parser; files, bridge, board
and their composition over the abstract link, with the abstract board; the proofs about
the brakes, the limits and the abstract link; the proofs that the link delivers and
implements the abstract link, where it does; the proofs about the files, the composition, the
byte parser and the loops.

What is left, with the most important first:

1. The link with its bytes: `Reader` over `PacketParser` instead of the outcomes of a
   parse, with one short message, to see whether the swallowed packets of a re-parse
   meet the handshake in a way that `ReadResync` does not cover.
2. The motor on the Arduino: the weaker form of `BrakesLast` that holds with the interrupt,
   checked and proved.
