-------------------------------- MODULE Link --------------------------------
(***************************************************************************)
(* Two devices joined by a serial line, each running an RxTxPair: a Reader *)
(* and a Writer that share the two acks of the reader (cc/commlink.cc).    *)
(* Each device is one thread that loops over Tick (Read until it returns   *)
(* false, then Write), one Receive and any number of Transmits, as         *)
(* SerialModule::Tick and python/commlink_main.cc do.                      *)
(*                                                                         *)
(* The line delivers packets in order, but may corrupt or lose any of them *)
(* and drops what does not fit in ChanCap.  Time is abstracted: a Write    *)
(* may find the resend period expired or not.                              *)
(***************************************************************************)
EXTENDS Reader, Writer, Sequences

CONSTANTS
  Devices,      \* the two ends of the line
  Sends,        \* how many messages the program on each device transmits
  ChanCap,      \* packets that fit in the line and the receiver's FIFO
  Bridges       \* devices that run python/commlink_main.cc, which neither
                \* receives nor transmits before Initialized; the others
                \* run SerialModule, which does not ask

ASSUME LinkAssumption ==
  /\ \E a, b \in Devices : a # b /\ Devices = {a, b}
  /\ Sends \in [Devices -> Nat]
  /\ ChanCap \in Nat \ {0}
  /\ Bridges \subseteq Devices

VARIABLES
  rd,           \* the reader of each device
  wr,           \* the writer of each device
  chan,         \* the packets on their way to each device
  phase,        \* the last thing a device's loop has done: a Read of this
                \* tick ("reading"), the Write that ends the tick ("ticked")
                \* or the Receive that follows it ("received")
  accepted,     \* history: messages Transmit has taken on each device;
                \* the n-th message carries the payload n
  delivered     \* history: payload Receive returned last on each device

vars == <<rd, wr, chan, phase, accepted, delivered>>

Peer(d) == CHOOSE e \in Devices : e # d

TypeOK ==
  /\ rd \in [Devices -> Readers]
  /\ wr \in [Devices -> Writers]
  /\ chan \in [Devices -> Seq(Frames)]
  /\ phase \in [Devices -> {"reading", "ticked", "received"}]
  /\ accepted \in [Devices -> Nat]
  /\ delivered \in [Devices -> Nat]

Init ==
  /\ rd \in [Devices -> NewReaders]
  /\ wr = [d \in Devices |-> NewWriter]
  /\ chan = [d \in Devices |-> <<>>]
  /\ phase = [d \in Devices |-> "received"]
  /\ accepted = [d \in Devices |-> 0]
  /\ delivered = [d \in Devices |-> 0]

-----------------------------------------------------------------------------
Enter(d, p) == phase' = [phase EXCEPT ![d] = p]

InTick(d) == phase[d] # "ticked"

(* Read: the first byte of a packet. *)

CanRead(d) == InTick(d) /\ chan[d] # <<>> /\ AcksFlushed(rd[d])

ReadFirstByte(d) ==
  /\ CanRead(d)
  /\ rd[d].current = NoSlot
  /\ \E s \in Slots :
       /\ FirstFree(Cleanup(rd[d]).slot, FreeRx, s)
       /\ rd' = [rd EXCEPT ![d] = TakeSlot(@, s)]
  /\ Enter(d, "reading")
  /\ UNCHANGED <<wr, chan, accepted, delivered>>

(* Read returns false, but AllocatePacket has cleaned up. *)
ReadNoSpace(d) ==
  /\ CanRead(d)
  /\ rd[d].current = NoSlot
  /\ NoSpaceLeft(rd[d])
  /\ rd' = [rd EXCEPT ![d] = Cleanup(@)]
  /\ Enter(d, "reading")
  /\ UNCHANGED <<wr, chan, accepted, delivered>>

(* Read: the last byte of a packet, which leaves the reader as r. *)
ReadLastByte(d, r) ==
  /\ CanRead(d)
  /\ rd[d].current # NoSlot
  /\ rd' = [rd EXCEPT ![d] = r]
  /\ chan' = [chan EXCEPT ![d] = Tail(@)]
  /\ Enter(d, "reading")
  /\ UNCHANGED <<wr, accepted, delivered>>

(* HEADER_ERROR: the packet, start packets too, is gone without a trace. *)
ReadGarbled(d) == ReadLastByte(d, ReadHeaderError(rd[d]))

(* INCOMPLETE after ReProcessPacket: bytes are missing, and what was read  *)
(* counts as the beginning of the packet that follows.                     *)
ReadResync(d) == ReadLastByte(d, rd[d])

ReadOpening(d, intact) ==
  /\ CanRead(d)
  /\ Head(chan[d]).index = StartIndex
  /\ ReadLastByte(d, ReadStart(rd[d], Head(chan[d]), intact))

ReadUnopened(d, intact) ==
  /\ CanRead(d)
  /\ ~rd[d].started
  /\ Head(chan[d]).index # StartIndex
  /\ ReadLastByte(d, ReadNotStarted(rd[d], Head(chan[d]), intact))

ReadCorrupted(d) ==
  /\ CanRead(d)
  /\ rd[d].started
  /\ Head(chan[d]).index # StartIndex
  /\ ReadLastByte(d, ReadDataError(rd[d], Head(chan[d])))

ReadIntact(d) ==
  /\ CanRead(d)
  /\ rd[d].started
  /\ Head(chan[d]).index # StartIndex
  /\ ReadLastByte(d, ReadParsed(rd[d], Head(chan[d])))

-----------------------------------------------------------------------------
(* Write pops the outgoing ack, prepares the writer and sends one packet.  *)
(* Read has just returned false, but nothing tells why: the next bytes may *)
(* be on their way still.                                                  *)

PopOutAck(r) == [r EXCEPT !.outAck = NoAck]
PopBothAcks(r) == [r EXCEPT !.outAck = NoAck, !.inAck = NoAck]

(* SendBytes: a packet that does not fit is lost. *)
Send(d, f) ==
  chan' = [chan EXCEPT ![Peer(d)] = IF Len(@) < ChanCap THEN Append(@, f) ELSE @]

(* Each takes the writer w that Prepared returns. *)
MutWritePacket(d, w) ==
  \E s \in Slots :
    LET full == IncludeAck(w, s, rd[d].inAck)
    IN /\ IsNextPacket(w, s)
       /\ Send(d, FrameOf(full, s))
       /\ wr' = [wr EXCEPT ![d] = [w EXCEPT !.slot[s] = FreeTx]]
       /\ rd' = [rd EXCEPT ![d] = PopBothAcks(@)]
       /\ Enter(d, "ticked")
       /\ UNCHANGED <<accepted, delivered>>
WritePacket(d, w) ==
  \E s \in Slots :
    LET full == IncludeAck(w, s, rd[d].inAck)
    IN /\ IsNextPacket(w, s)
       /\ Send(d, FrameOf(full, s))
       /\ wr' = [wr EXCEPT ![d] = MarkSent(full, w.slot[s].index)]
       /\ rd' = [rd EXCEPT ![d] =
                   IF TakesAck(w, s) THEN PopBothAcks(@) ELSE PopOutAck(@)]
       /\ Enter(d, "ticked")
       /\ UNCHANGED <<accepted, delivered>>

WriteAckOnly(d, w) ==
  /\ \A s \in Slots : ~IsNextPacket(w, s)
  /\ rd[d].inAck # NoAck
  /\ Send(d, AckOnly(rd[d].inAck))
  /\ wr' = [wr EXCEPT ![d] = w]
  /\ rd' = [rd EXCEPT ![d] = PopBothAcks(@)]
  /\ Enter(d, "ticked")
  /\ UNCHANGED <<accepted, delivered>>

WriteNothing(d, w) ==
  /\ \A s \in Slots : ~IsNextPacket(w, s)
  /\ rd[d].inAck = NoAck
  /\ wr' = [wr EXCEPT ![d] = w]
  /\ rd' = [rd EXCEPT ![d] = PopOutAck(@)]
  /\ Enter(d, "ticked")
  /\ UNCHANGED <<chan, accepted, delivered>>

-----------------------------------------------------------------------------
(* The program on a device, between two ticks. *)

Initialized(d) == rd[d].started /\ wr[d].started

MayUseLink(d) == d \in Bridges => Initialized(d)

Receive(d) ==
  /\ phase[d] = "ticked"
  /\ MayUseLink(d)
  /\ \E s \in Slots :
       /\ Poppable(rd[d], s)
       /\ rd' = [rd EXCEPT ![d] = PopPacket(@, s)]
       /\ delivered' = [delivered EXCEPT ![d] = rd[d].slot[s].data]
  /\ Enter(d, "received")
  /\ UNCHANGED <<wr, chan, accepted>>

(* Receive returns null, or is not called. *)
ReceiveNothing(d) ==
  /\ phase[d] = "ticked"
  /\ MayUseLink(d) => \A s \in Slots : ~Poppable(rd[d], s)
  /\ Enter(d, "received")
  /\ UNCHANGED <<rd, wr, chan, accepted, delivered>>

MutTransmit(d) ==
  /\ phase[d] # "reading"
  /\ accepted[d] < Sends[d]
  /\ \E s \in Slots :
       /\ FirstFree(wr[d].slot, FreeTx, s)
       /\ wr' = [wr EXCEPT ![d] = AddToOutgoingQueue(@, s, accepted[d] + 1)]
  /\ accepted' = [accepted EXCEPT ![d] = @ + 1]
  /\ UNCHANGED <<rd, chan, phase, delivered>>

(* Transmit refuses a message before the sequence starts or when no slot   *)
(* is free; Sends bounds how many are offered.                             *)
Transmit(d) ==
  /\ phase[d] # "reading"
  /\ MayUseLink(d)
  /\ accepted[d] < Sends[d]
  /\ wr[d].started
  /\ \E s \in Slots :
       /\ FirstFree(wr[d].slot, FreeTx, s)
       /\ wr' = [wr EXCEPT ![d] = AddToOutgoingQueue(@, s, accepted[d] + 1)]
  /\ accepted' = [accepted EXCEPT ![d] = @ + 1]
  /\ UNCHANGED <<rd, chan, phase, delivered>>

-----------------------------------------------------------------------------
(* A packet arrives whole, or not. *)
SoundRead(d) ==
  \/ ReadFirstByte(d)
  \/ ReadNoSpace(d)
  \/ ReadOpening(d, TRUE)
  \/ ReadUnopened(d, TRUE)
  \/ ReadIntact(d)

FaultyRead(d) ==
  \/ ReadGarbled(d)
  \/ ReadResync(d)
  \/ ReadOpening(d, FALSE)
  \/ ReadUnopened(d, FALSE)
  \/ ReadCorrupted(d)

Write(d, timedOut) ==
  /\ InTick(d)
  /\ \E w \in {Prepared(wr[d], rd[d].outAck, timedOut)} :
       WritePacket(d, w) \/ WriteAckOnly(d, w) \/ WriteNothing(d, w)

Tick(d) ==
  \/ SoundRead(d)
  \/ FaultyRead(d)
  \/ \E timedOut \in BOOLEAN : Write(d, timedOut)

Program(d) == Receive(d) \/ ReceiveNothing(d) \/ Transmit(d)

Next == \E d \in Devices : Tick(d) \/ Program(d)

Spec == Init /\ [][Next]_vars
=============================================================================
