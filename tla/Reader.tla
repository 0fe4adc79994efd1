------------------------------- MODULE Reader -------------------------------
(***************************************************************************)
(* The receiving half of a link: Reader and its PacketRingBuffer           *)
(* (cc/commlink.cc).  A reader is a record                                 *)
(*                                                                         *)
(*   slot     buffer_ and live_indices_; a slot that is not live is FreeRx *)
(*   last     last_index_number_, the index of the last packet popped      *)
(*   current  the slot of current_packet_, NoSlot when it is null          *)
(*   inAck    incoming_ack_: what the writer of this side is to send       *)
(*   outAck   outgoing_ack_: what the peer said of this side's packets     *)
(*   started  sequence_started_                                            *)
(*                                                                         *)
(* and each operator below returns the reader after one step of the code.  *)
(* Bytes are not modelled: a packet is received in two steps, its first    *)
(* byte (which takes a slot) and its last (which yields a ParseStatus).    *)
(***************************************************************************)
EXTENDS PacketIndex

(* "blank" has neither parsed_ nor error_ set: the packet under            *)
(* construction, or a slot whose uninitialised live_indices_ entry was true*)
RxSlots == [state : {"free", "blank", "parsed", "error"},
            index : Indices, data : Nat]

FreeRx == [state |-> "free", index |-> 0, data |-> 0]
BlankRx == [FreeRx EXCEPT !.state = "blank"]
ErrorRx == [FreeRx EXCEPT !.state = "error"]
ParsedRx(f) == [state |-> "parsed", index |-> f.index, data |-> f.data]

Readers == [slot : [Slots -> RxSlots], last : 0 .. MaxIndex,
            current : Slots \cup {NoSlot}, inAck : Acks, outAck : Acks,
            started : BOOLEAN]

(* The constructors leave live_indices_ uninitialised. *)
NewReaders ==
  { [slot |-> slots, last |-> 0, current |-> NoSlot, inAck |-> NoAck,
     outAck |-> NoAck, started |-> FALSE] : slots \in [Slots -> {FreeRx, BlankRx}] }

-----------------------------------------------------------------------------
(* PacketRingBuffer *)

(* The live slots a clean-up leaves alone, but for duplicates. *)
Valid(r, s) ==
  /\ r.slot[s].state \in {"blank", "parsed"}
  /\ InRange(r.last, r.slot[s].index)

Kept(r, s) ==
  /\ Valid(r, s)
  /\ \A t \in 1 .. s - 1 : ~(Valid(r, t) /\ r.slot[t].index = r.slot[s].index)

MutCleanup(r) ==
  [r EXCEPT !.slot = [s \in Slots |-> IF Valid(r, s) THEN r.slot[s] ELSE FreeRx]]
Cleanup(r) ==
  [r EXCEPT !.slot = [s \in Slots |-> IF Kept(r, s) THEN r.slot[s] ELSE FreeRx]]

FirstFree(slot, free, s) ==
  /\ slot[s] = free
  /\ \A t \in 1 .. s - 1 : slot[t] # free

Clear(r) == [r EXCEPT !.slot = [s \in Slots |-> FreeRx], !.last = 0]

(* The slot PopPacket finds: the next packet in order, received in full. *)
MutPoppable(r, s) ==
  /\ r.slot[s].state = "parsed"
  /\ InRange(r.last, r.slot[s].index)
Poppable(r, s) ==
  /\ r.slot[s].state = "parsed"
  /\ r.slot[s].index = NextIndex(r.last)
  /\ \A t \in 1 .. s - 1 :
       ~(r.slot[t].state = "parsed" /\ r.slot[t].index = NextIndex(r.last))

-----------------------------------------------------------------------------
(* Reader *)

(* Read refuses a byte while an ack waits for the writer.  The start ack   *)
(* has index 0 and does not block.                                         *)
AcksFlushed(r) == r.inAck.index = 0 /\ r.outAck.index = 0

(* The first byte of a packet, which AllocatePacket finds a slot for ...   *)
TakeSlot(r, s) ==
  [Cleanup(r) EXCEPT !.slot[s] = BlankRx, !.current = s]

(* ... unless none is free: "No buffer space left".                        *)
NoSpaceLeft(r) == \A s \in Slots : Cleanup(r).slot[s] # FreeRx

(* The last byte of a packet: current_packet_ goes back to null. *)
Close(r, rxSlot) == [r EXCEPT !.slot[r.current] = rxSlot, !.current = NoSlot]

ReadHeaderError(r) == Close(r, ErrorRx)

(* The packet opens a sequence; its payload need not be intact. *)
MutReadStart(r, f, intact) ==
  [Clear(r) EXCEPT !.current = NoSlot, !.started = TRUE,
                   !.inAck = IF r.started THEN @ ELSE StartAck,
                   !.outAck = IF intact THEN f.ack ELSE NoAck]
ReadStart(r, f, intact) ==
  [Clear(r) EXCEPT !.current = NoSlot, !.inAck = StartAck, !.started = TRUE,
                   !.outAck = IF intact THEN f.ack ELSE NoAck]

(* A packet of a sequence that was not opened yet; its ack still counts. *)
ReadNotStarted(r, f, intact) ==
  [Clear(r) EXCEPT !.current = NoSlot,
                   !.outAck = IF intact THEN f.ack ELSE NoAck]

(* DATA_ERROR: ParseChar has reset the packet, its ack included. *)
MutReadDataError(r, f) ==
  [Close(r, ErrorRx) EXCEPT !.outAck = NoAck, !.inAck = OkAck(f.index)]
ReadDataError(r, f) ==
  [Close(r, ErrorRx) EXCEPT
     !.outAck = NoAck,
     !.inAck = IF f.index # 0 THEN ErrorAck(f.index) ELSE @]

(* PARSED: a packet in range is acked when it is popped, any other now.    *)
(* An ack-only packet (index 0) is out of range: its "ack" is NoAck.       *)
MutReadParsed(r, f) ==
  [Close(r, ParsedRx(f)) EXCEPT !.outAck = f.ack]
ReadParsed(r, f) ==
  [Close(r, ParsedRx(f)) EXCEPT
     !.outAck = f.ack,
     !.inAck = IF InRange(r.last, f.index) THEN @ ELSE OkAck(f.index)]

PopPacket(r, s) ==
  [r EXCEPT !.last = r.slot[s].index, !.slot[s] = FreeRx,
            !.inAck = OkAck(r.slot[s].index)]
=============================================================================
