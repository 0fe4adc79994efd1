------------------------------ MODULE MCParser ------------------------------
(***************************************************************************)
(* Packets for ByteStream: an opening packet, acks, data whose bytes can   *)
(* be mistaken for the start of a packet.                                  *)
(***************************************************************************)
EXTENDS ByteStream

Index == INSTANCE IndexLoops WITH BufferSize <- 4, MaxIndex <- 127, MaxGap <- 15

(* The index arithmetic at the sizes of the source. *)
ASSUME RealIndices == Index!ClosedFormsAreLoops

Packet(ack, index, data) == [ack |-> ack, index |-> index, data |-> data]

MCPackets ==
  { Packet(0, 128, <<>>), Packet(129, 0, <<>>), Packet(0, 1, <<1, 2, 1>>),
    Packet(10, 60, <<10, 60, 10>>), Packet(2, 10, <<60, 10, 60, 1, 10>>),
    Packet(0, 127, <<255, 128, 0, 7>>),
    Packet(10, 60, <<200, 200, 200, 200, 200, 200, 200, 200>>) }

(* Sent alone, this packet ends in the byte that begins a packet. *)
DeafPackets == { Packet(0, 1, <<10>>) }
=============================================================================
