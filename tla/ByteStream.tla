----------------------------- MODULE ByteStream -----------------------------
(***************************************************************************)
(* A stream of packets on a serial line that now and then loses or changes *)
(* a byte, and the reader's use of the parser (Reader::Read in             *)
(* cc/commlink.cc): a packet that is complete or in error is given up, and *)
(* the next byte goes to a fresh one.  The writer sends packets one after  *)
(* the other, in any order and as often as it likes, which includes that   *)
(* it sends the same one again and again.                                  *)
(***************************************************************************)
EXTENDS PacketParser

CONSTANTS
  Packets,      \* the packets the writer sends
  Noise,        \* what a byte may be changed into
  MaxFaults,    \* bytes lost or changed in a behaviour
  Lag           \* how many packets it takes to be in step again

ASSUME StreamAssumption ==
  /\ Packets \subseteq [ack : Bytes, index : Bytes,
                        data : {s \in Seq(Bytes) : Len(s) \in Bytes}]
  /\ Noise \subseteq Bytes
  /\ MaxFaults \in Nat
  /\ Lag \in Nat \ {0}

VARIABLES
  packet,       \* the parser of current_packet_
  line,         \* what is left on the line of the packet sent last
  sent,         \* the last two packets sent, the older one first
  whole,        \* the packets sent since the last fault, up to Lag
  heard,        \* the last packet found the parser waiting, and had no fault
  faults        \* bytes lost or changed so far

vars == <<packet, line, sent, whole, heard, faults>>

Init ==
  /\ packet = NewParser
  /\ line = <<>>
  /\ sent = <<>>
  /\ whole = 0
  /\ heard = FALSE
  /\ faults = 0

(* A parser that waits for a packet: a new one, or one that is done with   *)
(* the packet before.                                                      *)
Waits(p) == p = NewParser \/ p.status # "INCOMPLETE"

Send(f) ==
  /\ line = <<>>
  /\ line' = Serialize(f)
  /\ sent' = IF sent = <<>> THEN <<f>> ELSE <<Last(sent), f>>
  /\ whole' = IF whole < Lag THEN whole + 1 ELSE whole
  /\ heard' = Waits(packet)
  /\ UNCHANGED <<packet, faults>>

(* AllocatePacket resets the packet it hands out. *)
MutCurrent(p) == IF p.status \in {"INCOMPLETE", "PARSED"} THEN p ELSE Reset(p)
Current(p) == IF p.status = "INCOMPLETE" THEN p ELSE Reset(p)

(* A byte leaves the line, and the reader reads byte c. *)
Read(c) ==
  /\ packet' = ParseChar(Current(packet), c)
  /\ line' = Tail(line)
  /\ UNCHANGED sent

ReadByte ==
  /\ line # <<>>
  /\ Read(Head(line))
  /\ UNCHANGED <<whole, heard, faults>>

Fault ==
  /\ line # <<>>
  /\ faults < MaxFaults
  /\ faults' = faults + 1
  /\ whole' = 0
  /\ heard' = FALSE

ChangeByte(c) ==
  /\ Fault
  /\ c # Head(line)
  /\ Read(c)

LoseByte ==
  /\ Fault
  /\ line' = Tail(line)
  /\ UNCHANGED <<packet, sent>>

Next ==
  \/ \E f \in Packets : Send(f)
  \/ ReadByte
  \/ \E c \in Noise : ChangeByte(c)
  \/ LoseByte

(* The writer sends for ever, and the line carries every byte in the end. *)
Carry == line # <<>> /\ line' = Tail(line)
Refill == line = <<>> /\ line' \in {Serialize(f) : f \in Packets}

Spec == Init /\ [][Next]_vars /\ WF_line(Carry) /\ WF_line(Refill)

-----------------------------------------------------------------------------
(* Every field stays in its array and in its byte (packet.h). *)
TypeOK ==
  /\ packet \in Parsers
  /\ packet.data_next <= packet.length + 1
  /\ Len(packet.data) <= packet.length
  /\ line \in Seq(Bytes)
  /\ Len(sent) <= 2 /\ Range(sent) \subseteq Packets
  /\ whole \in 0 .. Lag
  /\ heard \in BOOLEAN
  /\ faults \in 0 .. MaxFaults

(* The read that ends a packet. *)
Ends(status) == packet' # packet /\ packet'.status = status

(* What is parsed is a packet that was just sent, ack, index, data and all:*)
(* the checksums let no other pass, and a re-parse in the middle of one    *)
(* finds none.  Reader takes a parsed packet for the peer's and asks no    *)
(* more.                                                                   *)
ParsedWasSent ==
  [][Ends("PARSED") =>
       [ack |-> packet'.ack, index |-> packet'.index, data |-> packet'.data]
         \in Range(sent)]_vars

(* What a re-parse of these bytes can take for the index of a packet: the  *)
(* byte three after a 10 that a 60 follows.                                *)
IndicesIn(bytes) ==
  {bytes[i + 3] : i \in {j \in 2 .. Len(bytes) - 3 :
                           bytes[j] = 10 /\ bytes[j + 1] = 60}}

(* A packet with a good header and bad data is reported under the index of *)
(* a packet just sent, although a re-parse has been through its bytes      *)
(* since, or else under a byte of its own that the re-parse read where the *)
(* index would be had a packet begun at the 10 and the 60 before it.  In   *)
(* that case the index is wrong, and Reader asks the peer for another      *)
(* packet (commlink.cc:124).                                               *)
ErrorNamesItsPacket ==
  [][Ends("DATA_ERROR") =>
       packet'.index \in {f.index : f \in Range(sent)}
                         \cup IndicesIn(Received(packet))]_vars

(* A packet that finds the parser waiting, and that no fault hits, is      *)
(* parsed as it was sent, at its last byte, whatever packets, faults and   *)
(* re-parses went before: nothing of them is left in the parser.  Up to    *)
(* the first fault that is every packet, and no parse fails.               *)
ReadAsSent ==
  /\ heard /\ line = <<>> =>
       /\ packet.status = "PARSED"
       /\ [ack |-> packet.ack, index |-> packet.index, data |-> packet.data]
            = Last(sent)
  /\ faults = 0 =>
       /\ sent # <<>> => heard
       /\ ~Failed(packet)

(* A fault costs the packet it hits and a few of those that follow, which  *)
(* the parser takes for part of it: of Lag packets in a row that arrive    *)
(* whole, the last is parsed, at its last byte.                            *)
InStep == whole = Lag /\ line = <<>> => packet.status = "PARSED"

(* Whatever a fault has left in the parser, it finds its way back to the   *)
(* packets: of those sent from any moment on, one is parsed in the end.    *)
(* The retransmissions of README:36 rest on it.                            *)
ResendsArrive == []<>(packet.status = "PARSED" /\ line = <<>>)
=============================================================================
