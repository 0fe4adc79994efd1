---------------------------- MODULE PacketParser ----------------------------
(***************************************************************************)
(* The bytes of a packet: Packet::Serialize and the parser that takes one  *)
(* byte at a time (cc/packet.cc).  A parser is a record                    *)
(*                                                                         *)
(*   status       what ParseChar returned last; parsed_ and error_ follow  *)
(*   header_next  header_next_byte_index_: bytes of the header received    *)
(*   data_next    data_next_byte_index_: bytes of the data received        *)
(*   ack, index, length                  the fields of the header          *)
(*   data         data_[0 .. data_next), the part that is ever read        *)
(*   header_sums, data_sums              the two checksums of each part    *)
(***************************************************************************)
EXTENDS Integers, Sequences, SequencesExt

NUM_HEADER_BYTES == 7

Bytes == 0 .. 255

Statuses == {"PARSED", "HEADER_ERROR", "DATA_ERROR", "INCOMPLETE"}

Parsers == [status : Statuses, header_next : 0 .. NUM_HEADER_BYTES,
            data_next : 0 .. 256, ack : Bytes, index : Bytes, length : Bytes,
            data : Seq(Bytes), header_sums : Bytes \X Bytes,
            data_sums : Bytes \X Bytes]

Failed(p) == p.status \in {"HEADER_ERROR", "DATA_ERROR"}

(* index_sending_ and data_length_ survive a reset. *)
MutReset(p) ==
  [p EXCEPT !.status = "INCOMPLETE", !.header_next = 0, !.data_next = 0,
            !.ack = 0, !.index = 0, !.data = <<>>,
            !.header_sums = <<0, 0>>, !.data_sums = <<0, 0>>]
Reset(p) ==
  [p EXCEPT !.status = "INCOMPLETE", !.header_next = 0, !.data_next = 0,
            !.ack = 0, !.data = <<>>,
            !.header_sums = <<0, 0>>, !.data_sums = <<0, 0>>]

NewParser ==
  [status |-> "INCOMPLETE", header_next |-> 0, data_next |-> 0, ack |-> 0,
   index |-> 0, length |-> 0, data |-> <<>>, header_sums |-> <<0, 0>>,
   data_sums |-> <<0, 0>>]

MutUpdateChecksum(c, sums) == <<(sums[1] + c) % 256, (sums[2] + c) % 256>>
UpdateChecksum(c, sums) ==
  LET first == (sums[1] + c) % 256 IN <<first, (sums[2] + first) % 256>>

Checksums(bytes) ==
  FoldLeft(LAMBDA sums, c : UpdateChecksum(c, sums), <<0, 0>>, bytes)

WithChecksums(bytes) == bytes \o Checksums(bytes)

Header(ack, index, length) == WithChecksums(<<10, 60, ack, index, length>>)

(* A packet as it goes on the line. *)
Serialize(f) == Header(f.ack, f.index, Len(f.data)) \o WithChecksums(f.data)

-----------------------------------------------------------------------------
(* One byte *)

Expected(p, c) ==
  CASE p.header_next = 0 -> c = 10
    [] p.header_next = 1 -> c = 60
    [] p.header_next = 5 -> c = p.header_sums[1]
    [] p.header_next = 6 -> c = p.header_sums[2]
    [] OTHER -> TRUE

ParseHeaderChar(p, c) ==
  LET n == p.header_next
      next == [p EXCEPT !.header_next = n + 1]
  IN IF ~Expected(p, c) THEN [next EXCEPT !.status = "HEADER_ERROR"]
     ELSE [next EXCEPT !.ack = IF n = 2 THEN c ELSE @,
                       !.index = IF n = 3 THEN c ELSE @,
                       !.length = IF n = 4 THEN c ELSE @,
                       !.header_sums = IF n < 5 THEN UpdateChecksum(c, @) ELSE @]

MutParseDataChar(p, c) ==
  CASE p.data_next <= p.length ->
         [p EXCEPT !.data_next = @ + 1, !.data = Append(@, c),
                   !.data_sums = UpdateChecksum(c, @)]
    [] p.data_next > p.length /\ c = p.data_sums[2] ->
         [p EXCEPT !.status = "PARSED"]
    [] OTHER -> [p EXCEPT !.status = "DATA_ERROR"]
ParseDataChar(p, c) ==
  CASE p.data_next < p.length ->
         [p EXCEPT !.data_next = @ + 1, !.data = Append(@, c),
                   !.data_sums = UpdateChecksum(c, @)]
    [] p.data_next = p.length /\ c = p.data_sums[1] ->
         [p EXCEPT !.data_next = @ + 1]
    [] p.data_next > p.length /\ c = p.data_sums[2] ->
         [p EXCEPT !.status = "PARSED"]
    [] OTHER -> [p EXCEPT !.status = "DATA_ERROR"]

ParseCharInternal(p, c) ==
  IF p.header_next < NUM_HEADER_BYTES THEN ParseHeaderChar(p, c)
                                      ELSE ParseDataChar(p, c)

-----------------------------------------------------------------------------
(* ReProcessPacket: after an error, look for a packet that begins later in *)
(* what was received.  What it looks at is not what was received but the   *)
(* packet serialized again, with the two magic bytes and good checksums;   *)
(* and once the header is complete, as many bytes as there are of data,    *)
(* counted from the start of the header.                                   *)
Received(p) ==
  SubSeq(Header(p.ack, p.index, p.length) \o p.data, 1,
         IF p.header_next < NUM_HEADER_BYTES THEN p.header_next ELSE p.data_next)

(* One attempt; an error ends it, a packet complete before the end does not*)
ParseAll(p, bytes) ==
  FoldLeft(LAMBDA q, c : IF Failed(q) THEN q ELSE ParseCharInternal(q, c), p, bytes)

(* The first attempt that meets no error, or the last. *)
MutReProcessPacket(p) ==
  LET bytes == Received(p)
      Attempt(q, start) ==
        IF Failed(q) THEN ParseAll(Reset(q), SubSeq(bytes, start, Len(bytes))) ELSE q
  IN FoldLeft(Attempt, p, [i \in 1 .. Len(bytes) |-> i])
ReProcessPacket(p) ==
  LET bytes == Received(p)
      Attempt(q, start) ==
        IF Failed(q) THEN ParseAll(Reset(q), SubSeq(bytes, start, Len(bytes))) ELSE q
  IN FoldLeft(Attempt, p, [i \in 1 .. Len(bytes) - 1 |-> i + 1])

(* A packet that failed is reset and keeps the status of its first error,  *)
(* but the index of the last attempt.                                      *)
ParseChar(p, c) ==
  LET q == ParseCharInternal(p, c)
      r == ReProcessPacket(q)
  IN CASE ~Failed(q) -> q
       [] Failed(q) /\ ~Failed(r) -> r
       [] Failed(q) /\ Failed(r) -> [Reset(r) EXCEPT !.status = q.status]
=============================================================================
