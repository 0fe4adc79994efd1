---------------------------- MODULE FileProtocol ----------------------------
(***************************************************************************)
(* The two files between a Python program and the bridge: a message is a   *)
(* line of bytes, in which newlines and backslashes are escaped.           *)
(* python/tensixty.py and python/commlink_main.cc each have a writer and a *)
(* parser, which do the same.                                              *)
(***************************************************************************)
EXTENDS Integers, Sequences, SequencesExt

NEWLINE == 10
DELIMITER == 92

MutDelimit(ints) ==
  FlattenSeq([i \in 1 .. Len(ints) |->
     IF ints[i] = NEWLINE THEN <<DELIMITER, ints[i]>> ELSE <<ints[i]>>])
Delimit(ints) ==
  FlattenSeq([i \in 1 .. Len(ints) |->
     IF ints[i] \in {NEWLINE, DELIMITER} THEN <<DELIMITER, ints[i]>> ELSE <<ints[i]>>])

Line(message) == Append(Delimit(message), NEWLINE)

-----------------------------------------------------------------------------
(* DelimitParser, with the messages that Consume has returned.  Between    *)
(* two lines the parser is as it was constructed.                          *)
NewDelimitParser == [delimited |-> FALSE, buffer |-> <<>>, messages |-> <<>>]

Consume(p, byte) ==
  CASE ~p.delimited /\ byte = DELIMITER -> [p EXCEPT !.delimited = TRUE]
    [] ~p.delimited /\ byte = NEWLINE ->
         [p EXCEPT !.buffer = <<>>, !.messages = Append(@, p.buffer)]
    [] OTHER -> [p EXCEPT !.delimited = FALSE, !.buffer = Append(@, byte)]

(* The parser after each byte of a file. *)
Parser(file) ==
  LET after[i \in 0 .. Len(file)] ==
        IF i = 0 THEN NewDelimitParser
                 ELSE CHOOSE q \in {Consume(p, file[i]) : p \in {after[i - 1]}} : TRUE
  IN after

(* The messages in a file, and the file without the first of them. *)
Messages(file) == Parser(file)[Len(file)].messages

EndOfFirst(file) ==
  CHOOSE i \in DOMAIN file :
    Parser(file)[i].messages # <<>> /\ Parser(file)[i - 1].messages = <<>>

WithoutFirst(file) == SubSeq(file, EndOfFirst(file) + 1, Len(file))
=============================================================================
