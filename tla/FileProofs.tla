----------------------------- MODULE FileProofs -----------------------------
(***************************************************************************)
(* Proofs that a message is read from a file as it was written, whatever   *)
(* bytes it has, and that the messages after it stay as they are.          *)
(*                                                                         *)
(* The theorems on induction in the library take an operator as parameter, *)
(* which the provers cannot instantiate.  Those on well-founded relations  *)
(* take a set, and induction follows from them.                            *)
(***************************************************************************)
EXTENDS FileProtocol, SequenceTheorems, WellFoundedInduction, TLAPS

LEMMA LeastNatural ==
  ASSUME NEW T, T \subseteq Nat, T # {}
  PROVE  \E x \in T : \A y \in T : x <= y
<1> DEFINE less == {pair \in Nat \X Nat : pair[1] < pair[2]}
<1>1. IsWellFoundedOn(less, Nat)
  <2>1. IsWellFoundedOn(OpToRel(<, Nat), Nat)
    BY NatLessThanWellFounded
  <2> QED
    BY <2>1 DEF OpToRel
<1> HIDE DEF less
<1>2. PICK x \in T : \A y \in T : ~ (<<y, x>> \in less)
  BY <1>1, WFMin
<1>3. ASSUME NEW y \in T
      PROVE  x <= y
  <2>1. x \in Nat /\ y \in Nat
    OBVIOUS
  <2>2. ASSUME y < x PROVE FALSE
    <3>1. <<y, x>> \in Nat \X Nat /\ <<y, x>>[1] < <<y, x>>[2]
      BY <2>1, <2>2
    <3> QED
      BY <1>2, <3>1 DEF less
  <2> QED
    BY <2>1, <2>2
<1> QED
  BY <1>3

LEMMA NaturalInduction ==
  ASSUME NEW T, 0 \in T, \A n \in Nat : n \in T => n + 1 \in T
  PROVE  Nat \subseteq T
<1> DEFINE rest == {n \in Nat : n \notin T}
<1> SUFFICES ASSUME rest # {} PROVE FALSE
  OBVIOUS
<1>1. PICK x \in rest : \A y \in rest : x <= y
  BY LeastNatural
<1>2. x # 0 /\ x - 1 \in Nat /\ x - 1 \notin rest
  BY <1>1
<1>3. x - 1 \in T /\ x = (x - 1) + 1
  BY <1>2
<1> QED
  BY <1>2, <1>3

LEMMA SequenceInduction ==
  ASSUME NEW S, NEW T, <<>> \in T,
         \A s \in Seq(S) : \A e \in S : s \in T => Append(s, e) \in T
  PROVE  Seq(S) \subseteq T
<1> DEFINE lengths == {n \in Nat : \A s \in Seq(S) : Len(s) = n => s \in T}
<1>1. 0 \in lengths
  BY EmptySeq
<1>2. ASSUME NEW n \in Nat, n \in lengths
      PROVE  n + 1 \in lengths
  <2> SUFFICES ASSUME NEW s \in Seq(S), Len(s) = n + 1
               PROVE  s \in T
    OBVIOUS
  <2>1. s # <<>>
    BY EmptySeq
  <2>2. PICK front \in Seq(S), e \in S : s = Append(front, e)
    BY <2>1, SequenceEmptyOrAppend
  <2>3. Len(front) \in Nat /\ Len(s) = Len(front) + 1
    BY <2>2, AppendProperties, LenProperties
  <2> QED
    BY <1>2, <2>2, <2>3
<1> HIDE DEF lengths
<1>3. Nat \subseteq lengths
  BY <1>1, <1>2, NaturalInduction
<1>4. ASSUME NEW s \in Seq(S) PROVE s \in T
  BY <1>3, LenProperties DEF lengths
<1> QED
  BY <1>4

-----------------------------------------------------------------------------
(* The parser, byte by byte. *)

Step(p, byte) == CHOOSE q \in {Consume(r, byte) : r \in {p}} : TRUE

LEMMA StepIs == \A p, byte : Step(p, byte) = Consume(p, byte)
<1> TAKE p, byte
<1>1. {Consume(r, byte) : r \in {p}} = {Consume(p, byte)}
  OBVIOUS
<1> QED
  BY <1>1 DEF Step

Parses(f, file, n) ==
  f = [i \in 0 .. n |-> IF i = 0 THEN NewDelimitParser ELSE Step(f[i - 1], file[i])]

LEMMA ParserIs ==
  ASSUME NEW file, Len(file) \in Nat
  PROVE  Parses(Parser(file), file, Len(file))
<1> DEFINE lengths == {n \in Nat : \E f : Parses(f, file, n)}
<1>1. 0 \in lengths
  <2> DEFINE f == [i \in 0 .. 0 |-> NewDelimitParser]
  <2>1. Parses(f, file, 0)
    BY DEF Parses
  <2> QED
    BY <2>1
<1>2. ASSUME NEW n \in Nat, n \in lengths
      PROVE  n + 1 \in lengths
  <2>1. PICK f : Parses(f, file, n)
    BY <1>2
  <2> DEFINE g == [i \in 0 .. n + 1 |-> IF i = n + 1 THEN Step(f[n], file[i]) ELSE f[i]]
  <2>2. ASSUME NEW i \in 0 .. n + 1
        PROVE  g[i] = IF i = 0 THEN NewDelimitParser ELSE Step(g[i - 1], file[i])
    <3>1. CASE i = 0
      BY <2>1, <3>1 DEF Parses
    <3>2. CASE i = n + 1
      BY <3>2
    <3>3. CASE i \in 1 .. n
      BY <2>1, <3>3 DEF Parses
    <3> QED
      BY <3>1, <3>2, <3>3
  <2> HIDE DEF g
  <2>3. g = [i \in 0 .. n + 1 |-> g[i]]
    BY DEF g
  <2>4. Parses(g, file, n + 1)
    BY <2>2, <2>3 DEF Parses
  <2> QED
    BY <2>4
<1> HIDE DEF lengths
<1>3. Len(file) \in lengths
  BY <1>1, <1>2, NaturalInduction
<1>4. PICK f : Parses(f, file, Len(file))
  BY <1>3 DEF lengths
<1> QED
  BY <1>4 DEF Parses, Parser, Step

(* The bytes up to the n-th alone decide what the parser is after it.      *)
LEMMA SameBytes ==
  ASSUME NEW f, NEW g, Len(f) \in Nat, Len(g) \in Nat,
         NEW n \in Nat, n <= Len(f), n <= Len(g), \A i \in 1 .. n : f[i] = g[i]
  PROVE  Parser(f)[n] = Parser(g)[n]
<1> DEFINE same == {k \in Nat : k <= n => Parser(f)[k] = Parser(g)[k]}
<1>1. Parses(Parser(f), f, Len(f)) /\ Parses(Parser(g), g, Len(g))
  BY ParserIs
<1>2. 0 \in same
  BY <1>1 DEF Parses
<1>3. ASSUME NEW k \in Nat, k \in same
      PROVE  k + 1 \in same
  <2> SUFFICES ASSUME k + 1 <= n
               PROVE  Parser(f)[k + 1] = Parser(g)[k + 1]
    OBVIOUS
  <2>1. Parser(f)[k] = Parser(g)[k] /\ f[k + 1] = g[k + 1]
    BY <1>3
  <2>2. /\ Parser(f)[k + 1] = Step(Parser(f)[k], f[k + 1])
        /\ Parser(g)[k + 1] = Step(Parser(g)[k], g[k + 1])
    <3>1. k + 1 \in 0 .. Len(f) /\ k + 1 \in 0 .. Len(g) /\ k + 1 # 0 /\ (k + 1) - 1 = k
      OBVIOUS
    <3> QED
      BY <1>1, <3>1 DEF Parses
  <2> QED
    BY <2>1, <2>2
<1> HIDE DEF same
<1>4. n \in same
  BY <1>2, <1>3, NaturalInduction
<1> QED
  BY <1>4 DEF same

(* The parser at the end of a file. *)
AtEnd(file) == Parser(file)[Len(file)]

LEMMA AtEndOfNothing == AtEnd(<<>>) = NewDelimitParser
<1>1. Len(<<>>) = 0
  BY EmptySeq
<1> QED
  BY <1>1, ParserIs DEF AtEnd, Parses

LEMMA AtEndOfMore ==
  ASSUME NEW S, NEW file \in Seq(S), NEW byte \in S
  PROVE  AtEnd(Append(file, byte)) = Consume(AtEnd(file), byte)
<1> DEFINE more == Append(file, byte)
           n == Len(file)
<1>1. /\ n \in Nat /\ Len(more) = n + 1 /\ more[n + 1] = byte
      /\ \A i \in 1 .. n : file[i] = more[i]
  BY AppendProperties, LenProperties
<1> HIDE DEF more, n
<1>2. Parser(more)[n] = AtEnd(file)
  BY <1>1, SameBytes DEF AtEnd, n
<1>3. Parses(Parser(more), more, n + 1)
  BY <1>1, ParserIs
<1>4. n + 1 \in 0 .. n + 1 /\ n + 1 # 0 /\ (n + 1) - 1 = n
  BY <1>1
<1>5. Parser(more)[n + 1] = Step(Parser(more)[n], byte)
  BY <1>1, <1>3, <1>4 DEF Parses
<1> QED
  BY <1>1, <1>2, <1>5, StepIs DEF AtEnd, more

DelimitParsers(S) == [delimited : BOOLEAN, buffer : Seq(S), messages : Seq(Seq(S))]

(* The fields of a parser after a byte. *)
Escapes(p, byte) == ~p.delimited /\ byte = DELIMITER
EndsLine(p, byte) == ~p.delimited /\ byte = NEWLINE

LEMMA ConsumeIs ==
  ASSUME NEW S, NEW p \in DelimitParsers(S), NEW byte \in S, NEW q, q = Consume(p, byte)
  PROVE  /\ q \in DelimitParsers(S)
         /\ Escapes(p, byte) =>
              q.delimited /\ q.buffer = p.buffer /\ q.messages = p.messages
         /\ EndsLine(p, byte) =>
              /\ ~q.delimited /\ q.buffer = <<>>
              /\ q.messages = Append(p.messages, p.buffer)
         /\ ~Escapes(p, byte) /\ ~EndsLine(p, byte) =>
              /\ ~q.delimited /\ q.buffer = Append(p.buffer, byte)
              /\ q.messages = p.messages
<1>0. p.buffer \in Seq(S) /\ p.messages \in Seq(Seq(S)) /\ p.delimited \in BOOLEAN
  BY DEF DelimitParsers
<1>1. CASE Escapes(p, byte)
  <2>1. q = [p EXCEPT !.delimited = TRUE] /\ ~EndsLine(p, byte)
    BY <1>1 DEF Consume, Escapes, EndsLine, NEWLINE, DELIMITER
  <2>2. /\ q \in DelimitParsers(S)
        /\ q.delimited = TRUE /\ q.buffer = p.buffer /\ q.messages = p.messages
    BY <2>1 DEF DelimitParsers
  <2> QED
    BY <1>1, <2>1, <2>2
<1>2. CASE EndsLine(p, byte)
  <2> DEFINE ms == Append(p.messages, p.buffer)
  <2>1. q = [p EXCEPT !.buffer = <<>>, !.messages = ms] /\ ~Escapes(p, byte) /\ ~p.delimited
    BY <1>2 DEF Consume, Escapes, EndsLine, NEWLINE, DELIMITER
  <2>2. ms \in Seq(Seq(S)) /\ <<>> \in Seq(S)
    BY <1>0, AppendProperties, EmptySeq
  <2> HIDE DEF ms
  <2>3. /\ q \in DelimitParsers(S)
        /\ q.delimited = p.delimited /\ q.buffer = <<>> /\ q.messages = ms
    BY <2>1, <2>2 DEF DelimitParsers
  <2> QED
    BY <1>2, <2>1, <2>3 DEF ms
<1>3. CASE ~Escapes(p, byte) /\ ~EndsLine(p, byte)
  <2> DEFINE bs == Append(p.buffer, byte)
  <2>1. q = [p EXCEPT !.delimited = FALSE, !.buffer = bs]
    BY <1>3 DEF Consume, Escapes, EndsLine
  <2>2. bs \in Seq(S)
    BY <1>0, AppendProperties
  <2> HIDE DEF bs
  <2>3. /\ q \in DelimitParsers(S)
        /\ q.delimited = FALSE /\ q.buffer = bs /\ q.messages = p.messages
    BY <2>1, <2>2 DEF DelimitParsers
  <2> QED
    BY <1>3, <2>3 DEF bs
<1> QED
  BY <1>1, <1>2, <1>3

-----------------------------------------------------------------------------
(* A file that ends with a line is read on as a new one would be. *)

LEMMA AtEndType ==
  ASSUME NEW S, NEW file \in Seq(S)
  PROVE  AtEnd(file) \in DelimitParsers(S)
<1> DEFINE typed == {f \in Seq(S) : AtEnd(f) \in DelimitParsers(S)}
<1>1. <<>> \in typed
  <2>1. <<>> \in Seq(S) /\ <<>> \in Seq(Seq(S))
    BY EmptySeq
  <2>2. NewDelimitParser \in DelimitParsers(S)
    BY <2>1 DEF NewDelimitParser, DelimitParsers
  <2> QED
    BY <2>1, <2>2, AtEndOfNothing
<1>2. ASSUME NEW f \in Seq(S), NEW byte \in S, f \in typed
      PROVE  Append(f, byte) \in typed
  BY <1>2, AtEndOfMore, ConsumeIs, AppendProperties
<1> HIDE DEF typed
<1>3. Seq(S) \subseteq typed
  BY <1>1, <1>2, SequenceInduction
<1> QED
  BY <1>3 DEF typed

(* After a whole line the parser is as it was constructed. *)
Whole(file) == ~AtEnd(file).delimited /\ AtEnd(file).buffer = <<>>

LEMMA NothingIsWhole == Whole(<<>>) /\ AtEnd(<<>>).messages = <<>>
  BY AtEndOfNothing DEF Whole, NewDelimitParser

LEMMA ConcatAppend ==
  ASSUME NEW S, NEW s \in Seq(S), NEW t \in Seq(S), NEW e \in S
  PROVE  s \o Append(t, e) = Append(s \o t, e)
<1>1. s \o t \in Seq(S)
  BY ConcatProperties
<1>2. /\ <<e>> \in Seq(S)
      /\ Append(t, e) = t \o <<e>>
      /\ Append(s \o t, e) = (s \o t) \o <<e>>
  BY <1>1, AppendIsConcat
<1>3. (s \o t) \o <<e>> = s \o (t \o <<e>>)
  BY <1>2, ConcatAssociative
<1> QED
  BY <1>2, <1>3

(* The parser after a and b has read of b what it reads of b alone. *)
Resumes(p, q, ms) ==
  /\ p.delimited = q.delimited
  /\ p.buffer = q.buffer
  /\ p.messages = ms \o q.messages

LEMMA ResumesStep ==
  ASSUME NEW S, NEW p \in DelimitParsers(S), NEW q \in DelimitParsers(S),
         NEW ms \in Seq(Seq(S)), Resumes(p, q, ms), NEW byte \in S
  PROVE  Resumes(Consume(p, byte), Consume(q, byte), ms)
<1> DEFINE pp == Consume(p, byte)
           qq == Consume(q, byte)
<1>0. /\ p.delimited = q.delimited /\ p.buffer = q.buffer
      /\ p.messages = ms \o q.messages
      /\ q.buffer \in Seq(S) /\ q.messages \in Seq(Seq(S))
  BY DEF Resumes, DelimitParsers
<1>1. /\ Escapes(p, byte) <=> Escapes(q, byte)
      /\ EndsLine(p, byte) <=> EndsLine(q, byte)
  BY <1>0 DEF Escapes, EndsLine
<1>2. ms \o Append(q.messages, q.buffer) = Append(ms \o q.messages, q.buffer)
  <2> DEFINE T == Seq(S)
             qm == q.messages
             m == q.buffer
  <2>1. m \in T /\ qm \in Seq(T) /\ ms \in Seq(T)
    BY <1>0
  <2> HIDE DEF T, qm, m
  <2>2. ms \o Append(qm, m) = Append(ms \o qm, m)
    BY <2>1, ConcatAppend
  <2> QED
    BY <2>2 DEF qm, m
<1> HIDE DEF pp, qq
<1>3. pp \in DelimitParsers(S) /\ qq \in DelimitParsers(S)
  BY ConsumeIs DEF pp, qq
<1>4. CASE Escapes(p, byte)
  <2>1. pp.delimited /\ pp.buffer = p.buffer /\ pp.messages = p.messages
    BY <1>4, ConsumeIs DEF pp
  <2>2. qq.delimited /\ qq.buffer = q.buffer /\ qq.messages = q.messages
    BY <1>1, <1>4, ConsumeIs DEF qq
  <2> QED
    BY <1>0, <1>3, <2>1, <2>2 DEF Resumes, DelimitParsers, pp, qq
<1>5. CASE EndsLine(p, byte)
  <2>1. ~pp.delimited /\ pp.buffer = <<>> /\ pp.messages = Append(p.messages, p.buffer)
    BY <1>5, ConsumeIs DEF pp
  <2>2. ~qq.delimited /\ qq.buffer = <<>> /\ qq.messages = Append(q.messages, q.buffer)
    BY <1>1, <1>5, ConsumeIs DEF qq
  <2> QED
    BY <1>0, <1>2, <1>3, <2>1, <2>2 DEF Resumes, DelimitParsers, pp, qq
<1>6. CASE ~Escapes(p, byte) /\ ~EndsLine(p, byte)
  <2>1. ~pp.delimited /\ pp.buffer = Append(p.buffer, byte) /\ pp.messages = p.messages
    BY <1>6, ConsumeIs DEF pp
  <2>2. ~qq.delimited /\ qq.buffer = Append(q.buffer, byte) /\ qq.messages = q.messages
    BY <1>1, <1>6, ConsumeIs DEF qq
  <2> QED
    BY <1>0, <1>3, <2>1, <2>2 DEF Resumes, DelimitParsers, pp, qq
<1> QED
  BY <1>4, <1>5, <1>6

LEMMA ReadsOn ==
  ASSUME NEW S, NEW a \in Seq(S), Whole(a), NEW b \in Seq(S)
  PROVE  Resumes(AtEnd(a \o b), AtEnd(b), Messages(a))
<1> DEFINE ms == Messages(a)
           on == {c \in Seq(S) : Resumes(AtEnd(a \o c), AtEnd(c), ms)}
<1>0. AtEnd(a) \in DelimitParsers(S) /\ ms = AtEnd(a).messages /\ ms \in Seq(Seq(S))
  BY AtEndType DEF DelimitParsers, Messages, AtEnd
<1> HIDE DEF ms
<1>1. <<>> \in on
  <2>1. <<>> \in Seq(S) /\ a \o <<>> = a /\ ms \o <<>> = ms
    BY <1>0, EmptySeq, ConcatEmptySeq
  <2>2. Resumes(AtEnd(a), AtEnd(<<>>), ms)
    <3>1. AtEnd(a).delimited = FALSE /\ AtEnd(a).buffer = <<>>
      BY <1>0 DEF Whole, DelimitParsers
    <3>2. /\ AtEnd(<<>>).delimited = FALSE /\ AtEnd(<<>>).buffer = <<>>
          /\ AtEnd(<<>>).messages = <<>>
      BY AtEndOfNothing DEF NewDelimitParser
    <3> QED
      BY <1>0, <2>1, <3>1, <3>2 DEF Resumes
  <2> QED
    BY <2>1, <2>2
<1>2. ASSUME NEW c \in Seq(S), NEW byte \in S, c \in on
      PROVE  Append(c, byte) \in on
  <2>1. /\ a \o c \in Seq(S) /\ Append(c, byte) \in Seq(S)
        /\ a \o Append(c, byte) = Append(a \o c, byte)
    BY ConcatProperties, AppendProperties, ConcatAppend
  <2>2. /\ AtEnd(Append(a \o c, byte)) = Consume(AtEnd(a \o c), byte)
        /\ AtEnd(Append(c, byte)) = Consume(AtEnd(c), byte)
    BY <2>1, AtEndOfMore
  <2>3. AtEnd(a \o c) \in DelimitParsers(S) /\ AtEnd(c) \in DelimitParsers(S)
    BY <2>1, AtEndType
  <2>4. Resumes(Consume(AtEnd(a \o c), byte), Consume(AtEnd(c), byte), ms)
    BY <1>0, <1>2, <2>3, ResumesStep
  <2> QED
    BY <2>1, <2>2, <2>4
<1> HIDE DEF on
<1>3. Seq(S) \subseteq on
  BY <1>1, <1>2, SequenceInduction
<1> QED
  BY <1>3 DEF on, ms

(* Another file after one that ends with a line. *)
LEMMA MessagesOfConcat ==
  ASSUME NEW S, NEW a \in Seq(S), Whole(a), NEW b \in Seq(S)
  PROVE  /\ Messages(a \o b) = Messages(a) \o Messages(b)
         /\ Whole(a \o b) <=> Whole(b)
<1> DEFINE p == AtEnd(a \o b)
           q == AtEnd(b)
           ms == Messages(a)
<1>1. Resumes(p, q, ms)
  BY ReadsOn
<1>2. Messages(a \o b) = p.messages /\ Messages(b) = q.messages
  BY DEF Messages, AtEnd
<1>3. /\ Whole(a \o b) <=> ~p.delimited /\ p.buffer = <<>>
      /\ Whole(b) <=> ~q.delimited /\ q.buffer = <<>>
  BY DEF Whole
<1> HIDE DEF p, q, ms
<1>4. p.delimited = q.delimited /\ p.buffer = q.buffer /\ p.messages = ms \o q.messages
  BY <1>1 DEF Resumes
<1> QED
  BY <1>2, <1>3, <1>4 DEF ms

-----------------------------------------------------------------------------
(* What Delimit writes.  Flats is the recursion of FlattenSeq. *)

Joined(s, t) == s \o t

Flats(f, seqs, n) ==
  f = [i \in 1 .. n |-> IF i = 1 THEN seqs[i] ELSE Joined(f[i - 1], seqs[i])]

LEMMA FlatsAt ==
  ASSUME NEW f, NEW seqs, NEW n, Flats(f, seqs, n), NEW i \in 1 .. n
  PROVE  /\ i = 1 => f[i] = seqs[i]
         /\ i # 1 => f[i] = Joined(f[i - 1], seqs[i])
  BY DEF Flats

LEMMA FlattenIs ==
  ASSUME NEW seqs, Len(seqs) \in Nat, Len(seqs) # 0
  PROVE  \E f : Flats(f, seqs, Len(seqs)) /\ FlattenSeq(seqs) = f[Len(seqs)]
<1> DEFINE lengths == {n \in Nat : \E f : Flats(f, seqs, n)}
<1>1. 0 \in lengths
  <2>1. Flats([i \in 1 .. 0 |-> seqs[i]], seqs, 0)
    BY DEF Flats
  <2> QED
    BY <2>1
<1>2. ASSUME NEW n \in Nat, n \in lengths
      PROVE  n + 1 \in lengths
  <2>1. PICK f : Flats(f, seqs, n)
    BY <1>2
  <2> DEFINE g == [i \in 1 .. n + 1 |->
                     IF i = 1 THEN seqs[i]
                     ELSE IF i = n + 1 THEN Joined(f[n], seqs[i]) ELSE f[i]]
  <2>2. ASSUME NEW i \in 1 .. n + 1
        PROVE  g[i] = IF i = 1 THEN seqs[i] ELSE Joined(g[i - 1], seqs[i])
    <3>1. CASE i = 1
      BY <3>1
    <3>2. CASE i # 1 /\ i = n + 1
      <4>1. i - 1 = n /\ n # 0 /\ n \in 1 .. n /\ n \in 1 .. n + 1 /\ n # n + 1
        BY <3>2
      <4>2. g[i] = Joined(f[n], seqs[i])
        BY <3>2
      <4>3. g[n] = f[n]
        BY <2>1, <4>1, FlatsAt
      <4> QED
        BY <3>2, <4>1, <4>2, <4>3
    <3>3. CASE i # 1 /\ i # n + 1
      <4>1. i \in 1 .. n /\ i - 1 \in 1 .. n /\ i - 1 \in 1 .. n + 1 /\ g[i] = f[i]
        BY <3>3
      <4>2. f[i] = Joined(f[i - 1], seqs[i])
        BY <2>1, <3>3, <4>1, FlatsAt
      <4>3. g[i - 1] = f[i - 1]
        BY <2>1, <3>3, <4>1, FlatsAt
      <4> QED
        BY <3>3, <4>1, <4>2, <4>3
    <3> QED
      BY <3>1, <3>2, <3>3
  <2> HIDE DEF g
  <2>3. g = [i \in 1 .. n + 1 |-> g[i]]
    BY DEF g
  <2>4. Flats(g, seqs, n + 1)
    BY <2>2, <2>3 DEF Flats
  <2> QED
    BY <2>4
<1> HIDE DEF lengths
<1>3. Len(seqs) \in lengths
  BY <1>1, <1>2, NaturalInduction
<1>4. \E f : Flats(f, seqs, Len(seqs))
  BY <1>3 DEF lengths
<1> DEFINE flatten == CHOOSE f : Flats(f, seqs, Len(seqs))
<1>5. Flats(flatten, seqs, Len(seqs))
  BY <1>4
<1>6. FlattenSeq(seqs) = flatten[Len(seqs)]
  BY DEF FlattenSeq, Flats, Joined
<1> QED
  BY <1>5, <1>6

LEMMA FlattenAppend ==
  ASSUME NEW S, NEW seqs \in Seq(Seq(S)), NEW s \in Seq(S)
  PROVE  FlattenSeq(Append(seqs, s)) = FlattenSeq(seqs) \o s
<1> DEFINE more == Append(seqs, s)
           n == Len(seqs)
<1>1. /\ n \in Nat /\ Len(more) = n + 1 /\ more[n + 1] = s
      /\ \A i \in 1 .. n : more[i] = seqs[i]
  BY AppendProperties, LenProperties
<1> HIDE DEF more, n
<1>2. PICK g : Flats(g, more, n + 1) /\ FlattenSeq(more) = g[n + 1]
  BY <1>1, FlattenIs
<1>3. CASE n = 0
  <2>1. seqs = <<>>
    BY <1>3, EmptySeq DEF n
  <2>2. FlattenSeq(seqs) = <<>>
    BY <2>1, EmptySeq DEF FlattenSeq
  <2>3. g[1] = s
    BY <1>1, <1>2, <1>3 DEF Flats
  <2> QED
    BY <1>2, <1>3, <2>2, <2>3, ConcatEmptySeq DEF more
<1>4. CASE n # 0
  <2>1. PICK f : Flats(f, seqs, n) /\ FlattenSeq(seqs) = f[n]
    BY <1>1, <1>4, FlattenIs DEF n
  <2> DEFINE same == {k \in Nat : k \in 1 .. n => f[k] = g[k]}
  <2>2. 0 \in same
    OBVIOUS
  <2>3. ASSUME NEW k \in Nat, k \in same
        PROVE  k + 1 \in same
    <3> SUFFICES ASSUME k + 1 <= n
                 PROVE  f[k + 1] = g[k + 1]
      OBVIOUS
    <3>0. k + 1 \in 1 .. n /\ k + 1 \in 1 .. n + 1 /\ (k + 1) - 1 = k
      BY <1>1
    <3>1. CASE k = 0
      BY <1>1, <1>2, <2>1, <3>0, <3>1 DEF Flats
    <3>2. CASE k # 0
      <4>1. f[k] = g[k] /\ more[k + 1] = seqs[k + 1]
        BY <1>1, <2>3, <3>0, <3>2
      <4>2. k + 1 # 1
        BY <3>2
      <4>3. f[k + 1] = Joined(f[(k + 1) - 1], seqs[k + 1])
        BY <2>1, <3>0, <4>2, FlatsAt
      <4>4. g[k + 1] = Joined(g[(k + 1) - 1], more[k + 1])
        BY <1>2, <3>0, <4>2, FlatsAt
      <4> QED
        BY <3>0, <4>1, <4>3, <4>4
    <3> QED
      BY <3>1, <3>2
  <2> HIDE DEF same
  <2>4. n \in same
    BY <1>1, <2>2, <2>3, NaturalInduction
  <2>5. f[n] = g[n]
    BY <1>1, <1>4, <2>4 DEF same
  <2>6. n + 1 \in 1 .. n + 1 /\ n + 1 # 1 /\ (n + 1) - 1 = n
    BY <1>1, <1>4
  <2>7. g[n + 1] = Joined(g[n], more[n + 1])
    BY <1>2, <2>6 DEF Flats
  <2> QED
    BY <1>1, <1>2, <2>1, <2>5, <2>7 DEF more, Joined
<1> QED
  BY <1>3, <1>4

Escaped(byte) == IF byte \in {NEWLINE, DELIMITER} THEN <<DELIMITER, byte>> ELSE <<byte>>

LEMMA DelimitNothing == Delimit(<<>>) = <<>>
<1>1. Len([i \in 1 .. Len(<<>>) |-> Escaped(<<>>[i])]) = 0
  BY EmptySeq
<1>2. [i \in 1 .. Len(<<>>) |-> Escaped(<<>>[i])] = <<>>
  BY EmptySeq
<1> QED
  BY <1>1, <1>2 DEF Delimit, Escaped, FlattenSeq

LEMMA DelimitAppend ==
  ASSUME NEW S, NEWLINE \in S, DELIMITER \in S, NEW m \in Seq(S), NEW byte \in S
  PROVE  Delimit(Append(m, byte)) = Delimit(m) \o Escaped(byte)
<1> DEFINE more == Append(m, byte)
           E(s) == [i \in 1 .. Len(s) |-> Escaped(s[i])]
           T == Seq(S)
<1>1. Delimit(m) = FlattenSeq(E(m)) /\ Delimit(more) = FlattenSeq(E(more))
  BY DEF Delimit, Escaped
<1>2. /\ Len(m) \in Nat /\ Len(more) = Len(m) + 1 /\ more[Len(m) + 1] = byte
      /\ \A i \in 1 .. Len(m) : more[i] = m[i]
      /\ more \in Seq(S)
  BY AppendProperties, LenProperties
<1>3. ASSUME NEW b \in S
      PROVE  Escaped(b) \in T
  BY DEF Escaped
<1>4. ASSUME NEW s \in Seq(S)
      PROVE  E(s) \in Seq(T) /\ Len(E(s)) = Len(s)
  <2>1. Len(s) \in Nat /\ \A i \in 1 .. Len(s) : s[i] \in S
    BY LenProperties, ElementOfSeq
  <2>2. \A i \in 1 .. Len(s) : Escaped(s[i]) \in T
    BY <1>3, <2>1
  <2> HIDE DEF T
  <2> QED
    BY <2>1, <2>2
<1>5. E(m) \in Seq(T) /\ Len(E(m)) = Len(m)
  BY <1>4
<1>6. E(more) \in Seq(T) /\ Len(E(more)) = Len(m) + 1
  BY <1>2, <1>4
<1> DEFINE last == Escaped(byte)
<1>7. last \in T
  BY <1>3
<1>8. E(more) = Append(E(m), last)
  <2>1. /\ Append(E(m), last) \in Seq(T) /\ Len(Append(E(m), last)) = Len(m) + 1
        /\ Append(E(m), last)[Len(m) + 1] = last
        /\ \A i \in 1 .. Len(m) : Append(E(m), last)[i] = E(m)[i]
    <3> DEFINE em == E(m)
    <3> HIDE DEF em, last, T
    <3> SUFFICES /\ Append(em, last) \in Seq(T) /\ Len(Append(em, last)) = Len(m) + 1
                 /\ Append(em, last)[Len(m) + 1] = last
                 /\ \A i \in 1 .. Len(m) : Append(em, last)[i] = em[i]
      BY DEF em
    <3>1. em \in Seq(T) /\ Len(em) = Len(m)
      BY <1>5 DEF em
    <3> QED
      BY <1>7, <3>1, AppendProperties
  <2>2. ASSUME NEW i \in 1 .. Len(m) + 1
        PROVE  E(more)[i] = Append(E(m), last)[i]
    <3>1. E(more)[i] = Escaped(more[i])
      BY <1>2
    <3>2. CASE i = Len(m) + 1
      BY <1>2, <2>1, <3>1, <3>2
    <3>3. CASE i # Len(m) + 1
      <4>1. i \in 1 .. Len(m)
        BY <1>2, <3>3
      <4>2. E(m)[i] = Escaped(m[i])
        BY <4>1
      <4> QED
        BY <1>2, <2>1, <3>1, <4>1, <4>2
    <3> QED
      BY <3>2, <3>3
  <2> DEFINE a == E(more)
             b == Append(E(m), last)
  <2>3. a \in Seq(T) /\ b \in Seq(T) /\ Len(a) = Len(b) /\ \A i \in 1 .. Len(a) : a[i] = b[i]
    BY <1>6, <2>1, <2>2
  <2> HIDE DEF a, b, T
  <2>4. a = b
    BY <2>3, SeqEqual
  <2> QED
    BY <2>4 DEF a, b
<1>9. FlattenSeq(Append(E(m), last)) = FlattenSeq(E(m)) \o last
  <2> DEFINE em == E(m)
  <2>1. em \in Seq(Seq(S)) /\ last \in Seq(S)
    BY <1>5, <1>7
  <2> HIDE DEF em, last
  <2>2. FlattenSeq(Append(em, last)) = FlattenSeq(em) \o last
    BY <2>1, FlattenAppend
  <2> QED
    BY <2>2 DEF em
<1> QED
  BY <1>1, <1>8, <1>9

-----------------------------------------------------------------------------
(* What is written is read. *)

(* Delimit's bytes leave the message in the parser's buffer. *)
Buffered(p, m) == p.delimited = FALSE /\ p.buffer = m /\ p.messages = <<>>

LEMMA ByteIsRead ==
  ASSUME NEW S, NEWLINE \in S, DELIMITER \in S, NEW file \in Seq(S), NEW m \in Seq(S),
         Buffered(AtEnd(file), m), NEW byte \in S
  PROVE  Buffered(AtEnd(file \o Escaped(byte)), Append(m, byte))
<1>0. AtEnd(file) \in DelimitParsers(S)
  BY AtEndType
<1>1. CASE byte \in {NEWLINE, DELIMITER}
  <2> DEFINE escape == Append(file, DELIMITER)
             p == AtEnd(file)
             q == AtEnd(escape)
             r == AtEnd(Append(escape, byte))
  <2>1. escape \in Seq(S)
    BY AppendProperties
  <2>2. q = Consume(p, DELIMITER) /\ r = Consume(q, byte)
    BY <2>1, AtEndOfMore
  <2>3. file \o Escaped(byte) = Append(escape, byte)
    <3>1. /\ <<DELIMITER>> \in Seq(S) /\ <<DELIMITER, byte>> = Append(<<DELIMITER>>, byte)
          /\ Escaped(byte) = <<DELIMITER, byte>>
      BY <1>1 DEF Escaped
    <3>2. file \o Append(<<DELIMITER>>, byte) = Append(file \o <<DELIMITER>>, byte)
      BY <3>1, ConcatAppend
    <3>3. file \o <<DELIMITER>> = escape
      BY AppendIsConcat
    <3> QED
      BY <3>1, <3>2, <3>3
  <2> HIDE DEF escape, p, q, r
  <2>4. p.delimited = FALSE /\ p.buffer = m /\ p.messages = <<>>
    BY DEF Buffered, p
  <2>5. q \in DelimitParsers(S) /\ q.delimited /\ q.buffer = m /\ q.messages = <<>>
    <3>1. Escapes(p, DELIMITER) /\ p \in DelimitParsers(S)
      BY <1>0, <2>4 DEF Escapes, p
    <3> QED
      BY <2>2, <2>4, <3>1, ConsumeIs
  <2>6. ~Escapes(q, byte) /\ ~EndsLine(q, byte)
    BY <2>5 DEF Escapes, EndsLine
  <2>7. /\ r \in DelimitParsers(S) /\ ~r.delimited
        /\ r.buffer = Append(m, byte) /\ r.messages = <<>>
    <3>1. /\ r \in DelimitParsers(S) /\ ~r.delimited
          /\ r.buffer = Append(q.buffer, byte) /\ r.messages = q.messages
      <4>1. r = Consume(q, byte) /\ q \in DelimitParsers(S)
        BY <2>2, <2>5
      <4> QED
        BY <2>6, <4>1, ConsumeIs
    <3> QED
      BY <2>5, <3>1
  <2>8. r.delimited = FALSE
    BY <2>7 DEF DelimitParsers
  <2> QED
    BY <2>3, <2>7, <2>8 DEF Buffered, r
<1>2. CASE byte \notin {NEWLINE, DELIMITER}
  <2> DEFINE p == AtEnd(file)
             r == AtEnd(Append(file, byte))
  <2>1. r = Consume(p, byte)
    BY AtEndOfMore
  <2>2. file \o Escaped(byte) = Append(file, byte)
    BY <1>2, AppendIsConcat DEF Escaped
  <2> HIDE DEF p, r
  <2>3. p.delimited = FALSE /\ p.buffer = m /\ p.messages = <<>>
    BY DEF Buffered, p
  <2>4. ~Escapes(p, byte) /\ ~EndsLine(p, byte) /\ p \in DelimitParsers(S)
    BY <1>0, <1>2 DEF Escapes, EndsLine, p
  <2>5. /\ r \in DelimitParsers(S) /\ ~r.delimited
        /\ r.buffer = Append(m, byte) /\ r.messages = <<>>
    BY <2>1, <2>3, <2>4, ConsumeIs, ZenonT(60)
  <2>6. r.delimited = FALSE
    BY <2>5 DEF DelimitParsers
  <2> QED
    BY <2>2, <2>5, <2>6 DEF Buffered, r
<1> QED
  BY <1>1, <1>2

LEMMA DelimitIsRead ==
  ASSUME NEW S, NEWLINE \in S, DELIMITER \in S, NEW m \in Seq(S)
  PROVE  Delimit(m) \in Seq(S) /\ Buffered(AtEnd(Delimit(m)), m)
<1> DEFINE read == {s \in Seq(S) : Delimit(s) \in Seq(S) /\ Buffered(AtEnd(Delimit(s)), s)}
<1>1. <<>> \in read
  <2>1. Buffered(NewDelimitParser, <<>>)
    BY DEF Buffered, NewDelimitParser
  <2>2. Buffered(AtEnd(<<>>), <<>>)
    BY <2>1, AtEndOfNothing
  <2> QED
    BY <2>2, EmptySeq, DelimitNothing
<1>2. ASSUME NEW s \in Seq(S), NEW byte \in S, s \in read
      PROVE  Append(s, byte) \in read
  <2>1. Escaped(byte) \in Seq(S)
    BY DEF Escaped
  <2>2. Delimit(s) \o Escaped(byte) \in Seq(S)
    BY <1>2, <2>1, ConcatProperties
  <2>3. Delimit(Append(s, byte)) = Delimit(s) \o Escaped(byte)
    BY DelimitAppend
  <2>4. Buffered(AtEnd(Delimit(s) \o Escaped(byte)), Append(s, byte))
    BY <1>2, ByteIsRead
  <2> QED
    BY <2>2, <2>3, <2>4, AppendProperties
<1> HIDE DEF read
<1>3. Seq(S) \subseteq read
  BY <1>1, <1>2, SequenceInduction
<1> QED
  BY <1>3 DEF read

LEMMA LineAloneIsRead ==
  ASSUME NEW S, NEWLINE \in S, DELIMITER \in S, NEW m \in Seq(S)
  PROVE  Line(m) \in Seq(S) /\ Whole(Line(m)) /\ Messages(Line(m)) = <<m>>
<1> DEFINE p == AtEnd(Delimit(m))
           q == AtEnd(Line(m))
<1>1. Delimit(m) \in Seq(S) /\ Line(m) = Append(Delimit(m), NEWLINE)
  BY DelimitIsRead DEF Line
<1>2. Line(m) \in Seq(S) /\ q = Consume(p, NEWLINE) /\ p \in DelimitParsers(S)
  BY <1>1, AtEndOfMore, AppendProperties, AtEndType
<1>3. p.delimited = FALSE /\ p.buffer = m /\ p.messages = <<>>
  BY DelimitIsRead DEF Buffered
<1>4. Whole(Line(m)) <=> ~q.delimited /\ q.buffer = <<>>
  BY DEF Whole
<1>5. Messages(Line(m)) = q.messages
  BY DEF Messages, AtEnd
<1> HIDE DEF p, q
<1>6. EndsLine(p, NEWLINE)
  BY <1>3 DEF EndsLine
<1>7. ~q.delimited /\ q.buffer = <<>> /\ q.messages = Append(p.messages, p.buffer)
  BY <1>2, <1>6, ConsumeIs
<1>8. Append(<<>>, m) = <<m>>
  OBVIOUS
<1> QED
  BY <1>2, <1>3, <1>4, <1>5, <1>7, <1>8

(* A line at the end of a file is one more message, whatever its bytes.    *)
THEOREM LineIsRead ==
  ASSUME NEW S, NEWLINE \in S, DELIMITER \in S,
         NEW file \in Seq(S), Whole(file), NEW m \in Seq(S)
  PROVE  /\ file \o Line(m) \in Seq(S)
         /\ Whole(file \o Line(m))
         /\ Messages(file \o Line(m)) = Append(Messages(file), m)
<1>1. Line(m) \in Seq(S) /\ Whole(Line(m)) /\ Messages(Line(m)) = <<m>>
  BY LineAloneIsRead
<1>2. /\ Messages(file \o Line(m)) = Messages(file) \o <<m>>
      /\ Whole(file \o Line(m))
  BY <1>1, MessagesOfConcat
<1>3. Messages(file) \in Seq(Seq(S))
  <2>1. AtEnd(file) \in DelimitParsers(S)
    BY AtEndType
  <2> QED
    BY <2>1 DEF DelimitParsers, Messages, AtEnd
<1>4. Messages(file) \o <<m>> = Append(Messages(file), m)
  <2> DEFINE T == Seq(S)
             ms == Messages(file)
  <2>1. ms \in Seq(T) /\ m \in T
    BY <1>3
  <2> HIDE DEF T, ms
  <2>2. Append(ms, m) = ms \o <<m>>
    BY <2>1, AppendIsConcat
  <2> QED
    BY <2>2 DEF ms
<1> QED
  BY <1>1, <1>2, <1>4, ConcatProperties

-----------------------------------------------------------------------------
(* The first message. *)

(* The parser in the middle of a file is as at the end of what is read.    *)
LEMMA InTheMiddle ==
  ASSUME NEW S, NEW file \in Seq(S), NEW n \in 0 .. Len(file)
  PROVE  SubSeq(file, 1, n) \in Seq(S) /\ Parser(file)[n] = AtEnd(SubSeq(file, 1, n))
<1> DEFINE part == SubSeq(file, 1, n)
<1>1. Len(file) \in Nat /\ \A i \in 1 .. Len(file) : file[i] \in S
  BY LenProperties, ElementOfSeq
<1>2. /\ part \in Seq(S) /\ Len(part) = n
      /\ \A i \in 1 .. n : part[i] = file[i]
  <2>1. \A i \in 1 .. n : file[i] \in S
    BY <1>1
  <2>2. /\ part \in Seq(S) /\ Len(part) = IF 1 <= n THEN n - 1 + 1 ELSE 0
        /\ \A i \in 1 .. n - 1 + 1 : part[i] = file[1 + i - 1]
    BY <2>1, SubSeqProperties
  <2>3. Len(part) = n
    BY <2>2
  <2>4. \A i \in 1 .. n : part[i] = file[i]
    BY <2>2
  <2> QED
    BY <2>2, <2>3, <2>4
<1> HIDE DEF part
<1>3. Parser(file)[n] = Parser(part)[n]
  <2>1. /\ Len(file) \in Nat /\ Len(part) \in Nat
        /\ n \in Nat /\ n <= Len(file) /\ n <= Len(part)
        /\ \A i \in 1 .. n : file[i] = part[i]
    BY <1>1, <1>2
  <2> QED
    BY <2>1, SameBytes
<1> QED
  BY <1>2, <1>3 DEF AtEnd, part

LEMMA FirstEnds ==
  ASSUME NEW S, NEW file \in Seq(S), Messages(file) # <<>>
  PROVE  /\ EndOfFirst(file) \in 1 .. Len(file)
         /\ Parser(file)[EndOfFirst(file)].messages # <<>>
         /\ Parser(file)[EndOfFirst(file) - 1].messages = <<>>
<1> DEFINE some == {i \in 0 .. Len(file) : Parser(file)[i].messages # <<>>}
<1>1. Len(file) \in Nat /\ DOMAIN file = 1 .. Len(file)
  BY LenProperties
<1>2. Len(file) \in some
  BY <1>1 DEF Messages
<1>3. PICK i \in some : \A j \in some : i <= j
  <2>1. some \subseteq Nat /\ some # {}
    BY <1>1, <1>2
  <2> HIDE DEF some
  <2> QED
    BY <2>1, LeastNatural
<1>4. 0 \notin some
  <2>1. Parser(file)[0] = NewDelimitParser
    BY <1>1, ParserIs DEF Parses
  <2> QED
    BY <2>1 DEF NewDelimitParser
<1>5. i \in DOMAIN file /\ i - 1 \in 0 .. Len(file) /\ i - 1 \notin some
  BY <1>1, <1>3, <1>4
<1>6. Parser(file)[i].messages # <<>> /\ Parser(file)[i - 1].messages = <<>>
  BY <1>3, <1>5
<1>7. \E k \in DOMAIN file :
        Parser(file)[k].messages # <<>> /\ Parser(file)[k - 1].messages = <<>>
  BY <1>5, <1>6
<1> QED
  BY <1>1, <1>7 DEF EndOfFirst

(* Once the first message is read, what is left holds the others.          *)
THEOREM FirstIsRead ==
  ASSUME NEW S, NEW file \in Seq(S), Whole(file), Messages(file) # <<>>
  PROVE  /\ WithoutFirst(file) \in Seq(S)
         /\ Whole(WithoutFirst(file))
         /\ Messages(WithoutFirst(file)) = Tail(Messages(file))
<1> DEFINE e == EndOfFirst(file)
           a == SubSeq(file, 1, e)
           b == WithoutFirst(file)
           front == SubSeq(file, 1, e - 1)
<1>1. /\ Len(file) \in Nat /\ e \in 1 .. Len(file)
      /\ Parser(file)[e].messages # <<>> /\ Parser(file)[e - 1].messages = <<>>
  BY FirstEnds, LenProperties
<1>2. a \in Seq(S) /\ AtEnd(a).messages # <<>>
  BY <1>1, InTheMiddle
<1>3. front \in Seq(S) /\ AtEnd(front).messages = <<>>
  BY <1>1, InTheMiddle
<1>4. a = Append(front, file[e]) /\ file[e] \in S
  <2>1. file[e] \in S
    BY <1>1, ElementOfSeq
  <2>2. SubSeq(file, 1, e) = SubSeq(file, 1, e - 1) \o <<file[e]>>
    <3>1. 1 \in 1 .. Len(file) /\ e \in 1 .. Len(file)
      BY <1>1
    <3> HIDE DEF e
    <3> QED
      BY <3>1, SubSeqRecursiveSecond
  <2>3. Append(front, file[e]) = front \o <<file[e]>>
    BY <1>3, <2>1, AppendIsConcat
  <2> QED
    BY <2>1, <2>2, <2>3
<1>5. b \in Seq(S) /\ file = a \o b
  <2>1. e + 1 \in Int /\ Len(file) \in Int /\ \A i \in e + 1 .. Len(file) : file[i] \in S
    BY <1>1, ElementOfSeq
  <2>2. b \in Seq(S)
    BY <2>1, SubSeqProperties DEF WithoutFirst
  <2>3. /\ 1 \in 1 .. Len(file) + 1 /\ e \in 1 - 1 .. Len(file)
        /\ Len(file) \in e .. Len(file)
    BY <1>1
  <2>4. SubSeq(file, 1, e) \o SubSeq(file, e + 1, Len(file)) = SubSeq(file, 1, Len(file))
    BY <2>3, ConcatAdjacentSubSeq
  <2> QED
    BY <2>2, <2>4, SubSeqFull DEF WithoutFirst
<1> HIDE DEF e, a, b, front
<1>6. \E m : Whole(a) /\ Messages(a) = <<m>>
  <2> DEFINE p == AtEnd(front)
             q == AtEnd(a)
  <2>1. q = Consume(p, file[e]) /\ p \in DelimitParsers(S)
    BY <1>3, <1>4, AtEndOfMore, AtEndType
  <2>2. p.messages = <<>> /\ q.messages # <<>>
    BY <1>2, <1>3
  <2>3. /\ Whole(a) <=> ~q.delimited /\ q.buffer = <<>>
        /\ Messages(a) = q.messages
    BY DEF Whole, Messages, AtEnd
  <2> HIDE DEF p, q
  <2>4. EndsLine(p, file[e])
    BY <1>4, <2>1, <2>2, ConsumeIs, SMTT(30)
  <2>5. ~q.delimited /\ q.buffer = <<>> /\ q.messages = Append(p.messages, p.buffer)
    BY <1>4, <2>1, <2>4, ConsumeIs
  <2>6. Append(<<>>, p.buffer) = <<p.buffer>>
    OBVIOUS
  <2> QED
    BY <2>2, <2>3, <2>5, <2>6
<1>7. PICK m : Whole(a) /\ Messages(a) = <<m>>
  BY <1>6
<1>8. Messages(file) = <<m>> \o Messages(b) /\ (Whole(file) <=> Whole(b))
  BY <1>2, <1>5, <1>7, MessagesOfConcat
<1>9. Messages(b) \in Seq(Seq(S)) /\ Messages(a) \in Seq(Seq(S))
  BY <1>2, <1>5, AtEndType DEF DelimitParsers, Messages, AtEnd
<1>10. Tail(<<m>> \o Messages(b)) = Messages(b)
  <2> DEFINE ms == Messages(b)
             T == Seq(S)
  <2>1. ms \in Seq(T) /\ m \in T
    BY <1>7, <1>9
  <2> HIDE DEF ms, T
  <2>2. Tail(<<m>> \o ms) = ms
    BY <2>1
  <2> QED
    BY <2>2 DEF ms
<1> QED
  BY <1>5, <1>8, <1>10 DEF b
=============================================================================
