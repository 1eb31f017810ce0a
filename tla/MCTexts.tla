------------------------------- MODULE MCTexts -------------------------------
(***************************************************************************)
(* What the functions on STRING and BYTES mean (function_string.go).       *)
(***************************************************************************)
EXTENDS MCScalars

A == 97
B == 98
EAcute == 233      \* two bytes in UTF-8
Chars == {A, B, EAcute}
Words == SeqsUpTo(Chars, 3)
ShortWords == SeqsUpTo({A, EAcute}, 1)
AsciiWords == SeqsUpTo({A, B}, 4)
Text(s) == StringV(s)
OneByte(s) == \A i \in DOMAIN s : s[i] < 128

PieceExprs ==
  {One("piece", "substr", <<Text(s), IntV(p)>> \o n) : s \in Words, p \in -4..4, n \in {<<>>, <<IntV(0)>>, <<IntV(2)>>}}
  \union {One("piece", "substr", <<BytesValue(s), IntV(p), IntV(2)>>) : s \in SeqsUpTo({A, 195}, 3), p \in -4..4}
  \union {About("sides", <<Plainly("left", <<v, IntV(n)>>), Plainly("right", <<v, IntV(n)>>)>>) :
            v \in {Text(s) : s \in Words} \union {BytesValue(<<A, 195, 0>>)}, n \in 0..4}
  \union {About("padded", <<Plainly(f, <<Text(s), IntV(n)>> \o p), Plainly("char_length", <<Hole>>)>>) :
            f \in {"lpad", "rpad"}, s \in ShortWords, n \in 0..4, p \in {<<>>, <<Text(<<A, EAcute>>)>>, <<Text(<<B>>)>>}}
  \union {About("trimmed", <<Plainly("ltrim", <<Text(s), Text(c)>>), Plainly("rtrim", <<Hole, Text(c)>>), Plainly("trim", <<Text(s), Text(c)>>)>>) :
            s \in Words, c \in {<<A>>, <<B, EAcute>>}}

SearchExprs ==
  {About("found", <<Plainly("strpos", <<Text(s), Text(t)>>), Plainly("starts_with", <<Text(s), Text(t)>>),
                    Plainly("ends_with", <<Text(s), Text(t)>>)>>) : s \in Words, t \in SeqsUpTo({A, EAcute}, 2)}
  \union {One("occurrence", "instr", <<Text(s), Text(t), IntV(p), IntV(k)>>) :
            s \in AsciiWords, t \in SeqsUpTo({A, B}, 2) \ {<<>>}, p \in -3..3, k \in 1..2}
  \union {About("matches", <<Plainly("regexp_extract_all", <<Text(s), Text(t)>>), Plainly("array_length", <<Hole>>),
                             Plainly("regexp_instr", <<Text(s), Text(t), IntV(1), IntV(k)>>)>>) :
            s \in AsciiWords, t \in SeqsUpTo({A, B}, 2) \ {<<>>}, k \in 1..2}
  \union {About("rejoined", <<Plainly("split", <<Text(s), Text(t)>>), Plainly("array_to_string", <<Hole, Text(u)>>),
                              Plainly("replace", <<Text(s), Text(t), Text(u)>>)>>) :
            s \in Words, t \in SeqsUpTo({A, EAcute}, 2) \ {<<>>}, u \in {<<>>, <<B>>, <<A, B>>}}
  \union {About("inserted", <<Plainly("replace", <<Text(s), Text(<<>>), Text(u)>>),
                              Plainly("replace", <<BytesValue(Utf8(s)), BytesValue(<<>>), BytesValue(Utf8(u))>>),
                              Plainly("split", <<Text(s), Text(<<>>)>>), Plainly("array_to_string", <<Hole, Text(u)>>)>>) :
            s \in Words, u \in {<<>>, <<B>>, <<A, EAcute>>}}

CharacterExprs ==
  {One("translated", "translate", <<Text(s), Text(t), Text(u)>>) : s \in Words, t, u \in SeqsUpTo({A, B}, 2)}
  \union {One("words", "initcap", <<Text(s)>>) : s \in SeqsUpTo({65, B, EAcute, Space}, 3)}
  \union {About("case", <<Plainly("upper", <<Text(s)>>), Plainly("lower", <<Hole>>)>>) : s \in SeqsUpTo({65, B, EAcute, Space}, 2)}
  \union {About("codes", <<Plainly("to_code_points", <<Text(s)>>), Plainly("code_points_to_string", <<Hole>>)>>) : s \in Words}
  \union {About("codes", <<Plainly("to_hex", <<BytesValue(s)>>), Plainly("from_hex", <<Hole>>)>>) : s \in SeqsUpTo({0, A, 195}, 2)}
  \union {About("codes", <<Plainly("to_code_points", <<BytesValue(s)>>), Plainly("code_points_to_bytes", <<Hole>>)>>) :
            s \in SeqsUpTo({0, A, 195}, 2)}
  \union {About("together", <<Plainly("concat", <<v, w>>), Plainly("byte_length", <<Hole>>), Plainly("concat", <<v, w>>),
                              Plainly("reverse", <<Hole>>)>>) : v, w \in {Text(s) : s \in SeqsUpTo({A, EAcute}, 2)}}

\* The characters at the positions, as a text.
CharsWhere(s, P(_)) == LET places == SelectSeq([i \in DOMAIN s |-> i], P) IN [i \in DOMAIN places |-> s[places[i]]]
\* The positions, counted from 1, where t is in s.
Occurrences(s, t) == {i \in 1..Len(s) : i + Len(t) - 1 <= Len(s) /\ \A j \in DOMAIN t : s[i + j - 1] = t[j]}
\* The k-th of a set of numbers, or 0.
Nth(S, k) == IF Cardinality(S) < k THEN 0 ELSE CHOOSE n \in S : Cardinality({m \in S : m <= n}) = k
Repeated(p, n) == [i \in 1..n |-> p[1 + ((i - 1) % Len(p))]]
HasOther(s, c) == \E i \in DOMAIN s : s[i] \notin c

\* SUBSTR, LEFT, RIGHT, LPAD, RPAD and TRIM: a text of several bytes a character is cut by its
\* bytes by SUBSTR.
PiecesMean ==
  /\ Is("piece") =>
       LET s == Num(Given(1))
           p == Num(Given(2))
           first == IF p > 0 THEN p ELSE IF p = 0 \/ -p > Len(s) THEN 1 ELSE Len(s) + 1 + p
           count == IF Len(expr.calls[1].args) = 3 THEN Num(Given(3)) ELSE Len(s)
       IN  \/ Kind(Given(1)) = "string" /\ ~OneByte(s)
           \/ Answer = Like(Given(1), CharsWhere(s, LAMBDA i : first <= i /\ i < first + count))
  /\ Is("sides") =>
       LET s == Num(Given(1))
           n == Num(Given(2))
       IN  /\ answers[1] = Like(Given(1), CharsWhere(s, LAMBDA i : i <= n))
           /\ answers[2] = Like(Given(1), CharsWhere(s, LAMBDA i : i > Len(s) - n))
  /\ Is("padded") =>
       LET s == Num(Given(1))
           n == Num(Given(2))
           p == IF Len(expr.calls[1].args) = 3 THEN Num(Given(3)) ELSE <<Space>>
           fill == Repeated(p, n - Len(s))
       IN  /\ Num(answers[1]) = (IF n <= Len(s) THEN SubSeq(s, 1, n)
                                 ELSE IF expr.calls[1].f = "lpad" THEN fill \o s ELSE s \o fill)
           /\ answers[2] = IntV(n)
  /\ Is("trimmed") =>
       LET s == Num(Given(1))
           c == Range(Num(Given(2)))
       IN  answers[2] = answers[3] /\ Num(Answer) = CharsWhere(s, LAMBDA i : HasOther(SubSeq(s, 1, i), c) /\ HasOther(SubSeq(s, i, Len(s)), c))

\* STRPOS, INSTR, STARTS_WITH, ENDS_WITH, REGEXP_INSTR, SPLIT and REPLACE agree on where a text is
\* in another one, wherever it is found more than once or overlaps itself (function_string.go:248-331,
\* 605-666, 741-773, 1000-1091); a text of several bytes a character is searched by its bytes, and the
\* empty text is between all characters.  INSTR of a negative position counts from the left what lies
\* before that position, not backwards from it, and answers how far from the end it is.
SearchesAgree ==
  /\ Is("found") =>
       LET s == Num(Given(1))
           t == Num(Given(2))
           there == IF t = <<>> THEN {1} ELSE Occurrences(s, t)
       IN  /\ ~OneByte(s) \/ answers[1] = IntV(Nth(there, 1))
           /\ (answers[1] = IntV(0)) <=> there = {}
           /\ answers[2] = Shown(1 \in there \/ t = <<>>)
           /\ answers[3] = Shown(t = <<>> \/ (Len(s) + 1 - Len(t)) \in there)
  /\ Is("occurrence") =>
       LET s == Num(Given(1))
           p == Num(Given(3))
           there == Occurrences(s, Num(Given(2)))
           k == Num(Given(4))
           before == Nth({i \in there : i + Len(Num(Given(2))) <= Len(s) + 2 + p}, k)
       IN  Answer = IF p = 0 \/ Abs(p) >= Len(s) THEN Error
                    ELSE IF p > 0 THEN IntV(Nth({i \in there : i >= p}, k))
                    ELSE IntV(IF before = 0 THEN 0 ELSE Len(s) - before)
  /\ Is("matches") =>
       LET k == Num(expr.calls[3].args[4])
       IN  (Num(answers[2]) >= k) <=> (answers[3] # IntV(0))
  /\ Is("rejoined") =>
       /\ answers[2] = answers[3]
       /\ \A i \in DOMAIN Num(answers[1]) : Occurrences(Num(Num(answers[1])[i]), Num(Given(2))) = {}
  /\ Is("inserted") =>
       LET s == Num(Given(1))
           u == Num(Given(3))
           step == Len(u) + 1
       IN  /\ Num(answers[1]) = [i \in 1..(Len(s) * step + Len(u)) |-> IF i % step = 0 THEN s[i \div step] ELSE u[i % step]]
           /\ Num(answers[2]) = Utf8(Num(answers[1]))
           /\ s = <<>> \/ Num(answers[1]) = u \o Num(answers[4]) \o u

\* TRANSLATE, INITCAP, UPPER, LOWER, CONCAT, REVERSE and the codes.
CharactersMean ==
  /\ Is("translated") =>
       LET s == Num(Given(1))
           t == Num(Given(2))
           u == Num(Given(3))
           Place(c) == CHOOSE i \in DOMAIN t : t[i] = c
           Of(c) == IF c \notin Range(t) THEN <<c>> ELSE IF Place(c) \in DOMAIN u THEN <<u[Place(c)]>> ELSE <<>>
       IN  IF ~IsInjective(t) THEN Answer = Error
           ELSE \/ \E i \in DOMAIN t, j \in DOMAIN u : j < i /\ u[j] = t[i]   \* what was put in is translated again
                \/ Num(Answer) = FlattenSeq([i \in DOMAIN s |-> Of(s[i])])
  /\ Is("words") =>
       LET s == Num(Given(1))
       IN  Num(Answer) = [i \in DOMAIN s |-> IF i = 1 \/ s[i - 1] = Space THEN Upper(s[i]) ELSE Lower(s[i])]
  /\ Is("case") => answers[2] = Text([i \in DOMAIN Num(Given(1)) |-> Lower(Num(Given(1))[i])])
  /\ Is("codes") => Answer = Given(1)
  /\ Is("together") =>
       /\ answers[2] = IntV(Len(Utf8(Num(Given(1)))) + Len(Utf8(Num(Given(2)))))
       /\ Num(answers[4]) = Reverse(Num(Given(1)) \o Num(Given(2)))

\* The functions that cut, fill and change a text take the characters at the positions they say, of
\* negative positions from the end, fill up to the length, change each character by itself and
\* no other, and the codes of a text give it back (function_string.go:39-108, 183-246, 333-434,
\* 775-938, 1093-1329); those that search a text agree on where another one is in it, the empty
\* one included.
TextsMean == PiecesMean /\ CharactersMean /\ SearchesAgree

=============================================================================
