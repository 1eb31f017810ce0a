-------------------------------- MODULE Texts --------------------------------
(***************************************************************************)
(* The functions of function_string.go on STRING and BYTES.  Go counts a   *)
(* string in bytes; some functions convert it to code points first.  A     *)
(* pattern of the REGEXP functions is a literal text here, not empty,      *)
(* which leaves out what the regexp library matches and keeps what is done *)
(* with it.                                                                *)
(***************************************************************************)
EXTENDS Values

Like(v, s) == Result(Kind(v), s)
BytesValue(b) == Result("bytes", b)
IsText(v) == Kind(v) \in {"string", "bytes"}
InBytes(v) == IF Kind(v) = "bytes" THEN Num(v) ELSE Utf8(Num(v))
OfBytes(v, b) == Like(v, IF Kind(v) = "bytes" THEN b ELSE FromUtf8(b))

(***************************************************************************)
(* Searching                                                               *)
(***************************************************************************)
\* strings.Index and bytes.Index: counted from 0, or -1.
Index(s, t) ==
  LET hits == {i \in 0..(Len(s) - Len(t)) : SubSeq(s, i + 1, i + Len(t)) = t}
  IN  IF hits = {} THEN -1 ELSE CHOOSE i \in hits : \A j \in hits : i <= j
From(s, i) == SubSeq(s, i + 1, Len(s))

\* The matches of a literal text that do not overlap.
RECURSIVE Matches(_, _, _)
Matches(s, t, from) ==
  LET i == Index(From(s, from), t)
  IN  IF i < 0 THEN <<>> ELSE <<from + i>> \o Matches(s, t, from + i + Len(t))

\* The characters of a text, each a text: of BYTES, the UTF-8 sequences in it.
RECURSIVE Utf8Sequences(_)
Utf8Sequences(b) ==
  LET n == IF Len(b) >= 2 /\ b[1] \in 194..223 /\ b[2] \in 128..191 THEN 2 ELSE 1
  IN  IF b = <<>> THEN <<>> ELSE <<SubSeq(b, 1, n)>> \o Utf8Sequences(From(b, n))
Characters(v) == IF Kind(v) = "bytes" THEN Utf8Sequences(Num(v)) ELSE [i \in DOMAIN Num(v) |-> <<Num(v)[i]>>]

RECURSIVE ReplaceFound(_, _, _)
ReplaceFound(s, t, by) ==
  LET i == Index(s, t)
  IN  IF i < 0 THEN s ELSE SubSeq(s, 1, i) \o by \o ReplaceFound(From(s, i + Len(t)), t, by)

\* strings.ReplaceAll and bytes.ReplaceAll: an empty text is found before every character and at the end.
ReplaceEvery(v, t, by) ==
  LET cs == Characters(v)
  IN  IF t = <<>> THEN FlattenSeq([i \in DOMAIN cs |-> by \o cs[i]]) \o by ELSE ReplaceFound(Num(v), t, by)

RECURSIVE SplitAt(_, _)
SplitAt(s, t) ==
  LET i == Index(s, t)
  IN  IF i < 0 THEN <<s>> ELSE <<SubSeq(s, 1, i)>> \o SplitAt(From(s, i + Len(t)), t)

Replace(v, from, to) == Like(v, ReplaceEvery(v, Num(from), Num(to)))

\* An empty delimiter splits between the characters.
Split(v, delim) ==
  LET parts == IF Num(delim) = <<>> THEN Characters(v) ELSE SplitAt(Num(v), Num(delim))
  IN  ArrayV([i \in DOMAIN parts |-> Like(v, parts[i])])

Strpos(v, search) == IntV(Index(InBytes(v), InBytes(search)) + 1)
StartsWith(v, starts) == BoolV(IsPrefix(InBytes(starts), InBytes(v)))
EndsWith(v, ends) == BoolV(IsSuffix(InBytes(ends), InBytes(v)))

\* The scan of INSTR steps on by one byte, so that occurrences may overlap; it goes on after
\* the last one and counts nothing there.  For a negative position it is the same scan, of what
\* comes before that position from the end, and the place it finds is taken from the end.
RECURSIVE InstrFrom(_, _, _, _)
InstrFrom(src, search, i, left) ==
  LET idx == Index(From(src, i), search)
  IN  IF i >= Len(src) \/ idx < 0 THEN -1
      ELSE IF left = 1 THEN i + idx
      ELSE InstrFrom(src, search, i + idx + 1, left - 1)

Instr(v, search, position, occurrence) ==
  LET src == InBytes(v)
      pos == Abs(position)
      seen == IF position < 0 THEN SubSeq(src, 1, Len(src) - pos + 1) ELSE From(src, pos - 1)
      i == InstrFrom(seen, InBytes(search), 0, occurrence)
  IN  IF position = 0 \/ occurrence <= 0 \/ Kind(v) # Kind(search) \/ pos >= Len(src) THEN Error
      ELSE IF i < 0 THEN IntV(0)
      ELSE IF position < 0 THEN IntV(Len(src) - i - 1) ELSE IntV(pos + i)

\* The position is compared with the code points and taken in bytes.
RegexpMatches(v, t, position) == Matches(From(InBytes(v), position - 1), InBytes(t), 0)

RegexpExtract(v, t, position, occurrence) ==
  LET found == RegexpMatches(v, t, position)
  IN  IF position <= 0 \/ occurrence <= 0 THEN Error
      ELSE IF position > Len(Num(v)) \/ Len(found) < occurrence THEN Null ELSE Like(v, Num(t))

RegexpInstr(v, t, position, occurrence) ==
  LET found == RegexpMatches(v, t, position)
  IN  IF position <= 0 \/ occurrence <= 0 THEN Error
      ELSE IF position > Len(Num(v)) \/ Len(found) < occurrence THEN IntV(0) ELSE IntV(position + found[occurrence])

RegexpExtractAll(v, t) == ArrayV([i \in DOMAIN Matches(InBytes(v), InBytes(t), 0) |-> Like(v, Num(t))])

(***************************************************************************)
(* Pieces                                                                  *)
(***************************************************************************)
Left(v, n) == IF n < 0 THEN Error ELSE IF Len(Num(v)) <= n THEN v ELSE Like(v, SubSeq(Num(v), 1, n))
Right(v, n) == IF n < 0 THEN Error ELSE IF Len(Num(v)) <= n THEN v ELSE Like(v, From(Num(v), Len(Num(v)) - n))

\* Mutant: positions count from 0.
SubstrPos_FromZero(pos, len) ==
  IF pos = 0 \/ pos < -len THEN 0 ELSE IF pos > len THEN len ELSE IF pos > 0 THEN pos ELSE len + pos
SubstrPos(pos, len) ==
  IF pos = 0 \/ pos < -len THEN 0 ELSE IF pos > len THEN len ELSE IF pos > 0 THEN pos - 1 ELSE len + pos

\* The positions are counted in code points and applied to the bytes.
Substr(v, pos, length) ==
  LET len == Len(Num(v))
      start == SubstrPos(pos, len)
      count == IF length = Null \/ Num(length) > len THEN len ELSE Num(length)
      end == IF start + count > len THEN len ELSE start + count
  IN  IF length # Null /\ Num(length) < 0 THEN Error ELSE OfBytes(v, SubSeq(InBytes(v), start + 1, end))

Times(s, n) == FlattenSeq([i \in 1..n |-> s])

\* What fills up: a STRING has its pattern repeated as needed; for BYTES it is empty when it
\* is long enough as it is.
Pattern(v, pattern, remain) ==
  LET p == Num(pattern)
  IN  IF remain > Len(p) THEN IF p = <<>> THEN Panic ELSE Like(v, Times(p, (remain - Len(p)) \div Len(p) + 2))
      ELSE IF Kind(v) = "string" \/ remain = 0 THEN Like(v, p) ELSE Panic

Blank == StringV(<<Space>>)
\* front: LPAD, which does not check the length.
Pad(v, n, pattern, front) ==
  LET s == Num(v)
      remain == n - Len(s)
      filled == IF pattern = Null THEN Like(v, Times(<<Space>>, remain)) ELSE Pattern(v, pattern, remain)
      fill == SubSeq(Num(filled), 1, remain)
  IN  IF n < 0 THEN IF front THEN Panic ELSE Error
      ELSE IF Len(s) >= n THEN Like(v, SubSeq(s, 1, n))
      ELSE IF filled = Panic THEN Panic ELSE Like(v, IF front THEN fill \o s ELSE s \o fill)

Repeat(v, n) == IF n < 0 THEN Panic ELSE Like(v, Times(Num(v), n))

\* The ends to cut: "left", "right" or "both"; BYTES need a set of characters.
Trim(v, cutset, ends) ==
  LET cut == IF cutset = Null THEN {Space} ELSE Range(Num(cutset))
      kept == {i \in DOMAIN Num(v) : Num(v)[i] \notin cut}
      first == IF ends = "right" THEN 1 ELSE CHOOSE i \in kept : \A j \in kept : i <= j
      last == IF ends = "left" THEN Len(Num(v)) ELSE CHOOSE i \in kept : \A j \in kept : i >= j
  IN  IF Kind(v) = "bytes" /\ cutset = Null THEN Error
      ELSE Like(v, IF kept = {} THEN <<>> ELSE SubSeq(Num(v), first, last))

(***************************************************************************)
(* Characters                                                              *)
(***************************************************************************)
Upper(c) == IF c \in (97..122) \union ((224..254) \ {247}) THEN c - 32 ELSE c
Lower(c) == IF c \in (65..90) \union ((192..222) \ {215}) THEN c + 32 ELSE c
UpperCase(v) == Like(v, [i \in DOMAIN Num(v) |-> Upper(Num(v)[i])])
LowerCase(v) == Like(v, [i \in DOMAIN Num(v) |-> Lower(Num(v)[i])])

\* Replaces the characters one after the other, also those it has put in.
RECURSIVE TranslateFrom(_, _, _, _)
TranslateFrom(v, source, target, i) ==
  IF i > Len(source) THEN v
  ELSE LET by == IF i <= Len(target) THEN <<target[i]>> ELSE <<>>
       IN  TranslateFrom(Like(v, ReplaceEvery(v, <<source[i]>>, by)), source, target, i + 1)
Translate(v, source, target) ==
  IF Kind(source) # Kind(v) \/ Kind(target) # Kind(v) \/ ~IsInjective(Num(source)) THEN Error
  ELSE TranslateFrom(v, Num(source), Num(target), 1)

RECURSIVE InitcapFrom(_, _, _)
InitcapFrom(src, i, delims) ==
  LET cur == src[i]
      isDelim == cur \in delims
      this == IF i = 1 THEN Upper(cur) ELSE IF isDelim THEN cur ELSE Lower(cur)
  IN  CASE i > Len(src) -> <<>>
        [] i < Len(src) /\ isDelim /\ src[i + 1] \notin delims ->
             <<this, Upper(src[i + 1])>> \o InitcapFrom(src, i + 2, delims)
        [] OTHER -> <<this>> \o InitcapFrom(src, i + 1, delims)
DefaultDelims == (32..38) \union (40..47) \union (58..60) \union (62..64) \union (91..95) \union (123..126)
Initcap(v, delims) == Like(v, InitcapFrom(Num(v), 1, IF delims = Null THEN DefaultDelims ELSE Range(Num(delims))))

\* ASCII reads the first byte of a text that may have none.
Ascii(v) == IF Num(v) = <<>> THEN Panic ELSE IntV(Utf8(Num(v))[1])
Unicode(v) == IntV(IF Num(v) = <<>> THEN 0 ELSE Num(v)[1])
Chr(n) == StringV(IF n = 0 THEN <<>> ELSE <<IF n < 0 THEN 65533 ELSE n>>)
Codes(array) == [i \in DOMAIN Num(array) |-> ToInt64(Num(array)[i])]

CodePointsToString(array) ==
  LET codes == Codes(array)
  IN  IF Null \in Range(Num(array)) THEN Null
      ELSE StringV(SelectSeq([i \in DOMAIN codes |-> Num(codes[i])], LAMBDA c : c # 0))
CodePointsToBytes(array) ==
  IF Null \in Range(Num(array)) THEN Panic ELSE BytesValue([i \in DOMAIN Num(array) |-> Num(Codes(array)[i]) % 256])
ToCodePoints(v) == ArrayV([i \in DOMAIN Num(v) |-> IntV(Num(v)[i])])

HexDigit(n) == IF n < 10 THEN Zero + n ELSE 87 + n
ToHex(b) == StringV(FlattenSeq([i \in DOMAIN b |-> <<HexDigit(b[i] \div 16), HexDigit(b[i] % 16)>>]))
FromHex(v) ==
  LET s == IF Len(Num(v)) % 2 = 1 THEN <<Zero>> \o Num(v) ELSE Num(v)
      digits == [i \in DOMAIN s |-> Lower(s[i])]
  IN  IF \E i \in DOMAIN s : ~IsHexDigit(digits[i]) THEN Error
      ELSE BytesValue([i \in 1..(Len(s) \div 2) |-> 16 * DigitValue(digits[2 * i - 1]) + DigitValue(digits[2 * i])])

\* The kind of the result is that of the first argument; the NULLs have been answered before.
Concat(args) ==
  IF ~IsText(args[1]) THEN Error
  ELSE OfBytes(args[1], FlattenSeq([i \in DOMAIN args |-> Num(BytesOf(args[i]))]))

=============================================================================
