------------------------------- MODULE Values -------------------------------
(***************************************************************************)
(* The values of value.go: their operators, their comparisons and their    *)
(* conversions; CAST (encoder.go) and the way of a value through SQLite    *)
(* (encoder.go and decoder.go).                                            *)
(*                                                                         *)
(* An INT64 lies between -MaxInt - 1 and MaxInt and wraps around.  A       *)
(* FLOAT64 counts quarters and keeps Exact of them apart at each exponent; *)
(* a finer result is rounded to a quarter, and NaN and the infinities are  *)
(* left out.  A NUMERIC is a fraction <<n, d>>, a STRING a sequence of     *)
(* code points, BYTES a sequence of bytes, an ARRAY a sequence of values   *)
(* and a STRUCT a sequence of pairs <<key, value>>.  A JSON stands for     *)
(* the value it denotes.                                                   *)
(***************************************************************************)
EXTENDS Calendar, TLC

CONSTANTS
  MaxInt,        \* 2^63 - 1
  Exact,         \* 2^53
  NumericScale,  \* 9 digits after the point
  BigScale       \* 38 digits after the point

ASSUME ValuesAssumption == {MaxInt, Exact, NumericScale, BigScale} \subseteq Nat \ {0}

(***************************************************************************)
(* Numbers                                                                 *)
(***************************************************************************)
Wrap(n) == ((n + MaxInt + 1) % (2 * MaxInt + 2)) - MaxInt - 1
InRange(n) == Wrap(n) = n

\* The quotient rounded to the nearest, ties to even.
Nearest(a, b) ==
  LET k == (2 * a + b) \div (2 * b)
  IN  IF (2 * a + b) % (2 * b) = 0 /\ k % 2 = 1 THEN k - 1 ELSE k

Spacings == {2^k : k \in 0..16}
FloatV(q) ==
  LET unit == CHOOSE u \in Spacings : Abs(q) <= u * Exact /\ \A w \in Spacings : Abs(q) <= w * Exact => u <= w
  IN  Result("float", unit * Nearest(q, unit))

Gcd[m \in Nat, n \in Nat] == IF n = 0 THEN m ELSE Gcd[n, m % n]
\* A fraction in its lowest terms.
Rat(n, d) ==
  LET common == Gcd[Abs(n), Abs(d)]
      sign == IF d < 0 THEN -1 ELSE 1
  IN  <<sign * Quotient(n, common), Abs(d) \div common>>
NumericV(r) == Result("numeric", r)
BigNumericV(r) == Result("bignumeric", r)

TimeKinds == {"date", "datetime", "time", "timestamp"}
NumericKinds == {"numeric", "bignumeric"}

(***************************************************************************)
(* Texts                                                                   *)
(***************************************************************************)
Zero == 48
Minus == 45
Dot == 46
Digits[n \in Nat] == IF n < 10 THEN <<Zero + n>> ELSE Append(Digits[n \div 10], Zero + (n % 10))
Decimal(n) == (IF n < 0 THEN <<Minus>> ELSE <<>>) \o Digits[Abs(n)]
Padded(n, width) == [i \in 1..(width - Len(Digits[n])) |-> Zero] \o Digits[n]

RECURSIVE TrimRight(_, _)
TrimRight(s, c) == IF s # <<>> /\ Last(s) = c THEN TrimRight(Front(s), c) ELSE s

\* A number of units of 10^-scale, without the zeros and the point at its end.
Fixed(n, scale) ==
  LET whole == Abs(n) \div 10^scale
  IN  (IF n < 0 THEN <<Minus>> ELSE <<>>)
        \o TrimRight(TrimRight(Digits[whole] \o <<Dot>> \o Padded(Abs(n) % 10^scale, scale), Zero), Dot)

\* FloatString rounds half away from zero.
RatText(r, scale) ==
  LET units == (2 * Abs(r[1]) * 10^scale + r[2]) \div (2 * r[2])
  IN  Fixed(IF r[1] < 0 THEN -units ELSE units, scale)

TrueText == <<116, 114, 117, 101>>
FalseText == <<102, 97, 108, 115, 101>>
NullText == <<110, 117, 108, 108>>
BoolText(b) == IF b THEN TrueText ELSE FalseText

\* Mutant: months and days are not padded.
DateText_Unpadded(n) == Padded(Year(n), 4) \o <<Minus>> \o Digits[Month(n)] \o <<Minus>> \o Digits[DayOfMonth(n)]
DateText(n) == Padded(Year(n), 4) \o <<Minus>> \o Padded(Month(n), 2) \o <<Minus>> \o Padded(DayOfMonth(n), 2)
Colon == 58
ClockText(t) ==
  Padded(Hour(t), 2) \o <<Colon>> \o Padded(Minute(t), 2) \o <<Colon>> \o Padded(Second(t), 2)
    \o (IF t.us = 0 THEN <<>> ELSE TrimRight(<<Dot>> \o Padded(t.us, 6), Zero))
\* A date, a time or both, with what is between them and after a TIMESTAMP.
DateTimeText(v, between, zone) ==
  (IF Kind(v) = "time" THEN <<>> ELSE DateText(v[2].day))
    \o (IF Kind(v) \in {"datetime", "timestamp"} THEN <<between>> ELSE <<>>)
    \o (IF Kind(v) = "date" THEN <<>> ELSE ClockText(v[2]))
    \o (IF Kind(v) = "timestamp" THEN zone ELSE <<>>)
Space == 32
UTCText == <<43, 48, 48>>

Utf8(s) == FlattenSeq([i \in DOMAIN s |-> IF s[i] < 128 THEN <<s[i]>>
                                          ELSE <<192 + (s[i] \div 64), 128 + (s[i] % 64)>>])

\* A byte that starts no code point, or the second of one that is missing, reads as U+FFFD.
RECURSIVE FromUtf8(_)
FromUtf8(b) ==
  CASE b = <<>> -> <<>>
    [] b # <<>> /\ b[1] < 128 -> <<b[1]>> \o FromUtf8(Tail(b))
    [] Len(b) >= 2 /\ b[1] \in 194..223 /\ b[2] \in 128..191 ->
         <<64 * (b[1] - 192) + b[2] - 128>> \o FromUtf8(SubSeq(b, 3, Len(b)))
    [] OTHER -> <<65533>> \o FromUtf8(Tail(b))

Quote == 34
RECURSIVE ToJSON(_), ToText(_)
Joined(parts, sep) == IF parts = <<>> THEN <<>> ELSE FoldLeft(LAMBDA s, p : s \o sep \o p, Head(parts), Tail(parts))
Comma == 44

ToJSON(v) ==
  CASE Kind(v) = "null" -> NullText
    [] Kind(v) \in {"string", "bytes", "interval"} -> <<Quote>> \o ToText(v) \o <<Quote>>
    [] Kind(v) \in TimeKinds -> <<Quote>> \o DateTimeText(v, 84, <<90>>) \o <<Quote>>
    [] OTHER -> ToText(v)

IntervalText(iv) ==
  (IF iv.YEAR < 0 \/ (iv.YEAR = 0 /\ iv.MONTH < 0) THEN <<Minus>> ELSE <<>>)
    \o Digits[Abs(iv.YEAR)] \o <<Minus>> \o Digits[Abs(iv.MONTH)] \o <<Space>> \o Decimal(iv.DAY) \o <<Space>>
    \o Decimal(iv.HOUR) \o <<Colon>> \o Digits[Abs(iv.MINUTE)] \o <<Colon>> \o Digits[Abs(iv.SECOND)]

ToText(v) ==
  CASE Kind(v) = "string" -> Num(v)
    [] Kind(v) = "bytes" -> FromUtf8(Num(v))
    [] Kind(v) = "int" -> Decimal(Num(v))
    [] Kind(v) = "float" -> Fixed(25 * Num(v), 2)
    [] Kind(v) \in NumericKinds -> RatText(Num(v), IF Kind(v) = "numeric" THEN NumericScale ELSE BigScale)
    [] Kind(v) = "bool" -> BoolText(Num(v))
    [] Kind(v) \in TimeKinds -> DateTimeText(v, Space, UTCText)
    [] Kind(v) = "interval" -> IntervalText(v[2])
    [] Kind(v) = "json" -> ToJSON(Num(v))
    [] Kind(v) = "array" -> <<91>> \o Joined([i \in DOMAIN Num(v) |-> ToJSON(Num(v)[i])], <<Comma>>) \o <<93>>
    [] Kind(v) = "struct" ->
         <<123>> \o Joined([i \in DOMAIN Num(v) |-> <<Quote>> \o Num(v)[i][1] \o <<Quote, Colon>> \o ToJSON(Num(v)[i][2])],
                           <<Comma>>) \o <<125>>

(***************************************************************************)
(* Reading texts: strconv and the patterns of value.go                     *)
(***************************************************************************)
Unsigned(s) == IF s # <<>> /\ s[1] = Minus THEN Tail(s) ELSE s
IsDigits(s) == s # <<>> /\ \A i \in DOMAIN s : s[i] \in Zero..(Zero + 9)
IsHexDigit(c) == c \in (Zero..(Zero + 9)) \union (97..102)
DigitValue(c) == IF c >= 97 THEN c - 87 ELSE c - Zero
RECURSIVE Read(_, _)
Read(s, base) == IF s = <<>> THEN 0 ELSE base * Read(Front(s), base) + DigitValue(Last(s))

\* Base 0 when the text has "0x" in it, else 10.
ParseInt(s, hex) ==
  LET digits == Unsigned(s)
      isHex == hex /\ Len(digits) > 2 /\ digits[1] = Zero /\ digits[2] = 120
               /\ \A i \in 3..Len(digits) : IsHexDigit(digits[i])
      n == IF isHex THEN Read(SubSeq(digits, 3, Len(digits)), 16) ELSE Read(digits, 10)
      signed == IF s # <<>> /\ s[1] = Minus THEN -n ELSE n
  IN  IF (isHex \/ IsDigits(digits)) /\ InRange(signed) THEN IntV(signed) ELSE Error

\* In units of 10^-scale, the digits beyond cut off.
ParseFixed(s, scale) ==
  LET digits == Unsigned(s)
      dot == IF Dot \in Range(digits) THEN CHOOSE i \in DOMAIN digits : digits[i] = Dot ELSE Len(digits) + 1
      whole == SubSeq(digits, 1, dot - 1)
      part == SubSeq(digits, dot + 1, Len(digits))
      units == Read(SubSeq(part \o [i \in 1..scale |-> Zero], 1, scale), 10)
      n == Read(whole, 10) * 10^scale + units
  IN  IF IsDigits(whole) /\ (part = <<>> \/ IsDigits(part)) THEN IntV(IF s[1] = Minus THEN -n ELSE n) ELSE Error

ParseBool(s) ==
  CASE s \in {TrueText, <<116>>, <<49>>} -> BoolV(TRUE)
    [] s \in {FalseText, <<102>>, <<48>>} -> BoolV(FALSE)
    [] OTHER -> Error

Number(s, from, to) == Read(SubSeq(s, from, to), 10)
HasShape(s, len, marks) ==
  /\ Len(s) >= len
  /\ \A i \in 1..len : IF i \in DOMAIN marks THEN s[i] \in marks[i] ELSE s[i] \in Zero..(Zero + 9)
DateMarks == (5 :> {Minus}) @@ (8 :> {Minus})
ClockMarks == (3 :> {Colon}) @@ (6 :> {Colon})

ValidDay(s) == /\ Number(s, 6, 7) \in 1..12
               /\ Number(s, 9, 10) \in 1..(CivilDay(Number(s, 1, 4), Number(s, 6, 7) + 1, 1)
                                             - CivilDay(Number(s, 1, 4), Number(s, 6, 7), 1))
ValidClock(c) == Number(c, 1, 2) < 24 /\ Number(c, 4, 5) < 60 /\ Number(c, 7, 8) < 60
ClockAt(n, c) ==
  LET micros == IF Len(c) > 9 THEN Read([i \in 1..6 |-> IF 9 + i <= Len(c) THEN c[9 + i] ELSE Zero], 10) ELSE 0
  IN  At(n, 3600 * Number(c, 1, 2) + 60 * Number(c, 4, 5) + Number(c, 7, 8), micros)
IsClock(c) == HasShape(c, 8, ClockMarks) /\ ValidClock(c) /\ (Len(c) > 8 => c[9] = Dot /\ IsDigits(SubSeq(c, 10, Len(c))))

\* DATE, then a text of a date and a clock with or without the zone +00, then a clock.
\* A clock is on one and the same day always.
ParseTime(s) ==
  LET body == IF Len(s) > 19 /\ SubSeq(s, Len(s) - 2, Len(s)) = UTCText THEN SubSeq(s, 1, Len(s) - 3) ELSE s
      n == CivilDay(Number(s, 1, 4), Number(s, 6, 7), Number(s, 9, 10))
      clock == SubSeq(body, 12, Len(body))
  IN  CASE HasShape(s, 10, DateMarks) /\ Len(s) = 10 -> IF ValidDay(s) THEN Result("time", Midnight(n)) ELSE Error
        [] HasShape(s, 11, DateMarks @@ (11 :> {Space, 84})) ->
             IF ValidDay(s) /\ IsClock(clock) THEN Result("time", ClockAt(n, clock)) ELSE Error
        [] IsClock(s) -> Result("time", ClockAt(0, s))
        [] OTHER -> Error

\* "y-m d h:m:s", each of the three with a sign (bigquery.ParseInterval).
Pieces(s, c) ==
  LET ends == <<0>> \o SetToSortSeq({i \in DOMAIN s : s[i] = c}, <) \o <<Len(s) + 1>>
  IN  [k \in 1..(Len(ends) - 1) |-> SubSeq(s, ends[k] + 1, ends[k + 1] - 1)]
ParseInterval(s) ==
  LET words == Pieces(s, Space)
      numbers == [k \in DOMAIN words |-> Pieces(Unsigned(words[k]), <<Minus, Minus, Colon>>[k])]
      Count(k, i) == (IF words[k][1] = Minus THEN -1 ELSE 1) * Read(numbers[k][i], 10)
  IN  IF /\ Len(words) = 3 /\ [k \in 1..3 |-> Len(numbers[k])] = <<2, 1, 3>>
         /\ \A k \in 1..3 : \A i \in DOMAIN numbers[k] : IsDigits(numbers[k][i])
      THEN IntervalV(Interval(Count(1, 1), Count(1, 2), Count(2, 1), Count(3, 1), Count(3, 2), Count(3, 3)))
      ELSE Error

(***************************************************************************)
(* Conversions                                                             *)
(***************************************************************************)
TimeText(v) == IF Kind(v) = "string" THEN Num(v) ELSE FromUtf8(Num(v))

ToInt64(v) ==
  CASE v = Null -> Panic
    [] Kind(v) = "int" -> v
    [] Kind(v) = "float" -> LET n == Quotient(Num(v), 4) IN IntV(IF InRange(n) THEN n ELSE -MaxInt - 1)   \* as on amd64
    [] Kind(v) \in NumericKinds -> IntV(Wrap(Num(v)[1]))
    [] Kind(v) = "bool" -> IntV(IF Num(v) THEN 1 ELSE 0)
    [] Kind(v) \in {"string", "bytes"} -> IF Num(v) = <<>> THEN IntV(0) ELSE ParseInt(Num(v), Kind(v) = "string")
    [] Kind(v) \in TimeKinds -> IntV(UnixSeconds(v[2]))
    [] Kind(v) = "json" -> IF Kind(Num(v)) = "int" THEN Num(v) ELSE Error
    [] OTHER -> Error

RECURSIVE ToFloat64(_)
ToFloat64(v) ==
  CASE v = Null -> Panic
    [] Kind(v) = "int" -> FloatV(4 * Num(v))
    [] Kind(v) = "float" -> v
    [] Kind(v) \in NumericKinds -> FloatV(Nearest(4 * Num(v)[1], Num(v)[2]))
    [] Kind(v) = "bool" -> FloatV(IF Num(v) THEN 4 ELSE 0)
    [] Kind(v) \in {"string", "bytes"} ->
         LET n == ParseFixed(Num(v), 2)
         IN  IF Num(v) = <<>> THEN FloatV(0) ELSE IF n = Error THEN Error ELSE FloatV(Num(n) \div 25)
    [] Kind(v) \in TimeKinds -> FloatV(4 * UnixSeconds(v[2]))
    [] Kind(v) = "json" -> IF Kind(Num(v)) \in {"int", "float"} THEN ToFloat64(Num(v)) ELSE Error
    [] OTHER -> Error

ToBool(v) ==
  LET OneOrZero(n) == IF n \in {0, 1} THEN BoolV(n = 1) ELSE Error
  IN  CASE v = Null -> Panic
        [] Kind(v) = "bool" -> v
        [] Kind(v) = "int" -> OneOrZero(Num(v))
        [] Kind(v) = "float" -> IF Num(v) % 4 = 0 THEN OneOrZero(Num(v) \div 4) ELSE Error
        [] Kind(v) \in NumericKinds -> OneOrZero(Num(v)[1])
        [] Kind(v) \in {"string", "bytes"} -> IF Num(v) = <<>> THEN BoolV(FALSE) ELSE ParseBool(Num(v))
        [] Kind(v) = "json" -> IF Kind(Num(v)) = "bool" THEN Num(v) ELSE Error
        [] OTHER -> Error

ToRat(v) ==
  CASE v = Null -> Panic
    [] Kind(v) = "int" -> NumericV(<<Num(v), 1>>)
    [] Kind(v) = "float" -> NumericV(Rat(Num(v), 4))
    [] Kind(v) \in NumericKinds -> NumericV(Num(v))
    [] Kind(v) = "bool" -> NumericV(<<IF Num(v) THEN 1 ELSE 0, 1>>)
    [] Kind(v) \in {"string", "bytes"} ->     \* 0 when the text is no number
         LET scale == Len(Num(v))   \* more digits than there are after the point
             n == ParseFixed(Num(v), scale)
         IN  NumericV(IF Num(v) = <<>> \/ n = Error THEN <<0, 1>> ELSE Rat(Num(n), 10^scale))
    [] OTHER -> Error

\* A number is the day when it is not positive, else so many microseconds; the microseconds
\* beyond the seconds are taken for milliseconds.
ToTime(v) ==
  CASE v = Null -> Panic
    [] Kind(v) \in TimeKinds -> Result("time", v[2])
    [] Kind(v) = "int" -> Result("time", IF Num(v) > 0 THEN FromUnix(Num(v) \div 1000000, 1000 * (Num(v) % 1000000))
                                         ELSE Midnight(Epoch + Num(v)))
    [] Kind(v) \in {"string", "bytes"} -> ParseTime(TimeText(v))
    [] OTHER -> Error

ToArray(v) ==
  CASE v = Null -> Panic
    [] Kind(v) = "array" -> v
    [] Kind(v) = "string" /\ Num(v) = <<>> -> Panic   \* a nil array without an error
    [] OTHER -> Error

Keys(v) == {Num(v)[i][1] : i \in DOMAIN Num(v)}
\* The map of a STRUCT: the last of the fields with the key.
Field(v, key) == LET is == {i \in DOMAIN Num(v) : Num(v)[i][1] = key}
                 IN  Num(v)[CHOOSE i \in is : \A j \in is : j <= i][2]
StructV(fields) == Result("struct", fields)

ToStruct(v) ==
  CASE v = Null -> Panic
    [] Kind(v) = "struct" -> v
    [] Kind(v) = "array" -> IF \A i \in DOMAIN Num(v) : Kind(Num(v)[i]) = "struct"
                            THEN StructV(FlattenSeq([i \in DOMAIN Num(v) |-> Num(Num(v)[i])])) ELSE Error
    [] OTHER -> Error

(***************************************************************************)
(* Comparisons                                                             *)
(***************************************************************************)
Orders == {"GT", "GTE", "LT", "LTE"}
Test(op, less, equal) ==
  CASE op = "EQ" -> equal
    [] op = "GT" -> ~less /\ ~equal
    [] op = "GTE" -> ~less
    [] op = "LT" -> less
    [] op = "LTE" -> less \/ equal

\* Sequences of numbers, compared from their start.
Lexical(s, t) == \E i \in 1..(Len(t)) : /\ \A j \in 1..(i - 1) : j <= Len(s) /\ s[j] = t[j]
                                      /\ (i > Len(s) \/ s[i] < t[i])

\* The operand converted to the kind of the receiver, or what comes of it.
Compared(op, v, w, Convert(_), Less(_, _)) ==
  LET other == Convert(w)
  IN  IF ~IsAnswer(other) THEN other ELSE BoolV(Test(op, Less(Num(v), Num(other)), Num(v) = Num(other)))

\* Go's loop over the elements ends at the first whose answer is not b; 0 when there is none.
FirstOther(answers, b) ==
  LET stops == {i \in DOMAIN answers : answers[i] # BoolV(b)}
  IN  IF stops = {} THEN 0 ELSE CHOOSE i \in stops : \A j \in stops : i <= j
AnswerAt(answers, b, i) == IF i = 0 THEN BoolV(b) ELSE answers[i]
Until(answers, b) == AnswerAt(answers, b, FirstOther(answers, b))

TextOf(w) == IF w = Null THEN Panic ELSE StringV(ToText(w))
Encoded(kind, text) == IF kind = "bytes" /\ IsAnswer(text) THEN Result("bytes", Utf8(Num(text))) ELSE text
\* A STRING or BYTES made of any value.
OfKind(kind, w) == IF kind = "bytes" /\ Kind(w) = "bytes" THEN w ELSE Encoded(kind, TextOf(w))
BytesOf(w) == OfKind("bytes", w)

RECURSIVE Compare(_, _, _)

\* Mutant: arrays of different lengths are compared as far as both go.
CompareArrays_Prefix(op, v, w) ==
  LET other == ToArray(w)
  IN  IF ~IsAnswer(other) THEN other
      ELSE Until([i \in DOMAIN Num(v) \cap DOMAIN Num(other) |-> Compare(op, Num(other)[i], Num(v)[i])], TRUE)

\* The elements of the operand are the receivers.
CompareArrays(op, v, w) ==
  LET other == ToArray(w)
  IN  IF ~IsAnswer(other) THEN other
      ELSE IF Len(Num(other)) # Len(Num(v)) THEN BoolV(FALSE)
      ELSE Until([i \in DOMAIN Num(v) |-> Compare(op, Num(other)[i], Num(v)[i])], TRUE)

\* By the maps, whose order Go chooses: of a panic and an unequal field the panic is taken.
CompareStructs(op, v, w) ==
  LET other == ToStruct(w)
      answers == {IF k \in Keys(other) THEN Compare(op, Field(other, k), Field(v, k)) ELSE Panic : k \in Keys(v)}
  IN  IF ~IsAnswer(other) THEN other
      ELSE IF Cardinality(Keys(other)) # Cardinality(Keys(v)) THEN BoolV(FALSE)
      ELSE IF Panic \in answers THEN Panic
      ELSE IF Error \in answers THEN Error ELSE BoolV(answers \subseteq {BoolV(TRUE)})

Compare(op, v, w) ==
  CASE v = Null -> Panic
    [] Kind(v) = "int" -> Compared(op, v, w, ToInt64, <)
    [] Kind(v) = "float" -> Compared(op, v, w, ToFloat64, <)
    [] Kind(v) \in NumericKinds -> Compared(op, v, w, ToRat, LAMBDA r, s : r[1] * s[2] < s[1] * r[2])
    [] Kind(v) \in {"string", "bytes"} -> Compared(op, v, w, LAMBDA x : OfKind(Kind(v), x), Lexical)
    [] Kind(v) = "bool" -> IF op = "EQ" THEN Compared(op, v, w, ToBool, LAMBDA a, b : FALSE) ELSE Error
    [] Kind(v) \in TimeKinds -> Compared(op, v, w, ToTime, Earlier)
    [] Kind(v) = "array" -> CompareArrays(op, v, w)
    [] Kind(v) = "struct" -> CompareStructs(op, v, w)
    [] OTHER -> Error

\* ArrayValue.Has: the element is the argument.
Has(array, v) == Until([i \in DOMAIN Num(array) |-> Compare("EQ", v, Num(array)[i])], FALSE)

(***************************************************************************)
(* Arithmetic                                                              *)
(***************************************************************************)
\* Mutant: the sum is not wrapped.
IntArith_Unbounded(op, a, b) ==
  CASE op = "add" -> IntV(a + b)
    [] op = "subtract" -> IntV(a - b)
    [] op = "multiply" -> IntV(a * b)
    [] op = "divide" -> IF b = 0 THEN Error ELSE IntV(Quotient(a, b))

IntArith(op, a, b) ==
  CASE op = "add" -> IntV(Wrap(a + b))
    [] op = "subtract" -> IntV(Wrap(a - b))
    [] op = "multiply" -> IntV(Wrap(a * b))
    [] op = "divide" -> IF b = 0 THEN Error ELSE IntV(Wrap(Quotient(a, b)))

FloatArith(op, q, r) ==
  CASE op = "add" -> FloatV(q + r)
    [] op = "subtract" -> FloatV(q - r)
    [] op = "multiply" -> FloatV(Nearest(q * r, 4))
    [] op = "divide" -> IF r = 0 THEN Error ELSE FloatV(Nearest(4 * q * (IF r < 0 THEN -1 ELSE 1), Abs(r)))

RatArith(op, r, s) ==
  CASE op = "add" -> Rat(r[1] * s[2] + s[1] * r[2], r[2] * s[2])
    [] op = "subtract" -> Rat(r[1] * s[2] - s[1] * r[2], r[2] * s[2])
    [] op = "multiply" -> Rat(r[1] * s[1], r[2] * s[2])
    [] op = "divide" -> Rat(r[1] * s[2], r[2] * s[1])

Continued(other, Then(_)) == IF IsAnswer(other) THEN Then(Num(other)) ELSE other
Converted(w, Convert(_), Then(_)) == Continued(Convert(w), Then)

\* v.Add(w), v.Sub(w), v.Mul(w), v.Div(w)
Arith(op, v, w) ==
  CASE Kind(v) = "int" -> Converted(w, ToInt64, LAMBDA n : IntArith(op, Num(v), n))
    [] Kind(v) = "float" -> Converted(w, ToFloat64, LAMBDA q : FloatArith(op, Num(v), q))
    [] Kind(v) \in NumericKinds ->
         Converted(w, ToRat, LAMBDA r : IF op = "divide" /\ r[1] = 0 THEN Error
                                        ELSE Result(Kind(v), RatArith(op, Num(v), r)))
    [] Kind(v) \in {"string", "bytes"} /\ op = "add" ->
         Converted(w, LAMBDA x : OfKind(Kind(v), x), LAMBDA s : Result(Kind(v), Num(v) \o s))
    [] Kind(v) \in TimeKinds \ {"time"} /\ op \in {"add", "subtract"} -> TimePlus(v, w, IF op = "add" THEN 1 ELSE -1)
    [] OTHER -> Error

(***************************************************************************)
(* Through SQLite: EncodeValue and DecodeValue                             *)
(***************************************************************************)
\* bigquery.IntervalValue: years and months have one sign, which the year gives if it is not 0.
SignedMonths(iv) ==
  [iv EXCEPT !.MONTH = IF iv.YEAR < 0 \/ (iv.YEAR = 0 /\ @ < 0) THEN -Abs(@) ELSE Abs(@)]

RECURSIVE Stored(_)

\* In the JSON of an ARRAY or a STRUCT a BOOL stays one, a number is read as a float64.
StoredElement(e) ==
  CASE Kind(e) = "bool" -> e
    [] Kind(e) = "int" -> FloatV(4 * Num(e))
    [] OTHER -> Stored(e)

\* What one function answers and the next one gets: SQLite has no BOOL, the texts of the dates
\* keep what they show.
Stored(v) ==
  CASE Kind(v) = "bool" -> IntV(IF Num(v) THEN 1 ELSE 0)
    [] Kind(v) = "date" -> DateV(v[2])
    [] Kind(v) = "time" -> TimeV(v[2])
    [] Kind(v) = "interval" -> IntervalV(SignedMonths(v[2]))
    [] Kind(v) = "array" -> ArrayV([i \in DOMAIN Num(v) |-> StoredElement(Num(v)[i])])
    [] Kind(v) = "struct" -> StructV([i \in DOMAIN Num(v) |-> <<Num(v)[i][1], StoredElement(Num(v)[i][2])>>])
    [] OTHER -> v

(***************************************************************************)
(* CAST                                                                    *)
(***************************************************************************)
\* The key of a field without a name: "_field_" and its number.
FieldKey(name, i) == IF name = <<>> THEN <<95>> \o Digits[i] ELSE name

AllAnswer(S) == \A v \in S : IsAnswer(v)
FirstFailure(results) ==
  LET failed == {i \in DOMAIN results : ~IsAnswer(results[i])}
  IN  results[CHOOSE i \in failed : \A j \in failed : i <= j]

RECURSIVE CastValue(_, _)

CastStruct(type, v) ==
  LET st == ToStruct(v)
      KeyOf(i) == FieldKey(type.fields[i][1], i)
      cast == [i \in DOMAIN type.fields |-> IF KeyOf(i) \in Keys(st) THEN CastValue(type.fields[i][2], Field(st, KeyOf(i)))
                                            ELSE Null]
  IN  IF ~IsAnswer(st) THEN st
      ELSE IF Kind(v) = "array" THEN st
      ELSE IF AllAnswer(Range(cast)) THEN StructV([i \in DOMAIN cast |-> <<KeyOf(i), cast[i]>>])
      ELSE FirstFailure(cast)

CastArray(type, v) ==
  LET array == ToArray(v)
      cast == [i \in DOMAIN Num(array) |-> CastValue(type.elem, Num(array)[i])]
  IN  IF ~IsAnswer(array) THEN array ELSE IF AllAnswer(Range(cast)) THEN ArrayV(cast) ELSE FirstFailure(cast)

CastValue(type, v) ==
  IF v = Null THEN Null ELSE
  CASE type.kind = "int" -> ToInt64(v)
    [] type.kind = "float" -> ToFloat64(v)
    [] type.kind = "bool" -> ToBool(v)
    [] type.kind \in {"string", "bytes"} -> OfKind(type.kind, v)
    [] type.kind \in NumericKinds -> Converted(v, ToRat, LAMBDA r : Result(type.kind, r))
    [] type.kind \in TimeKinds -> Converted(v, ToTime, LAMBDA t : Result(type.kind, t))
    [] type.kind = "interval" -> IF Kind(v) = "interval" THEN IntervalV(SignedMonths(v[2])) ELSE ParseInterval(ToText(v))
    [] type.kind = "json" -> IF Kind(v) = "json" THEN v ELSE Result("json", v)
    [] type.kind = "array" -> CastArray(type, v)
    [] type.kind = "struct" -> CastStruct(type, v)
    [] OTHER -> Error

\* To the type the analyzer knows, then to the one asked for.
Recast(known, to) == IF IsAnswer(known) THEN CastValue(to, known) ELSE known
ErrorHidden(v, safe) == IF safe /\ v = Error THEN Null ELSE v
Cast(v, from, to, safe) == ErrorHidden(Recast(CastValue(from, v), to), safe)

=============================================================================
