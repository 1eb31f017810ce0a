------------------------------- MODULE Scalars -------------------------------
(***************************************************************************)
(* The operators, the logic, the arithmetic and the array functions of     *)
(* function.go, function_math.go and function_array.go.  Their arguments   *)
(* have passed the bind functions: what a function does with a NULL shows  *)
(* only where its bind function leaves it to it.                           *)
(***************************************************************************)
EXTENDS Texts

Answered(results, Then(_)) == IF AllAnswer(Range(results)) THEN Then(results) ELSE FirstFailure(results)
WithFloats(args, Then(_)) == Answered([i \in DOMAIN args |-> ToFloat64(args[i])], Then)
WithTexts(args, Then(_)) == Answered([i \in DOMAIN args |-> TextOf(args[i])], Then)
WithInts(args, Then(_)) == Answered([i \in DOMAIN args |-> ToInt64(args[i])], Then)

(***************************************************************************)
(* Logic                                                                   *)
(***************************************************************************)
NotNull(args) == SelectSeq(args, LAMBDA v : v # Null)

\* The first argument that decides, or that is no BOOL.
Decision(args, decisive) == Until([i \in DOMAIN NotNull(args) |-> ToBool(NotNull(args)[i])], ~decisive)

\* Mutant: a NULL decides before the other arguments are looked at.
And_NullFirst(args) == IF ExistsNull(args) THEN Null ELSE Decision(args, FALSE)
Decided(d, args, decisive) == IF d = BoolV(~decisive) /\ ExistsNull(args) THEN Null ELSE d
And(args) == Decided(Decision(args, FALSE), args, FALSE)
Or(args) == Decided(Decision(args, TRUE), args, TRUE)

\* NOT converts to an integer.
Not(v) == LET n == ToInt64(v) IN IF IsAnswer(n) THEN BoolV(Num(n) = 0) ELSE n
IsTrue(v) == ToBool(v)
IsFalse(v) == LET b == ToBool(v) IN IF IsAnswer(b) THEN BoolV(~Num(b)) ELSE b

NegatedIf(not, b) == IF not /\ IsAnswer(b) THEN BoolV(~Num(b)) ELSE b
\* IS DISTINCT FROM, and without not IS NOT DISTINCT FROM.
IsDistinctFrom(v, w, not) == NegatedIf(not, IF Null \in {v, w} THEN BoolV(v = w) ELSE Compare("EQ", v, w))

InValues(v, values) == Has(ArrayV(NotNull(values)), v)
Between(v, start, end) ==
  Answered(<<Compare("GTE", v, start), Compare("LTE", v, end)>>, LAMBDA rs : BoolV(Num(rs[1]) /\ Num(rs[2])))

Coalesce(args) == IF NotNull(args) = <<>> THEN Null ELSE Head(NotNull(args))
If(cond, v, w) == IF cond = Null THEN w
                  ELSE LET b == ToBool(cond) IN IF ~IsAnswer(b) THEN b ELSE IF Num(b) THEN v ELSE w
Unless(b, v) == IF b = BoolV(TRUE) THEN Null ELSE IF IsAnswer(b) THEN v ELSE b
Nullif(v, w) == IF v = Null THEN Null ELSE Unless(Compare("EQ", v, w), v)

RECURSIVE LikeMatch(_, _)
Percent == 37
\* "_" is a character like any other, and "%" matches no end of line.
LikeMatch(s, p) ==
  IF p = <<>> THEN s = <<>>
  ELSE IF p[1] = Percent THEN \E i \in 0..Len(s) : /\ \A j \in 1..i : s[j] # 10
                                                  /\ LikeMatch(From(s, i), Tail(p))
  ELSE s # <<>> /\ s[1] = p[1] /\ LikeMatch(Tail(s), Tail(p))
LikeText(v, p) == WithTexts(<<v, p>>, LAMBDA ts : BoolV(LikeMatch(Num(ts[1]), Num(ts[2]))))

(***************************************************************************)
(* Bits                                                                    *)
(***************************************************************************)
Width == CHOOSE w \in 1..30 : 2^w = 2 * MaxInt + 2
Bit(n, k) == ((n % 2^Width) \div 2^k) % 2
FromBits(F(_)) == Wrap(FoldLeft(LAMBDA n, k : n + F(k) * 2^k, 0, [k \in 1..Width |-> k - 1]))
Combine(f, n, m) ==
  FromBits(LAMBDA k : LET both == Bit(n, k) + Bit(m, k)
                      IN CASE f = "bitwise_and" -> both \div 2
                           [] f = "bitwise_or" -> (both + 1) \div 2
                           [] f = "bitwise_xor" -> both % 2)
BitwiseNot(v) == WithInts(<<v>>, LAMBDA ns : IntV(-Num(ns[1]) - 1))
Bitwise2(f, v, w) == WithInts(<<v, w>>, LAMBDA ns : IntV(Combine(f, Num(ns[1]), Num(ns[2]))))
\* Go panics on a negative shift; a shift beyond the width leaves 0, or the sign.
Shift(f, v, w) ==
  WithInts(<<v, w>>, LAMBDA ns :
    LET n == Num(ns[1])
        by == Num(ns[2])
        k == IF by > Width THEN Width ELSE by
    IN  IF by < 0 THEN Panic ELSE IntV(IF f = "bitwise_left_shift" THEN Wrap(n * 2^k) ELSE n \div 2^k))

(***************************************************************************)
(* Arithmetic                                                              *)
(***************************************************************************)
\* SAFE_ADD and its like work on floats: they lose digits instead of overflowing.
SafeArith(f, args) ==
  WithFloats(args, LAMBDA qs :
    CASE f = "safe_add" -> FloatArith("add", Num(qs[1]), Num(qs[2]))
      [] f = "safe_subtract" -> FloatArith("subtract", Num(qs[1]), Num(qs[2]))
      [] f = "safe_multiply" -> FloatArith("multiply", Num(qs[1]), Num(qs[2]))
      [] f = "safe_divide" -> IF Num(qs[2]) = 0 THEN Null ELSE FloatArith("divide", Num(qs[1]), Num(qs[2]))
      [] f = "safe_negate" -> FloatV(-Num(qs[1])))

Sign(v) == WithFloats(<<v>>, LAMBDA qs : IntV(IF Num(qs[1]) < 0 THEN -1 ELSE IF Num(qs[1]) = 0 THEN 0 ELSE 1))

\* All answer a FLOAT64, also for an INT64.
Rounding(f, v) ==
  WithFloats(<<v>>, LAMBDA qs :
    LET q == Num(qs[1])
    IN  CASE f = "abs" -> FloatV(Abs(q))
          [] f = "trunc" -> FloatV(4 * Quotient(q, 4))
          [] f \in {"ceil", "ceiling"} -> FloatV(-4 * ((-q) \div 4))
          [] f = "floor" -> FloatV(4 * (q \div 4))
          [] f = "round" -> FloatV((IF q < 0 THEN -4 ELSE 4) * ((Abs(q) + 2) \div 4)))
Mod(v, w) ==
  WithFloats(<<v, w>>, LAMBDA qs : IF Num(qs[2]) = 0 THEN Error
                                   ELSE FloatV(Num(qs[1]) - Num(qs[2]) * Quotient(Num(qs[1]), Num(qs[2]))))
Div(v, w) == WithInts(<<v, w>>, LAMBDA ns : IntArith("divide", Num(ns[1]), Num(ns[2])))

\* LOG(x, b) is x * 2^int(x): Ldexp, and the base is not read.
Log2Args(v) == WithFloats(<<v>>, LAMBDA qs : FloatV(Num(qs[1]) * 2^Quotient(Num(qs[1]), 4)))

\* GREATEST and LEAST: op is "GT" and "LT".
Chosen(better, v, best) == IF ~IsAnswer(better) THEN better ELSE IF Num(better) THEN v ELSE best
Extremum(op, args) ==
  FoldLeft(LAMBDA best, v : IF IsAnswer(best) THEN Chosen(Compare(op, v, best), v, best) ELSE best, Head(args), Tail(args))

(***************************************************************************)
(* Arrays and structs                                                      *)
(***************************************************************************)
\* base 0: OFFSET, base 1: ORDINAL; outside is what is said of the indices that are none.
Element(v, idx, base, outside) ==
  LET array == ToArray(v)
  IN  IF ~IsAnswer(array) THEN array
      ELSE IF idx - base + 1 \in DOMAIN Num(array) THEN Num(array)[idx - base + 1] ELSE outside
StructField(v, idx) ==
  LET st == ToStruct(v)
  IN  IF ~IsAnswer(st) THEN st ELSE IF idx + 1 \in DOMAIN Num(st) THEN Num(st)[idx + 1][2] ELSE Error

MakeArray(args) == ArrayV(args)
\* Pairs of a key and a value.
MakeStruct(args) ==
  Answered([i \in 1..(Len(args) \div 2) |-> TextOf(args[2 * i - 1])],
           LAMBDA keys : StructV([i \in DOMAIN keys |-> <<FieldKey(Num(keys[i]), i), args[2 * i]>>]))

ArrayConcat(args) ==
  Answered([i \in DOMAIN args |-> ToArray(args[i])], LAMBDA as : ArrayV(FlattenSeq([i \in DOMAIN as |-> Num(as[i])])))
ArrayFirst(v) == IF Num(v) = <<>> THEN Panic ELSE Head(Num(v))
ArrayLast(v) == IF Num(v) = <<>> THEN Panic ELSE Last(Num(v))
ArrayReverse(v) == ArrayV(Reverse(Num(v)))
ArrayLength(v) == IntV(Len(Num(v)))

\* Mutant: an end before the start of the array is clamped like the start.
ArraySlice_ClampsEnd(v, startOffset, endOffset) ==
  LET len == Len(Num(v))
      Clamp(n) == IF n < 0 THEN 0 ELSE n
      start == Clamp(IF startOffset < 0 THEN len + startOffset ELSE startOffset)
      end == Clamp(IF endOffset < 0 THEN len + endOffset ELSE endOffset)
      last == IF end >= len THEN len - 1 ELSE end
  IN  IF start > last \/ start >= len THEN ArrayV(<<>>) ELSE ArrayV(SubSeq(Num(v), start + 1, last + 1))

ArraySlice(v, startOffset, endOffset) ==
  LET len == Len(Num(v))
      start == IF startOffset < 0 THEN len + startOffset ELSE startOffset
      end == IF endOffset < 0 THEN len + endOffset ELSE endOffset
      first == IF start < 0 THEN 0 ELSE start
      last == IF end >= len THEN len - 1 ELSE end
  IN  IF first > last \/ first >= len THEN ArrayV(<<>>) ELSE ArrayV(SubSeq(Num(v), first + 1, last + 1))

\* A NULL is left out, or shown as the text for it.
ArrayToString(v, delim, nullText) ==
  LET shown == IF nullText = Null THEN NotNull(Num(v)) ELSE Num(v)
  IN  StringV(Joined([i \in DOMAIN shown |-> IF shown[i] = Null THEN Num(nullText) ELSE ToText(shown[i])], Num(delim)))

Endless == Result("endless", 0)
MaxElements == 30   \* a generated array that is longer has no end

\* The loop of generateArray and its like: from start, as long as the next is not beyond end.
RECURSIVE Generated(_, _, _, _)
Generated(cur, end, NextOf(_), sofar) ==
  LET up == Len(sofar) > 0 /\ sofar[1] = BoolV(TRUE)
      after == NextOf(cur)
      elems == Append(sofar, cur)
  IN  IF ~IsAnswer(after) THEN after
      ELSE IF Compare(IF up THEN "LTE" ELSE "GTE", after, end) # BoolV(TRUE) THEN ArrayV(Tail(elems))
      ELSE IF Len(elems) > MaxElements THEN Endless
      ELSE Generated(after, end, NextOf, elems)

Generate(start, end, positive, NextOf(_)) ==
  LET up == Compare("LTE", start, end)
  IN  IF Num(up) # positive THEN ArrayV(<<>>) ELSE Generated(start, end, NextOf, <<up>>)

\* A step of 0 is not positive: from a start above the end it goes on for ever.  NUMERIC.Add
\* changes the number it adds to, so that every element is the one that was too large.
Overwritten(plain, step) ==
  IF Kind(plain) # "array" \/ Num(plain) = <<>> THEN plain
  ELSE ArrayV([i \in DOMAIN Num(plain) |-> Arith("add", Last(Num(plain)), step)])
GenerateArray(start, end, step) ==
  LET plain == Generate(start, end, Num(Compare("GT", step, IntV(0))), LAMBDA v : Arith("add", v, step))
  IN  IF Kind(start) \in NumericKinds THEN Overwritten(plain, step) ELSE plain

\* AddDateWithInterval: AddDate, which is not held within the month; any other part is days.
GenerateDateArray(start, end, step, part) ==
  LET NextOf(v) == DateV(CASE part = "WEEK" -> AddDate(v[2], 0, 0, 7 * step)
                           [] part = "MONTH" -> AddDate(v[2], 0, step, 0)
                           [] part = "YEAR" -> AddDate(v[2], step, 0, 0)
                           [] OTHER -> AddDate(v[2], 0, 0, step))
  IN  IF step = 0 THEN Null ELSE Generate(start, end, step > 0, NextOf)
GenerateTimestampArray(start, end, step, part) ==
  IF step = 0 THEN Null
  ELSE Generate(start, end, step > 0, LAMBDA v : TimestampV(TimestampAdd(v[2], step, part)))

\* The number of bounds that the point has reached.
StoppedAt(reached, stop) ==
  CASE stop = 0 -> IntV(Len(reached))
    [] stop # 0 /\ IsAnswer(reached[stop]) -> IntV(stop - 1)
    [] OTHER -> reached[stop]
BucketOf(reached) == StoppedAt(reached, FirstOther(reached, TRUE))
RangeBucket(v, array) ==
  BucketOf([i \in DOMAIN Num(array) |-> IF Num(array)[i] = Null THEN Error ELSE Compare("GTE", v, Num(array)[i])])

=============================================================================
