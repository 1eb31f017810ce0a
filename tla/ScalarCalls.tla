----------------------------- MODULE ScalarCalls -----------------------------
(***************************************************************************)
(* The scalar functions as SQLite calls them: arguments are decoded, the   *)
(* bind function looks at them (Binders), the function computes (Scalars,  *)
(* Texts, Calendar) and its answer is encoded again.  An expression is a   *)
(* sequence of such calls, the innermost first; each gets what came of the *)
(* one before through SQLite.  A part, a zone (in minutes) and a type are  *)
(* arguments of kinds of their own.                                        *)
(***************************************************************************)
EXTENDS Scalars, Binders

CONSTANTS
  Expressions,   \* sets of expressions
  Hole           \* the argument that is the answer of the call before

VARIABLES
  expr,      \* the calls [f, args, safe], and what they are about
  answers    \* what came of the calls made

svars == <<expr, answers>>

PartV(p) == Result("part", p)
ZoneV(z) == Result("zone", z)
TypeV(t) == Result("type", t)

(***************************************************************************)
(* The bodies: what a bind function does once the NULLs are dealt with     *)
(***************************************************************************)
Arg(args, i, default) == IF i \in DOMAIN args THEN args[i] ELSE default
WithInt(v, Then(_)) == Converted(v, ToInt64, Then)
WithTime(v, Then(_)) == Converted(v, ToTime, Then)
WithArray(v, Then(_)) == Converted(v, ToArray, LAMBDA s : Then(ArrayV(s)))

OrderOf == [equal |-> "EQ", not_equal |-> "EQ", greater |-> "GT", greater_or_equal |-> "GTE", less |-> "LT", less_or_equal |-> "LTE"]
Indexing ==
  [array_at_offset |-> <<0, Error>>, array_at_ordinal |-> <<1, Error>>,
   safe_array_at_offset |-> <<0, Null>>, safe_array_at_ordinal |-> <<1, Null>>]

OperatorBody(f, a) ==
  CASE f \in {"add", "subtract", "multiply", "divide"} -> Arith(f, a[1], a[2])
    [] f \in DOMAIN OrderOf -> NegatedIf(f = "not_equal", Compare(OrderOf[f], a[1], a[2]))
    [] f = "bitwise_not" -> BitwiseNot(a[1])
    [] f \in {"bitwise_left_shift", "bitwise_right_shift"} -> Shift(f, a[1], a[2])
    [] f \in {"bitwise_and", "bitwise_or", "bitwise_xor"} -> Bitwise2(f, a[1], a[2])
    [] f = "in_array" -> WithArray(a[2], LAMBDA s : Has(s, a[1]))
    [] f = "get_struct_field" -> WithInt(a[2], LAMBDA i : StructField(a[1], i))
    [] f \in DOMAIN Indexing -> WithInt(a[2], LAMBDA i : Element(a[1], i, Indexing[f][1], Indexing[f][2]))

LogicBody(f, a) ==
  CASE f = "and" -> And(a)
    [] f = "or" -> Or(a)
    [] f = "not" -> Not(a[1])
    [] f = "is_true" -> IsTrue(a[1])
    [] f = "is_false" -> IsFalse(a[1])
    [] f = "is_null" -> BoolV(a[1] = Null)
    [] f \in {"is_distinct_from", "is_not_distinct_from"} -> IsDistinctFrom(a[1], a[2], f = "is_distinct_from")
    [] f = "in" -> InValues(a[1], Tail(a))
    [] f = "between" -> Between(a[1], a[2], a[3])
    [] f \in {"coalesce", "ifnull"} -> Coalesce(a)
    [] f = "if" -> If(a[1], a[2], a[3])
    [] f = "nullif" -> Nullif(a[1], a[2])
    [] f = "like" -> LikeText(a[1], a[2])
    [] f = "error" -> Error

NumberBody(f, a) ==
  CASE f \in {"abs", "ceil", "ceiling", "floor", "trunc"} -> Rounding(f, a[1])
    \* To a number of digits: some value.
    [] f = "round" -> IF Len(a) = 1 \/ ToInt64(a[2]) = IntV(0) THEN Rounding(f, a[1])
                      ELSE WithFloats(<<a[1]>>, LAMBDA qs : Result("value", f))
    [] f \in {"safe_add", "safe_subtract", "safe_multiply", "safe_divide", "safe_negate"} -> SafeArith(f, a)
    [] f = "sign" -> Sign(a[1])
    [] f = "mod" -> Mod(a[1], a[2])
    [] f = "div" -> Div(a[1], a[2])
    [] f = "log" -> IF Len(a) = 2 THEN Log2Args(a[1]) ELSE Result("value", f)
    [] f \in {"greatest", "least"} -> Extremum(IF f = "greatest" THEN "GT" ELSE "LT", a)
    [] f = "range_bucket" -> WithArray(a[2], LAMBDA s : RangeBucket(a[1], s))

ArrayBody(f, a) ==
  LET Whole(Of(_)) == WithArray(a[1], Of)
  IN  CASE f = "make_array" -> MakeArray(a)
        [] f = "make_struct" -> MakeStruct(a)
        [] f = "array_concat" -> ArrayConcat(a)
        [] f = "array_first" -> Whole(LAMBDA s : IF Num(s) = <<>> THEN Error ELSE ArrayFirst(s))
        [] f = "array_last" -> Whole(LAMBDA s : IF Num(s) = <<>> THEN Error ELSE ArrayLast(s))
        [] f = "array_length" -> Whole(ArrayLength)
        [] f = "array_reverse" -> Whole(ArrayReverse)
        [] f = "array_slice" -> Whole(LAMBDA s : WithInts(Tail(a), LAMBDA ns : ArraySlice(s, Num(ns[1]), Num(ns[2]))))
        [] f = "array_to_string" -> Whole(LAMBDA s : ArrayToString(s, TextOf(a[2]), Arg(a, 3, Null)))
        [] f = "generate_array" -> GenerateArray(a[1], a[2], Arg(a, 3, IntV(1)))
        [] f = "generate_date_array" ->
             IF Len(a) > 4 THEN Error
             ELSE WithInt(Arg(a, 3, IntV(1)), LAMBDA n : GenerateDateArray(a[1], a[2], n, Num(Arg(a, 4, PartV("DAY")))))
        [] f = "generate_timestamp_array" ->
             WithInt(a[3], LAMBDA n : GenerateTimestampArray(a[1], a[2], n, Num(a[4])))

TextBody(f, a) ==
  CASE f = "concat" -> Concat(a)
    [] f = "starts_with" -> StartsWith(a[1], a[2])
    [] f = "ends_with" -> EndsWith(a[1], a[2])
    [] f = "strpos" -> Strpos(a[1], a[2])
    \* Without a position it is 0, which INSTR refuses.
    [] f = "instr" -> WithInts(<<Arg(a, 3, IntV(0)), Arg(a, 4, IntV(1))>>,
                               LAMBDA ns : Instr(a[1], a[2], Num(ns[1]), Num(ns[2])))
    [] f \in {"left", "right"} -> WithInt(a[2], LAMBDA n : IF f = "left" THEN Left(a[1], n) ELSE Right(a[1], n))
    [] f \in {"lpad", "rpad"} -> WithInt(a[2], LAMBDA n : Pad(a[1], n, Arg(a, 3, Null), f = "lpad"))
    [] f \in {"ltrim", "rtrim", "trim"} ->
         Trim(a[1], Arg(a, 2, Null), CASE f = "ltrim" -> "left" [] f = "rtrim" -> "right" [] f = "trim" -> "both")
    [] f = "repeat" -> WithInt(a[2], LAMBDA n : Repeat(a[1], n))
    [] f = "replace" -> Replace(a[1], a[2], a[3])
    [] f = "reverse" -> Like(a[1], Reverse(Num(a[1])))
    [] f = "split" -> Split(a[1], Arg(a, 2, StringV(<<Comma>>)))
    [] f = "substr" -> Answered(<<ToInt64(a[2]), IF Len(a) = 3 THEN ToInt64(a[3]) ELSE Null>>,
                                LAMBDA ns : Substr(a[1], Num(ns[1]), ns[2]))
    [] f = "translate" -> Translate(a[1], a[2], a[3])
    [] f = "upper" -> UpperCase(a[1])
    [] f = "lower" -> LowerCase(a[1])
    [] f = "initcap" -> Initcap(a[1], Arg(a, 2, Null))
    [] f = "regexp_extract" -> WithInts(<<Arg(a, 3, IntV(1)), Arg(a, 4, IntV(1))>>,
                                        LAMBDA ns : RegexpExtract(a[1], a[2], Num(ns[1]), Num(ns[2])))
    [] f = "regexp_instr" -> WithInts(<<Arg(a, 3, IntV(1)), Arg(a, 4, IntV(1))>>,
                                      LAMBDA ns : RegexpInstr(a[1], a[2], Num(ns[1]), Num(ns[2])))
    [] f = "regexp_extract_all" -> RegexpExtractAll(a[1], a[2])

CodeBody(f, a) ==
  CASE f = "ascii" -> IF ToText(a[1]) = <<>> THEN IntV(0) ELSE Ascii(a[1])
    [] f = "unicode" -> Unicode(a[1])
    [] f = "chr" -> WithInt(a[1], Chr)
    [] f \in {"length", "char_length"} -> IntV(Len(Num(a[1])))
    [] f = "byte_length" -> IntV(Len(Num(BytesOf(a[1]))))
    [] f = "code_points_to_string" -> WithArray(a[1], CodePointsToString)
    [] f = "code_points_to_bytes" -> WithArray(a[1], CodePointsToBytes)
    [] f = "to_code_points" -> ToCodePoints(a[1])
    [] f = "to_hex" -> ToHex(Num(BytesOf(a[1])))
    [] f = "from_hex" -> FromHex(a[1])

\* A date or time moved by so many of a part.
MoveFuncs ==
  {"date_add", "date_sub", "datetime_add", "datetime_sub", "time_add", "time_sub", "timestamp_add", "timestamp_sub"}
Moved(f, t, n, part) ==
  CASE f = "date_add" -> DateV(DateAdd(t, n, part))
    [] f = "date_sub" -> DateV(DateSub(t, n, part))
    [] f = "datetime_add" -> DatetimeV(DatetimeAdd(t, n, part))
    [] f = "datetime_sub" -> DatetimeV(DatetimeSub(t, n, part))
    [] f = "time_add" -> TimeV(ClockAdd(t, n, part))
    [] f = "time_sub" -> TimeV(ClockAdd(t, -n, part))
    [] f = "timestamp_add" -> TimestampV(TimestampAdd(t, n, part))
    [] f = "timestamp_sub" -> TimestampV(TimestampAdd(t, -n, part))

DiffFuncs == {"date_diff", "datetime_diff", "time_diff", "timestamp_diff"}
Apart(f, t, u, part) ==
  CASE f = "date_diff" -> DateDiff(t, u, part)
    [] f = "time_diff" -> ClockDiff(t, u, part)
    [] OTHER -> DatetimeDiff(t, u, part)

\* The functions of one date or time, and of what comes after it.
OfTime(f, t, a) ==
  LET part == Num(Last(a))
  IN  CASE f = "date_trunc" -> DateV(DateTrunc(t, part))
        [] f = "datetime_trunc" -> DatetimeV(DatetimeTrunc(t, part))
        [] f = "time_trunc" -> TimeV(ClockTrunc(t, part))
        [] f = "timestamp_trunc" -> TimestampV(TimestampTrunc(t, Num(a[2]), Num(Arg(a, 3, ZoneV(0)))))
        [] f = "last_day" -> DateV(LastDay(t, Num(Arg(a, 2, PartV("MONTH")))))
        [] f = "unix_date" -> IntV(UnixDate(t))
        [] f = "unix_seconds" -> IntV(UnixSeconds(t))

FromIntFuncs == {"date_from_unix_date", "timestamp_seconds", "timestamp_millis", "timestamp_micros"}
FromInt(f, n) ==
  CASE f = "date_from_unix_date" -> DateV(Midnight(Epoch + n))
    [] f = "timestamp_seconds" -> TimestampV(FromUnix(n, 0))
    [] f = "timestamp_millis" -> TimestampV(FromUnix(n \div 1000, 1000 * (n % 1000)))
    [] f = "timestamp_micros" -> TimestampV(FromUnix(0, n))

DateBody(f, a) ==
  CASE f = "date" -> DateOf(a)
    [] f = "datetime" -> DatetimeOf(a)
    [] f = "time" -> TimeOf(a)
    [] f = "timestamp" -> TimestampOf(a[1], Num(Arg(a, 2, ZoneV(0))))
    [] f = "extract" -> Extract(a[1], Num(a[2]), Num(Arg(a, 3, ZoneV(0))))
    [] f = "extract_date" -> Extract(a[1], "DATE", Num(Arg(a, 2, ZoneV(0))))
    [] f \in MoveFuncs -> WithTime(a[1], LAMBDA t : WithInt(a[2], LAMBDA n : Moved(f, t, n, Num(Last(a)))))
    [] f \in DiffFuncs -> WithTime(a[1], LAMBDA t : WithTime(a[2], LAMBDA u : Apart(f, t, u, Num(Last(a)))))
    [] f \in FromIntFuncs -> WithInt(a[1], LAMBDA n : FromInt(f, n))
    [] OTHER -> WithTime(a[1], LAMBDA t : OfTime(f, t, a))

IntervalBody(f, a) ==
  CASE f = "interval" -> WithInt(a[1], LAMBDA n : IntervalOf(n, Num(a[2])))
    [] f = "make_interval" ->
         WithInts(a, LAMBDA ns : IntervalV(Interval(Num(ns[1]), Num(ns[2]), Num(ns[3]), Num(ns[4]), Num(ns[5]), Num(ns[6]))))
    [] f = "justify_days" -> IntervalV(JustifyDays(Num(a[1])))
    [] f = "justify_hours" -> IntervalV(JustifyHours(Num(a[1])))
    [] f = "justify_interval" -> IntervalV(JustifyDays(JustifyHours(Num(a[1]))))

OperatorFuncs ==
  {"add", "subtract", "multiply", "divide", "bitwise_not", "bitwise_left_shift", "bitwise_right_shift",
   "bitwise_and", "bitwise_or", "bitwise_xor", "in_array", "get_struct_field"} \union DOMAIN OrderOf \union DOMAIN Indexing
LogicFuncs ==
  {"and", "or", "not", "is_true", "is_false", "is_null", "is_distinct_from", "is_not_distinct_from", "in", "between",
   "coalesce", "ifnull", "if", "nullif", "like", "error"}
NumberFuncs ==
  {"abs", "ceil", "ceiling", "floor", "round", "trunc", "safe_add", "safe_subtract", "safe_multiply", "safe_divide",
   "safe_negate", "sign", "mod", "div", "log", "greatest", "least", "range_bucket"}
ArrayFuncs ==
  {"make_array", "make_struct", "array_concat", "array_first", "array_last", "array_length", "array_reverse",
   "array_slice", "array_to_string", "generate_array", "generate_date_array", "generate_timestamp_array"}
TextFuncs ==
  {"concat", "starts_with", "ends_with", "strpos", "instr", "left", "right", "lpad", "rpad", "ltrim", "rtrim", "trim",
   "repeat", "replace", "reverse", "split", "substr", "translate", "upper", "lower", "initcap", "regexp_extract",
   "regexp_instr", "regexp_extract_all"}
CodeFuncs ==
  {"ascii", "unicode", "chr", "length", "char_length", "byte_length", "code_points_to_string", "code_points_to_bytes",
   "to_code_points", "to_hex", "from_hex"}
DateFuncs ==
  {"date", "datetime", "time", "timestamp", "date_add", "date_sub", "datetime_add", "datetime_sub", "time_add",
   "time_sub", "timestamp_add", "timestamp_sub", "date_diff", "datetime_diff", "timestamp_diff", "time_diff",
   "date_trunc", "datetime_trunc", "time_trunc", "timestamp_trunc", "last_day", "extract", "extract_date", "unix_date",
   "date_from_unix_date", "unix_seconds", "timestamp_seconds", "timestamp_millis", "timestamp_micros"}
IntervalFuncs == {"interval", "make_interval", "justify_days", "justify_hours", "justify_interval"}

\* A function that is not modelled answers some value.
Body(f, a) ==
  CASE f \in OperatorFuncs -> OperatorBody(f, a)
    [] f \in LogicFuncs -> LogicBody(f, a)
    [] f \in NumberFuncs -> NumberBody(f, a)
    [] f \in ArrayFuncs -> ArrayBody(f, a)
    [] f \in TextFuncs -> TextBody(f, a)
    [] f \in CodeFuncs -> CodeBody(f, a)
    [] f \in DateFuncs -> DateBody(f, a)
    [] f \in IntervalFuncs -> IntervalBody(f, a)
    [] f = "cast" -> Cast(a[1], Num(a[2]), Num(a[3]), Num(ToBool(a[4])))
    [] OTHER -> Result("value", f)

(***************************************************************************)
(* Calls                                                                   *)
(***************************************************************************)
\* The time and the zone of CURRENT_DATE and its like are converted one after the other; of a single
\* argument the type is looked at.  A text that names no zone is refused.
Zone(v) == IF v = Null THEN Panic ELSE IF Kind(v) = "zone" THEN v ELSE Error
Current(f, a) ==
  CASE a = <<>> -> Result("value", f)
    [] Len(a) = 2 -> Answered(<<ToInt64(a[1]), Zone(a[2])>>, LAMBDA given : Result("value", f))
    [] OTHER -> IF Kind(a[1]) \in {"int", "zone"} THEN Result("value", f) ELSE Error

\* What a bind function does once it has counted the arguments: convert the digits of ROUND, look for
\* a NULL, and compute.
Precision(nulls, a) == IF nulls = "second" THEN [i \in 1..(Len(a) - 1) |-> ToInt64(a[i + 1])] ELSE <<>>
LookedAt(nulls, a) == IF nulls = "own" THEN {} ELSE IF nulls = "first" THEN {a[1]} ELSE Range(a)
ForNull(nulls) ==
  CASE nulls \in {"answer", "first", "second"} -> Null
    [] nulls = "empty" -> ArrayV(<<>>)
    [] nulls = "refuse" -> Error
    [] nulls = "call" -> Panic
BoundAs(nulls, f, a) ==
  IF nulls = "current" THEN Current(f, a)
  ELSE Answered(Precision(nulls, a), LAMBDA ns : IF Null \in LookedAt(nulls, a) THEN ForNull(nulls) ELSE Body(f, a))
Bound(f, a) == IF Len(a) \in Binder[f].arity THEN BoundAs(Binder[f].nulls, f, a) ELSE Error

\* SAFE.f: some functions have another one for it; an error becomes NULL, a panic stays.
SafeFunc ==
  [add |-> "safe_add", subtract |-> "safe_subtract", multiply |-> "safe_multiply", divide |-> "safe_divide",
   array_at_offset |-> "safe_array_at_offset", array_at_ordinal |-> "safe_array_at_ordinal"]

SafeForm(f) == IF f \in DOMAIN SafeFunc THEN SafeFunc[f] ELSE f

\* Mutant: an error of the safe form ends the query all the same.
Returned_Fails(v, safe) == IF IsAnswer(v) THEN Stored(v) ELSE v

Returned(v, safe) == IF safe /\ v = Error THEN Null ELSE IF IsAnswer(v) THEN Stored(v) ELSE v

\* One call by SQLite (setupNormalFuncMap).
Call(f, a, safe) == Returned(Bound(IF safe THEN SafeForm(f) ELSE f, [i \in DOMAIN a |-> Stored(a[i])]), safe)

\* ORDER BY compares encoded texts with this; an error counts as "not greater".
Collate(v, w) ==
  IF Compare("EQ", v, w) = BoolV(TRUE) THEN 0 ELSE IF Compare("GT", v, w) = BoolV(TRUE) THEN 1 ELSE -1

\* The key of a row in GROUP BY: the texts of the fields or elements, joined with "||".
GroupKey(v) ==
  CASE Kind(v) = "array" -> IF Null \in Range(Num(v)) THEN Panic
                            ELSE StringV(Joined([i \in DOMAIN Num(v) |-> ToText(Num(v)[i])], <<124, 124>>))
    [] Kind(v) = "struct" -> IF \E i \in DOMAIN Num(v) : Num(v)[i][2] = Null THEN Panic
                             ELSE StringV(Joined([i \in DOMAIN Num(v) |-> ToText(Num(v)[i][2])], <<124, 124>>))
    [] OTHER -> v

(***************************************************************************)
(* An expression                                                           *)
(***************************************************************************)
Finished == Len(answers) = Len(expr.calls) \/ (answers # <<>> /\ ~IsAnswer(Last(answers)))

\* An error or a panic ends the query.
Evaluate ==
  /\ ~Finished
  /\ LET c == expr.calls[Len(answers) + 1]
         args == [i \in DOMAIN c.args |-> IF c.args[i] = Hole THEN Last(answers) ELSE c.args[i]]
     IN  answers' = Append(answers, Call(c.f, args, c.safe))
  /\ UNCHANGED expr

ScalarInit == (\E i \in DOMAIN Expressions : expr \in Expressions[i]) /\ answers = <<>>

=============================================================================
