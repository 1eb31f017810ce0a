------------------------------ MODULE MCScalars ------------------------------
(***************************************************************************)
(* What scalar functions mean, and the instance TLC checks.  A behaviour   *)
(* is one aggregate or window function over its rows (MCAggregation), or   *)
(* one expression.  Expressions are grouped by what they are about; their  *)
(* meanings are stated on the values, without the code's way to them.      *)
(***************************************************************************)
EXTENDS MCAggregation, ScalarCalls

allVars == <<vars, svars>>

Plainly(f, args) == [f |-> f, args |-> args, safe |-> FALSE]
Safely(f, args) == [f |-> f, args |-> args, safe |-> TRUE]
About(topic, calls) == [topic |-> topic, calls |-> calls]
One(topic, f, args) == About(topic, <<Plainly(f, args)>>)
Is(topic) == expr.topic = topic /\ Finished
LastCall == expr.calls[Len(answers)]
Answer == Last(answers)
Given(i) == expr.calls[1].args[i]

\* What SQLite shows of a BOOL.
Shown(b) == IntV(IF b THEN 1 ELSE 0)

(***************************************************************************)
(* Logic                                                                   *)
(***************************************************************************)
Truths == {Null, BoolV(TRUE), BoolV(FALSE)}
SomeInts == {Null, IntV(1), IntV(2), IntV(3)}

LogicExprs ==
  {One("logic", f, args) : f \in {"and", "or"}, args \in SeqsUpTo(Truths, 3) \ {<<>>}}
  \union {About("logic", <<Plainly(f, <<v, w>>), Plainly("not", <<Hole>>)>>) : f \in {"and", "or"}, v, w \in Truths}
  \union {One("logic", f, <<v>>) : f \in {"not", "is_true", "is_false", "is_null"}, v \in Truths}
  \union {One("logic", "in", args) : args \in SeqsUpTo(SomeInts, 4) \ SeqsUpTo(SomeInts, 1)}
  \union {One("logic", "between", args) : args \in [1..3 -> SomeInts]}
  \union {One("logic", f, <<v, w>>) : f \in {"is_distinct_from", "is_not_distinct_from", "nullif", "ifnull"}, v, w \in SomeInts}
  \union {One("logic", "if", <<b, v, w>>) : b \in Truths, v, w \in SomeInts}
  \union {One("logic", "coalesce", args) : args \in SeqsUpTo(SomeInts, 3) \ {<<>>}}

\* FALSE < NULL < TRUE: AND is the least and OR the greatest of its arguments.
Truth(v) == IF v = Null THEN 1 ELSE IF v = BoolV(TRUE) THEN 2 ELSE 0
OfTruth(t) == IF t = 1 THEN Null ELSE Shown(t = 2)
Least(S) == CHOOSE n \in S : \A m \in S : n <= m
Greatest(S) == CHOOSE n \in S : \A m \in S : n >= m
Related(v, w, R(_, _)) == IF Null \in {v, w} THEN 1 ELSE IF R(Num(v), Num(w)) THEN 2 ELSE 0
Same(m, n) == m = n

LogicMeaning(f, a) ==
  CASE f = "and" -> OfTruth(Least({Truth(v) : v \in Range(a)}))
    [] f = "or" -> OfTruth(Greatest({Truth(v) : v \in Range(a)}))
    [] f = "not" -> OfTruth(2 - Truth(a[1]))
    [] f = "is_true" -> Shown(Truth(a[1]) = 2)
    [] f = "is_false" -> Shown(Truth(a[1]) = 0)
    [] f = "is_null" -> Shown(a[1] = Null)
    [] f = "in" -> OfTruth(Greatest({Related(a[1], v, Same) : v \in Range(Tail(a))}))
    [] f = "between" -> OfTruth(Least({Related(a[1], a[2], >=), Related(a[1], a[3], <=)}))
    [] f = "is_distinct_from" -> Shown(a[1] # a[2])
    [] f = "is_not_distinct_from" -> Shown(a[1] = a[2])
    [] f = "nullif" -> IF a[1] = a[2] THEN Null ELSE a[1]
    [] f = "ifnull" -> IF a[1] = Null THEN a[2] ELSE a[1]
    [] f = "if" -> IF a[1] = BoolV(TRUE) THEN a[2] ELSE a[3]
    [] f = "coalesce" -> IF NotNull(a) = <<>> THEN Null ELSE Head(NotNull(a))

\* The bind functions answer NULL for any NULL, also where the others decide; NULLIF asks a nil.
LogicDeviates(f, a) ==
  \/ f \in {"in", "between", "is_true", "is_false"} /\ ExistsNull(a)
  \/ f = "nullif" /\ a[1] # Null /\ a[2] = Null

\* AND, OR, NOT, IN, BETWEEN and the conditional functions are those of three-valued logic,
\* however many arguments, wherever the NULLs stand and nested in each other (function.go:281-395),
\* except where the bind functions answer for them.
ThreeValuedLogic ==
  Is("logic") =>
    LET f == expr.calls[1].f
        a == expr.calls[1].args
        inner == LogicMeaning(f, a)
    IN  LogicDeviates(f, a) \/ IF Len(expr.calls) = 1 THEN Answer = inner
                               ELSE Answer = IF inner = Null THEN Null ELSE Shown(inner = Shown(FALSE))

(***************************************************************************)
(* Orders                                                                  *)
(***************************************************************************)
Day(y, m, d) == CivilDay(y, m, d)
Noon == At(Day(2024, 2, 29), 43200, 0)
SomeTimes == {At(0, 0, 0), At(Day(2024, 2, 29), 43200, 0), At(Day(2024, 2, 29), 43200, 500000), At(Day(2024, 3, 1), 60, 0)}
Pool ==
  [int |-> {IntV(n) : n \in {-MaxInt - 1, -3, 0, Exact + 1, Exact + 2, MaxInt}},
   float |-> {FloatV(q) : q \in {-6, -1, 0, 1, 4 * Exact + 4}},
   numeric |-> {NumericV(r) : r \in {<<-1, 2>>, <<0, 1>>, <<33, 100>>, <<1, 2>>, <<3, 1>>}},
   bignumeric |-> {BigNumericV(r) : r \in {<<-1, 2>>, <<333, 1000>>}},
   string |-> {StringV(s) : s \in {<<>>, <<97>>, <<97, 98>>, <<98>>, <<233>>}},
   bytes |-> {BytesValue(s) : s \in {<<>>, <<97>>, <<97, 0>>, <<195, 169>>}},
   date |-> {DateV(t) : t \in SomeTimes}, datetime |-> {DatetimeV(t) : t \in SomeTimes},
   time |-> {TimeV(t) : t \in SomeTimes}, timestamp |-> {TimestampV(t) : t \in SomeTimes}]
Kinds == DOMAIN Pool

IntArrays == {ArrayV(s) : s \in SeqsUpTo({IntV(1), IntV(2)}, 2)}
TextArrays == {ArrayV(s) : s \in SeqsUpTo({StringV(<<97>>), StringV(<<97, 124>>), StringV(<<>>)}, 2)}
Structs == {StructV(<<<<<<120>>, v>>, <<<<121>>, w>>>>) : v \in {IntV(1), IntV(2)}, w \in {StringV(<<97>>), StringV(<<>>)}}
Compound == {IntArrays, TextArrays, Structs}

SixTests(v, w) ==
  [i \in 1..6 |-> Plainly(<<"less", "equal", "greater", "less_or_equal", "greater_or_equal", "not_equal">>[i], <<v, w>>)]
OrderExprs ==
  UNION {{About("order", SixTests(v, w) \o <<Plainly("less", <<w, v>>)>>) : v, w \in Pool[k]} : k \in Kinds}
  \union UNION {{About("transitive", <<Plainly("less", <<u, v>>), Plainly("less", <<v, w>>), Plainly("less", <<u, w>>)>>) :
                   u, v, w \in Pool[k]} : k \in Kinds}
  \union UNION {{About("same", <<Plainly("equal", <<v, w>>), Plainly("not_equal", <<v, w>>)>>) : v, w \in S} : S \in Compound}

\* Of two values of one type one is less or they are equal, and the six operators agree on it;
\* less is transitive; and the collation that ORDER BY uses puts them in that order
\* (function_register.go:490).
OrdersTotal ==
  /\ Is("order") =>
       LET is(i) == answers[i] = Shown(TRUE)
           v == Given(1)
           w == Given(2)
       IN  /\ \A i \in 1..7 : answers[i] \in {Shown(TRUE), Shown(FALSE)}
           /\ Cardinality({i \in 1..3 : is(i)}) = 1
           /\ is(2) <=> v = w
           /\ is(4) <=> is(1) \/ is(2)
           /\ is(5) <=> is(3) \/ is(2)
           /\ is(6) <=> ~is(2)
           /\ is(7) <=> is(3)
           /\ Collate(v, w) = (IF is(1) THEN -1 ELSE IF is(2) THEN 0 ELSE 1)
  /\ Is("transitive") => (answers[1] = Shown(TRUE) /\ answers[2] = Shown(TRUE) => answers[3] = Shown(TRUE))

\* Two values that hold a bar may have one key, and two values without elements have.
Bars(v) == \E s \in {ToText(IF Kind(v) = "array" THEN Num(v)[i] ELSE Num(v)[i][2]) : i \in DOMAIN Num(v)} : 124 \in Range(s)

\* Two arrays or two structs are equal when they have the same elements, in number too; and
\* GROUP BY, which compares joined texts (function_register.go:478), puts them together just then,
\* unless a text holds the bar that joins them, or one is empty and the other has one empty text.
SameElements ==
  Is("same") =>
    LET v == Given(1)
        w == Given(2)
        empty == {u \in {v, w} : Num(u) \in {<<>>, <<StringV(<<>>)>>}}
    IN  /\ answers = <<Shown(v = w), Shown(v # w)>>
        /\ Bars(v) \/ Bars(w) \/ empty = {v, w} \/ (GroupKey(Stored(v)) = GroupKey(Stored(w)) <=> v = w)

(***************************************************************************)
(* Casts                                                                   *)
(***************************************************************************)
Type(k) == [kind |-> k]
CastCall(v, from, to) == Plainly("cast", <<v, TypeV(from), TypeV(to), BoolV(FALSE)>>)
SafeCastCall(v, from, to) == Plainly("cast", <<v, TypeV(from), TypeV(to), BoolV(TRUE)>>)
There(v, from, to) == About("there and back", <<CastCall(v, from, to), CastCall(Hole, to, from)>>)

Bools == {BoolV(TRUE), BoolV(FALSE)}
Intervals == {IntervalV(Interval(1, 2, 3, 4, 5, 6)), IntervalV(Interval(0, -2, -30, 25, 0, 59)), IntervalV(Interval(-1, -11, 0, 0, 0, 0))}
WiderThan ==   \* kinds whose values are all values of another kind
  {<<"int", "numeric">>, <<"int", "bignumeric">>, <<"int", "float">>, <<"numeric", "bignumeric">>,
   <<"date", "datetime">>, <<"date", "timestamp">>, <<"datetime", "timestamp">>, <<"float", "bignumeric">>,
   <<"string", "bytes">>}
ArrayType(k) == [kind |-> "array", elem |-> Type(k)]
StructType(names, k) == [kind |-> "struct", fields |-> [i \in DOMAIN names |-> <<names[i], Type(k)>>]]
Pairs(names) == StructV([i \in DOMAIN names |-> <<FieldKey(names[i], i), IntV(i)>>])
NameSeqs == {<<<<120>>, <<121>>>>, <<<<121>>, <<120>>>>, <<<<>>, <<>>>>}

CastExprs ==
  UNION {{There(v, Type(k), Type("string")) : v \in Pool[k]} : k \in Kinds}
  \union {There(v, Type("bool"), Type(k)) : v \in Bools, k \in {"string", "int"}}
  \union {There(v, Type("interval"), Type("string")) : v \in Intervals}
  \union UNION {{There(v, Type(p[1]), Type(p[2])) : v \in Pool[p[1]]} : p \in WiderThan}
  \union {There(ArrayV(s), ArrayType("string"), ArrayType("bytes")) : s \in SeqsUpTo(Pool.string, 2)}
  \union {There(ArrayV(s), ArrayType("int"), ArrayType("string")) : s \in SeqsUpTo({IntV(-3), IntV(7), Null}, 2)}
  \union {There(Pairs(names), StructType(names, "int"), StructType(others, "string")) : names, others \in NameSeqs}
  \union {About("narrow", <<SafeCastCall(v, Type("float"), Type("int"))>>) : v \in Pool.float}
  \union {About("narrow", <<SafeCastCall(v, Type("numeric"), Type("int"))>>) : v \in Pool.numeric}
  \union {About("narrow", <<SafeCastCall(v, Type("string"), Type(k))>>) : v \in Pool.string, k \in {"int", "bool", "date", "interval"}}

CastDeviates(v, from, to) ==
  \/ from.kind = "bytes" /\ Utf8(FromUtf8(Num(v))) # Num(v)
  \/ from.kind = "int" /\ to.kind = "float" /\ Abs(Num(v)) > Exact
  \/ from.kind = "struct" /\ {n[1] : n \in Range(from.fields)} # {n[1] : n \in Range(to.fields)}
  \/ to.kind = "struct" /\ from # StructType([i \in DOMAIN to.fields |-> to.fields[i][1]], "int")   \* fields go by name

\* What a cast to a wider type or to STRING keeps, the cast back gives again, element by element
\* (encoder.go, value.go): no digit, sign, part of a second or character is lost between the
\* writer of a text and its reader.  SAFE_CAST to a narrower type answers NULL or, for a FLOAT64,
\* a number less than one away.
CastsReturn ==
  /\ Is("there and back") =>
       LET from == Num(expr.calls[1].args[2])
           to == Num(expr.calls[1].args[3])
           v == Given(1)
       IN  CastDeviates(v, from, to) \/ Answer = Stored(v)
  /\ Is("narrow") =>
       LET to == Num(expr.calls[1].args[3])
       IN  /\ Answer = Null \/ Kind(Answer) = (IF to.kind = "bool" THEN "int" ELSE to.kind)
           /\ Kind(Given(1)) = "float" => Abs(4 * Num(Answer) - Num(Given(1))) < 4

(***************************************************************************)
(* Elements and fields                                                     *)
(***************************************************************************)
Elements == UNION {Pool[k] : k \in Kinds} \union Bools
KeyX == StringV(<<120>>)
KeyY == StringV(<<121>>)
TypeOf(v) == Type(Kind(v))
TakenOut(v, calls) == About("element", calls \o <<CastCall(Hole, TypeOf(v), TypeOf(v))>>)

ElementExprs ==
  UNION {{TakenOut(v, <<Plainly("make_array", <<v, Null>>), Plainly("array_at_offset", <<Hole, IntV(0)>>)>>),
          TakenOut(v, <<Plainly("make_array", <<v, Null>>), Plainly("array_reverse", <<Hole>>),
                        Plainly("array_at_ordinal", <<Hole, IntV(2)>>)>>),
          TakenOut(v, <<Plainly("make_array", <<v>>), Plainly("array_concat", <<Hole, ArrayV(<<v>>)>>),
                        Plainly("array_last", <<Hole>>)>>),
          TakenOut(v, <<Plainly("make_struct", <<KeyX, Null, KeyY, v>>), Plainly("make_array", <<Hole>>),
                        Plainly("array_first", <<Hole>>), Plainly("get_struct_field", <<Hole, IntV(1)>>)>>)} : v \in Elements}
  \union {About("index", <<Plainly("make_array", s), [Plainly(f, <<Hole, IntV(i)>>) EXCEPT !.safe = safe]>>) :
            s \in SeqsUpTo({StringV(<<97>>), Null}, 2), i \in -2..3, safe \in BOOLEAN,
            f \in {"array_at_offset", "array_at_ordinal"}}

Written == Range(expr.calls[1].args) \ {Null, KeyX, KeyY}
\* The difference of the FLOAT64 nearest to an INT64 that has no FLOAT64 of its own.
NearEnough(m, n) == Abs(m) > Exact /\ Abs(n - m) * Exact <= Abs(m)

\* What is put into an array or a struct, in whatever nesting, is what is taken out and given its
\* type again, although it goes through JSON on the way (encoder.go, decoder.go): but an INT64
\* beyond 2^53 comes back as the FLOAT64 next to it.  An index out of range is an error or, when
\* safe, NULL.
ElementsKept ==
  /\ Is("element") =>
       \A v \in Written \ {StringV(<<120>>)} :
         \/ Answer = Stored(v)
         \/ Kind(v) = "int" /\ Kind(Answer) = "int" /\ (NearEnough(Num(v), Num(Answer)) \/ Num(Answer) = -MaxInt - 1)
  /\ Is("index") =>
       LET s == expr.calls[1].args
           c == expr.calls[2]
           place == Num(c.args[2]) + (IF c.f = "array_at_offset" THEN 1 ELSE 0)
       IN  Answer = IF place \in DOMAIN s THEN s[place] ELSE IF c.safe THEN Null ELSE Error

\* A value survives its ways: through a CAST and back, and through an array or a struct
\* (encoder.go:356-505, 623-739, decoder.go:14-109).
ValuesReturn == CastsReturn /\ ElementsKept

(***************************************************************************)
(* Arithmetic                                                              *)
(***************************************************************************)
Ints == {IntV(n) : n \in {-MaxInt - 1, -MaxInt, -Exact - 1, -3, -1, 0, 1, 2, 7, Exact + 1, MaxInt}}
Halves == {FloatV(q) : q \in {-7, -6, -5, -2, 0, 1, 2, 3, 6, 20}}
Ratios == {NumericV(r) : r \in {<<-3, 2>>, <<0, 1>>, <<1, 3>>, <<2, 1>>}}

ArithmeticExprs ==
  {About("number", <<[Plainly(f, <<v, w>>) EXCEPT !.safe = safe]>>) :
     f \in {"add", "subtract", "multiply"}, v, w \in Ints, safe \in BOOLEAN}
  \union UNION {{About("back", <<Plainly(p[1], <<v, w>>), Plainly(p[2], <<Hole, w>>)>>) :
                   p \in {<<"add", "subtract">>, <<"subtract", "add">>}, v, w \in S} : S \in {Ints, Halves, Ratios}}
  \union {About("back", <<Plainly("divide", <<v, w>>), Plainly("multiply", <<Hole, w>>)>>) : v, w \in Ratios}
  \union {About("remainder", <<Plainly("mod", <<v, w>>), Plainly("div", <<v, w>>), Plainly("multiply", <<Hole, w>>),
                               Plainly("subtract", <<v, Hole>>)>>) : v, w \in Ints}
  \union {About("bits", <<Plainly("bitwise_and", <<v, w>>), Plainly("bitwise_or", <<v, w>>),
                          Plainly("bitwise_xor", <<v, w>>)>>) : v, w \in Ints}
  \union {About("shift", <<Plainly(f, <<v, IntV(k)>>)>>) :
            f \in {"bitwise_left_shift", "bitwise_right_shift"}, v \in Ints, k \in -1..12}
  \union {One("round", f, <<v>>) : f \in {"abs", "ceil", "floor", "round", "trunc", "sign"}, v \in Halves}
  \union {One("choose", f, args) : f \in {"greatest", "least"}, args \in [1..3 -> {IntV(-3), IntV(0), IntV(2)}]}

AllExact(S) == \A n \in S : Abs(n) <= Exact
Sum(f, m, n) == CASE f = "add" -> m + n [] f = "subtract" -> m - n [] f = "multiply" -> m * n
\* The integer that is p of the integers at most one away from q quarters.
Whole(q, P(_)) == CHOOSE n \in (q \div 4 - 1)..(q \div 4 + 1) : P(n)
RoundMeaning(f, q) ==
  CASE f = "abs" -> FloatV(IF q < 0 THEN -q ELSE q)
    [] f = "sign" -> IntV(IF q < 0 THEN -1 ELSE IF q > 0 THEN 1 ELSE 0)
    [] f = "floor" -> FloatV(4 * Whole(q, LAMBDA n : 4 * n <= q /\ q < 4 * n + 4))
    [] f = "ceil" -> FloatV(4 * Whole(q, LAMBDA n : 4 * n - 4 < q /\ q <= 4 * n))
    [] f = "trunc" -> FloatV(4 * Whole(q, LAMBDA n : Abs(4 * n) <= Abs(q) /\ Abs(q) < Abs(4 * n) + 4 /\ n * q >= 0))
    [] f = "round" -> FloatV(4 * Whole(q, LAMBDA n : Abs(4 * n - q) < 2 \/ (Abs(4 * n - q) = 2 /\ Abs(4 * n) > Abs(q))))

\* INT64 arithmetic is that of the integers modulo 2^64 and exact when the result is an INT64,
\* that of NUMERIC is exact: taking back what was added gives the operand again.  SAFE_ADD and its
\* like work on FLOAT64 instead (function_math.go), and so does MOD: they never overflow, and are
\* exact to 2^53 only.  DIV and MOD belong together, so do the bitwise operators.
ArithmeticExact ==
  /\ Is("number") =>
       LET exact == Sum(LastCall.f, Num(Given(1)), Num(Given(2)))
       IN  IF LastCall.safe
           THEN Kind(Answer) = "float" /\ (AllExact({Num(Given(1)), Num(Given(2)), exact}) => Num(Answer) = 4 * exact)
           ELSE /\ (Num(Answer) - exact) % (2 * MaxInt + 2) = 0
                /\ Num(Answer) \in (-MaxInt - 1)..MaxInt
  /\ Is("back") => Answer = Given(1) \/ (Answer = Error /\ LastCall.f = "divide" /\ Num(Given(2))[1] = 0)
  /\ Is("remainder") => IF Num(Given(2)) = 0 THEN answers = <<Error>>
                        ELSE /\ Kind(answers[1]) = "float"
                             /\ AllExact({Num(Given(1)), Num(Given(2))}) => Num(answers[1]) = 4 * Num(Answer)
  /\ Is("bits") => /\ Num(answers[1]) + Num(answers[2]) = Num(Given(1)) + Num(Given(2))
                   /\ Num(answers[3]) = Num(answers[2]) - Num(answers[1])
  /\ Is("shift") =>
       LET n == Num(Given(1))
           k == Num(Given(2))
       IN  IF k < 0 THEN Answer = Panic
           ELSE IF LastCall.f = "bitwise_right_shift" THEN Num(Answer) * 2^k <= n /\ n < (Num(Answer) + 1) * 2^k
           ELSE InRange(Num(Answer)) /\ (Num(Answer) - n * 2^k) % (2 * MaxInt + 2) = 0
  /\ Is("round") => Answer = RoundMeaning(LastCall.f, Num(Given(1)))
  /\ Is("choose") => LET ns == {Num(v) : v \in Range(expr.calls[1].args)}
                     IN  Answer = IntV(IF LastCall.f = "greatest" THEN Greatest(ns) ELSE Least(ns))

(***************************************************************************)
(* Arrays                                                                  *)
(***************************************************************************)
Letter == [i \in 1..3 |-> StringV(<<96 + i>>)]
SomeArrays == {ArrayV(SubSeq(Letter, 1, n)) : n \in 0..3}
WithNulls == {ArrayV(s) : s \in SeqsUpTo({Letter[1], StringV(<<>>), Null}, 2)}
Bounds == {ArrayV(<<>>), ArrayV(<<IntV(0), IntV(2), IntV(2), IntV(5)>>)}
Feb == Midnight(Day(2024, 2, 26))

ArrayExprs ==
  {One("slice", "array_slice", <<v, IntV(i), IntV(j)>>) : v \in SomeArrays, i, j \in -5..4}
  \union {About("turned", <<Plainly("array_concat", <<v, w>>), Plainly("array_reverse", <<Hole>>)>>) : v, w \in SomeArrays}
  \union {One("joined", "array_to_string", <<v, StringV(<<44>>)>> \o null) : v \in WithNulls, null \in {<<>>, <<StringV(<<78>>)>>}}
  \union {One("generated", "generate_array", <<IntV(m), IntV(n), IntV(k)>>) : m, n \in {-3, 0, 1, 4}, k \in {1 - MaxInt, -2, 0, 1, 3}}
  \union {One("generated", "generate_array", <<IntV(m), IntV(n), IntV(k)>>) : m, n \in {MaxInt - 6, MaxInt - 5, MaxInt - 1}, k \in {-2, 1, 3}}
  \union {One("generated", "generate_array", <<NumericV(<<m, 2>>), NumericV(<<n, 2>>), NumericV(<<k, 2>>)>>) :
             m, n \in {-3, 1, 5}, k \in {-1, 3}}
  \union {One("days", "generate_date_array", <<DateV(Feb), DateV(Midnight(Feb.day + n)), IntV(k), PartV(part)>>) :
             n \in {-16, -1, 0, 4, 15}, k \in {-2, -1, 1, 3}, part \in {"DAY", "WEEK"}}
  \union {One("bucket", "range_bucket", <<IntV(n), v>>) : n \in -1..6, v \in Bounds}
  \union {One("member", "in_array", <<IntV(n), v>>) : n \in -1..6, v \in Bounds}

\* The k-th element counted from the end if negative.
FromEnd(i, len) == IF i < 0 THEN len + i ELSE i
Steps(m, n, k) == {i \in 0..MaxElements : IF k > 0 THEN m + i * k <= n ELSE m + i * k >= n}

\* A first and last that are the same need a step upwards; a step of 0 down never ends, nor
\* does a sequence whose next number overflows; the elements of NUMERIC are one number.
GenerateDeviates(m, n, k) == (m = n /\ k < 0) \/ k = 0 \/ (Steps(m, n, k) # {} /\ ~InRange(m + Cardinality(Steps(m, n, k)) * k))

\* ARRAY_SLICE counts negative offsets from the end and cuts what is out of the array;
\* GENERATE_ARRAY and GENERATE_DATE_ARRAY go from the start in steps and hold no element beyond the
\* end; the other functions on arrays keep their elements and their order (function_array.go).
ArraysMean ==
  /\ Is("slice") =>
       LET s == Num(Given(1))
           chosen == SelectSeq([i \in 1..Len(s) |-> i - 1],
                               LAMBDA i : FromEnd(Num(Given(2)), Len(s)) <= i /\ i <= FromEnd(Num(Given(3)), Len(s)))
       IN  Answer = ArrayV([i \in DOMAIN chosen |-> s[chosen[i] + 1]])
  /\ Is("turned") =>
       LET s == Num(Given(1)) \o Num(Given(2)) IN Answer = ArrayV([i \in DOMAIN s |-> s[Len(s) + 1 - i]])
  /\ Is("joined") =>
       LET null == IF Len(expr.calls[1].args) = 3 THEN Num(Given(3)) ELSE Null
           shown == SelectSeq(Num(Given(1)), LAMBDA v : v # Null \/ null # Null)
           texts == [i \in DOMAIN shown |-> IF shown[i] = Null THEN null ELSE Num(shown[i])]
       IN  Answer = StringV(FlattenSeq([i \in DOMAIN texts |-> IF i = 1 THEN texts[i] ELSE <<44>> \o texts[i]]))
  /\ Is("generated") /\ Kind(Given(1)) = "int" =>
       LET m == Num(Given(1))
           k == Num(Given(3))
       IN  \/ GenerateDeviates(m, Num(Given(2)), k)
           \/ Answer = Stored(ArrayV([i \in 1..Cardinality(Steps(m, Num(Given(2)), k)) |-> IntV(m + (i - 1) * k)]))
  /\ Is("generated") /\ Kind(Given(1)) = "numeric" =>
       LET m == Num(Given(1))[1]
           k == Num(Given(3))[1]
           n == Num(Given(2))[1]
       IN  GenerateDeviates(m, n, k) \/ Len(Num(Answer)) = Cardinality(Steps(m, n, k))
  /\ Is("days") =>
       LET unit == Num(Given(3)) * (IF Num(Given(4)) = "WEEK" THEN 7 ELSE 1)
           last == Num(Given(2)).day
       IN  \/ GenerateDeviates(Feb.day, last, unit)
           \/ Answer = ArrayV([i \in 1..Cardinality(Steps(Feb.day, last, unit)) |-> DateV(Midnight(Feb.day + (i - 1) * unit))])
  /\ Is("bucket") => Answer = IntV(Cardinality({i \in DOMAIN Num(Given(2)) : Num(Num(Given(2))[i]) <= Num(Given(1))}))
  /\ Is("member") => Answer = Shown(Given(1) \in Range(Num(Given(2))))

=============================================================================
