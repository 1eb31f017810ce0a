---------------------------- MODULE MCAggregation ----------------------------
(***************************************************************************)
(* What the functions of Aggregation mean, and the instance TLC checks.    *)
(***************************************************************************)
EXTENDS Aggregation, FiniteSetsExt

CONSTANTS MaxRows, MaxGroup   \* the lengths of a partition and of a group

(***************************************************************************)
(* Calls and inputs                                                        *)
(***************************************************************************)
Plain == [distinct |-> FALSE, ignoreNulls |-> FALSE]
WindowOpts == {Plain, [Plain EXCEPT !.ignoreNulls = TRUE]}
UserFrames == {WholePartition, Frame("ROWS", -1, 0), Frame("ROWS", -1, 1), Frame("ROWS", 1, 2),
               Frame("RANGE", -1, 0), Frame("RANGE", -Far, 0)}

WindowCalls ==
  [builder : {"single"}, frame : UserFrames \union {FixedFrame.lag, FixedFrame.lead}, opt : WindowOpts]
  \union [builder : {"single"}, frame : {WholePartition}, opt : {[Plain EXCEPT !.distinct = TRUE]}]
  \union [builder : {"count", "tuple"}, frame : UserFrames, opt : {Plain}]
  \union [builder : {"constant"}, frame : UserFrames \union {FixedFrame.rank, FixedFrame.row_number}, opt : {Plain}]
  \union [builder : {"total"}, frame : {FixedFrame.ntile, FixedFrame.cume_dist, FixedFrame.percent_rank}, opt : {Plain}]
  \union [builder : {"dense"}, frame : {FixedFrame.dense_rank}, opt : {Plain}]

GroupOpts ==
  [distinct : BOOLEAN, ignoreNulls : BOOLEAN, limit : {Null}, asc : {TRUE}, having : {"none"}]
  \union [distinct : {FALSE}, ignoreNulls : {FALSE}, limit : {Null, IntV(1)}, asc : BOOLEAN, having : {"none"}]
  \union [distinct : {FALSE}, ignoreNulls : {FALSE}, limit : {Null}, asc : {TRUE}, having : {"MAX", "MIN"}]
GroupCalls == [builder : {"group"}, frame : {WholePartition}, opt : GroupOpts]

MCCalls == WindowCalls \union GroupCalls

SeqsUpTo(S, n) == UNION {[1..m -> S] : m \in 0..n}
IntVals == {Null, IntV(-2), IntV(0), IntV(3)}
Keyed(vals, keys) == [val : vals, key : keys]
\* Partitions are sorted by their key.
Partitions(vals, n) ==
  {p \in SeqsUpTo(Keyed(vals, {<<IntV(1)>>, <<IntV(2)>>, <<IntV(4)>>}), n) :
     \A i \in 1..(Len(p) - 1) : Num(p[i].key[1]) <= Num(p[i + 1].key[1])}
OrderKeys == {<<IntV(1), IntV(1)>>, <<IntV(1), IntV(2)>>, <<Null, IntV(1)>>, <<Null, IntV(2)>>, <<IntV(2), Null>>}
Groups == SeqsUpTo(Keyed({Null, IntV(-1), IntV(1), IntV(2)}, {<<IntV(1)>>}), MaxGroup)
          \union SeqsUpTo(Keyed({IntV(1), IntV(2)}, OrderKeys), 3)

MCInputs ==
  [b \in {"single", "count", "tuple", "constant", "total", "dense", "group"} |->
     CASE b \in {"single", "count"} -> Partitions(IntVals, MaxRows)
       [] b = "tuple" -> Partitions({<<IntV(1), IntV(2)>>, <<Null, IntV(2)>>}, MaxRows)
       [] b \in {"constant", "total", "dense"} -> Partitions({Null}, MaxRows + 1)
       [] b = "group" -> Groups]

(***************************************************************************)
(* Window functions                                                        *)
(***************************************************************************)
HasFrame(f) == f \in DOMAIN FixedFrame
RankFuncs == {"rank", "dense_rank", "percent_rank", "cume_dist", "ntile", "row_number"}
ListFuncs == {"array_agg", "avg", "count", "count_star", "countif"}
ValuedFuncs == {"max", "min", "string_agg", "sum"}
Navigation == {"any_value", "first_value", "last_value", "nth_value", "lead", "lag"}
Logical == {"logical_and", "logical_or"}
Percentiles == {"percentile_cont", "percentile_disc"}
PairFuncs == {"corr", "covar_pop", "covar_samp"}
Statistics == PairFuncs \union {"stddev", "stddev_pop", "var_pop", "var_samp"}
FrameFuncs == ListFuncs \union ValuedFuncs \union Logical \union (Statistics \ PairFuncs)
              \union {"any_value", "first_value", "last_value", "nth_value"}
WindowFuncs == RankFuncs \union ListFuncs \union ValuedFuncs \union Navigation \union Logical \union Percentiles \union Statistics
TakesNullOption == {"array_agg", "first_value", "last_value", "nth_value"} \union Percentiles

CallFuncs ==
  {f \in WindowFuncs :
     /\ Builder(f) = call.builder
     /\ IF HasFrame(f) THEN call.frame = FixedFrame[f] ELSE ~call.frame.exclude
     /\ call.opt.ignoreNulls => f \in TakesNullOption}

Args == [offset : 1..2, default : {Null, IntV(7)}, quarters : 0..4, tiles : 1..3]
SomeArg == [offset |-> 1, default |-> Null, quarters |-> 2, tiles |-> 2]
ArgsOf(f) ==
  CASE f \in {"lead", "lag", "nth_value"} -> {a \in Args : a.quarters = 2 /\ a.tiles = 2}
    [] f \in Percentiles -> {a \in Args : a.offset = 1 /\ a.default = Null /\ a.tiles = 2}
    [] f = "ntile" -> {a \in Args : a.offset = 1 /\ a.default = Null /\ a.quarters = 2}
    [] OTHER -> {SomeArg}

Done(f, s, arg) ==
  IF RelevantPanics(s) /\ f \notin {"any_value", "lead", "lag"} THEN Panic ELSE
  CASE f \in ListFuncs -> ListDone(f, s)
    [] f \in ValuedFuncs -> ValuedDone(f, s)
    [] f \in Navigation -> NavigationDone(f, s, arg)
    [] f \in Logical -> LogicalDone(f, s)
    [] f = "percentile_cont" -> PercentileCont(s, arg)
    [] f = "percentile_disc" -> PercentileDisc(s, arg)
    [] f \in PairFuncs -> PairDone(s)
    [] f \in Statistics \ PairFuncs -> StatisticDone(f, s)
    [] f = "ntile" -> Ntile(s, arg)
    [] f \in RankFuncs \ {"ntile"} -> RankDone(f, s)

\* The i-th of these numbers is the one that is not below i of them.
Ascending(S) == [i \in 1..Cardinality(S) |-> CHOOSE j \in S : Cardinality({k \in S : k <= j}) = i]

\* The rows of S that count for a function, as an increasing list of positions.
CountedRows(S, dropNulls, distinct) ==
  LET kept == {j \in S : dropNulls => rows[j].val # Null}
  IN  {j \in kept : distinct => \A k \in kept : k < j => rows[k].val # rows[j].val}
Counted(S, dropNulls, distinct) == Ascending(CountedRows(S, dropNulls, distinct))

Extreme(js, Above(_, _)) ==
  CHOOSE v \in {rows[js[i]].val : i \in DOMAIN js} : \A i \in DOMAIN js : ~Above(Num(rows[js[i]].val), Num(v))
ValsAt(js) == [i \in DOMAIN js |-> rows[js[i]].val]
Total(js) ==
  LET sum[k \in 0..Len(js)] == IF k = 0 THEN 0 ELSE sum[k - 1] + Num(rows[js[k]].val)
  IN  sum[Len(js)]
RowsBefore(i) == {j \in DOMAIN rows : Num(rows[j].key[1]) < Num(rows[i].key[1])}
RowsUpTo(i) == {j \in DOMAIN rows : Num(rows[j].key[1]) <= Num(rows[i].key[1])}

\* The bucket of row i of n rows in k buckets: the first n % k have one row more.
Bucket(i, n, k) ==
  CHOOSE b \in 1..k :
    LET Size(c) == n \div k + (IF c <= n % k THEN 1 ELSE 0)
        UpToBucket(c) == FoldSet(LAMBDA d, m : m + Size(d), 0, 1..c)
    IN  UpToBucket(b - 1) < i /\ i <= UpToBucket(b)

\* Four times the value at a quarter position of the sorted values v: between two of them.
Interpolated(v, q) ==
  LET pos == q * (Len(v) - 1)
      low == pos \div 4 + 1
      next == IF pos % 4 = 0 THEN low ELSE low + 1
  IN  4 * Num(v[low]) + (pos % 4) * (Num(v[next]) - Num(v[low]))

\* What the functions of the values in a frame mean, for the frame of row i.
FrameMeaning(f, i, arg) ==
  LET frame == FrameRows(i)
      js == Counted(frame, call.opt.ignoreNulls, call.opt.distinct)
      nn == Counted(frame, TRUE, call.opt.distinct)
      OrNull(cond, r) == IF cond THEN Null ELSE r
      At(s, k) == IF k \in DOMAIN s THEN rows[s[k]].val ELSE Null
  IN  CASE f = "array_agg" -> Result("array", ValsAt(js))
        [] f = "avg" -> OrNull(nn = <<>>, Result("ratio", <<Total(nn), Len(nn)>>))
        [] f = "count" -> IntV(Len(nn))
        [] f = "count_star" -> IntV(Cardinality(frame))
        [] f = "countif" -> IntV(Cardinality({k \in DOMAIN nn : Num(rows[nn[k]].val) # 0}))
        [] f = "max" -> OrNull(nn = <<>>, Extreme(nn, LAMBDA a, b : a > b))
        [] f = "min" -> OrNull(nn = <<>>, Extreme(nn, LAMBDA a, b : a < b))
        [] f = "sum" -> OrNull(nn = <<>>, IntV(Total(nn)))
        [] f = "string_agg" -> OrNull(nn = <<>>, Result("joined", ValsAt(nn)))
        [] f \in {"any_value", "first_value"} -> At(js, 1)
        [] f = "last_value" -> At(js, Len(js))
        [] f = "nth_value" -> At(js, arg.offset)
        [] f = "logical_and" -> Result("bool", \A k \in DOMAIN nn : Num(rows[nn[k]].val) # 0)
        [] f = "logical_or" -> Result("bool", \E k \in DOMAIN nn : Num(rows[nn[k]].val) # 0)
        [] f \in Population -> OrNull(nn = <<>>, Spread(ValsAt(nn), Len(nn)))
        [] f \in Statistics \ (PairFuncs \union Population) ->
             OrNull(Len(nn) < 2, Spread(ValsAt(nn), Len(nn) - 1))

\* What the others mean.
Meaning(f, i, arg) ==
  LET frame == FrameRows(i)
      js == Counted(frame, call.opt.ignoreNulls, call.opt.distinct)
      nn == Counted(frame, TRUE, call.opt.distinct)
      n == Len(rows)
      OrNull(cond, r) == IF cond THEN Null ELSE r
      sorted == Sorted(ValsAt(nn))
      sortedAll == Sorted(ValsAt(js))
      Neighbour(k) == IF k \in DOMAIN rows THEN rows[k].val ELSE arg.default
      pairs == SetToSortSeq({j \in frame : Null \notin Range(rows[j].val)}, <)
      samples == [k \in DOMAIN pairs |-> <<"numeric", rows[pairs[k]].val>>]
  IN  CASE f = "lead" -> Neighbour(i + arg.offset)
        [] f = "lag" -> Neighbour(i - arg.offset)
        [] f = "percentile_cont" -> OrNull(nn = <<>>, Result("quarters", Interpolated(sorted, arg.quarters)))
        [] f = "percentile_disc" ->
             OrNull(js = <<>>, sortedAll[CHOOSE k \in DOMAIN sortedAll :
                                           /\ 4 * k >= arg.quarters * Len(js)
                                           /\ \A m \in DOMAIN sortedAll : 4 * m >= arg.quarters * Len(js) => k <= m])
        [] f = "covar_pop" -> OrNull(pairs = <<>>, Spread(samples, Len(pairs)))
        [] f \in PairFuncs \ {"covar_pop"} -> OrNull(Len(pairs) < 2, Spread(samples, Len(pairs) - 1))
        [] f = "rank" -> IntV(Cardinality(RowsBefore(i)) + 1)
        [] f = "dense_rank" -> IntV(Cardinality({rows[j].key : j \in RowsUpTo(i)}))
        [] f = "percent_rank" -> Result("ratio", IF n > 1 THEN <<Cardinality(RowsBefore(i)), n - 1>> ELSE <<0, 1>>)
        [] f = "cume_dist" -> Result("ratio", <<Cardinality(RowsUpTo(i)), n>>)
        [] f = "row_number" -> IntV(i)
        [] f = "ntile" -> IntV(Bucket(i, n, arg.tiles))

\* Where the code does not compute what the function means, each for a reason of its own.
Deviates(f, i, arg) ==
  LET vs == {rows[j].val : j \in FrameRows(i)}
      n == Len(Counted(FrameRows(i), call.opt.ignoreNulls, call.opt.distinct))
  IN  IF call.opt.distinct /\ Null \in vs THEN f # "any_value" ELSE   \* ToString of a nil Value
      CASE f \in Logical -> Null \in vs                           \* ToBool of a nil Value
        [] f \in PairFuncs -> left > 0                             \* Inverse(nil) removes no pair
        [] f \in Statistics \ PairFuncs ->                           \* ToFloat64 of a nil Value,
             Null \in vs \/ (f \in Population /\ n = 1)              \* NULL for one value
        [] f = "percentile_cont" -> IntV(0) \in vs /\ \A v \in vs : v = Null \/ Num(v) <= 0
        [] f = "percentile_disc" -> 0 < arg.quarters /\ arg.quarters * n <= 4
        [] OTHER -> FALSE

\* Whenever SQLite asks for a value, the functions of the values in a frame answer what they
\* mean on the frame of that row: no row is counted twice, missed or kept too long, whatever
\* came before, and DISTINCT and IGNORE NULLS pass over what they should (the Done methods of
\* function_window.go).  The cases of Deviates are left out.
FrameResults ==
  ~IsGroup /\ ~call.frame.exclude /\ Ready =>
    \A f \in CallFuncs \cap FrameFuncs : \A arg \in ArgsOf(f) :
      Deviates(f, at, arg) \/ Done(f, agg, arg) = FrameMeaning(f, at, arg)

\* COVAR_POP computes what COVAR_SAMP means (function_window.go:840-841).
Computed(f) == IF f = "covar_pop" THEN "covar_samp" ELSE f

\* So do the others: ranks, percentiles, pairs, and the values of rows before and after;
\* COVAR_POP answers the covariance of a sample.
WindowResults ==
  /\ ~IsGroup /\ ~call.frame.exclude /\ Ready =>
       \A f \in CallFuncs \ FrameFuncs : \A arg \in ArgsOf(f) :
         Deviates(f, at, arg) \/ Done(f, agg, arg) = Meaning(Computed(f), at, arg)
  /\ ~IsGroup /\ call.frame.exclude /\ at > 1 =>
       \A f \in CallFuncs : Done(f, agg, SomeArg) = Meaning(f, at - 1, SomeArg)

\* COVAR_POP over a window is the covariance of the population of the frame
\* (function_window.go:840, query_test.go:2659); of more than one pair, none taken away yet.
PopulationCovariance ==
  ~IsGroup /\ ~call.frame.exclude /\ Ready /\ call.builder = "tuple" /\ left = 0 /\ Len(agg.values) > 1 =>
    Done("covar_pop", agg, SomeArg) = Meaning("covar_pop", at, SomeArg)

(***************************************************************************)
(* Aggregate functions                                                     *)
(***************************************************************************)
\* A partial result of BIT_OR or BIT_XOR that the code takes for "no value yet".
MarkReached(f, js) ==
  LET Bit(k, b) == b \in BitsOf(rows[js[k]].val)
      Partial(m) == {b \in Bits : LET ones == {k \in 1..m : Bit(k, b)}
                                  IN IF f = "bit_or" THEN ones # {} ELSE Cardinality(ones) % 2 = 1}
  IN  \E m \in 1..(Len(js) - 1) : Partial(m) = Start(f)

GroupMeaning(f, S) ==
  LET js == Counted(S, call.opt.ignoreNulls, call.opt.distinct)
      nn == Counted(S, TRUE, call.opt.distinct)
      Bit(k, b) == b \in BitsOf(rows[nn[k]].val)
      OrNull(cond, r) == IF cond THEN Null ELSE r
  IN  CASE f = "array" -> Result("array", ValsAt(js))
        [] f = "sum" -> OrNull(nn = <<>>, IntV(Total(nn)))
        [] f = "avg" -> OrNull(nn = <<>>, Result("ratio", <<Total(nn), Len(nn)>>))
        [] f = "count" -> IntV(Len(nn))
        [] f = "count_star" -> IntV(Len(js))
        [] f = "countif" -> IntV(Cardinality({k \in DOMAIN nn : Num(rows[nn[k]].val) # 0}))
        [] f = "max" -> OrNull(nn = <<>>, Extreme(nn, LAMBDA a, b : a > b))
        [] f = "min" -> OrNull(nn = <<>>, Extreme(nn, LAMBDA a, b : a < b))
        [] f = "logical_and" -> Result("bool", \A k \in DOMAIN nn : Num(rows[nn[k]].val) # 0)
        [] f = "logical_or" -> Result("bool", \E k \in DOMAIN nn : Num(rows[nn[k]].val) # 0)
        [] f = "bit_and" -> Result("bits", {b \in Bits : \A k \in DOMAIN nn : Bit(k, b)})
        [] f = "bit_or" -> Result("bits", {b \in Bits : \E k \in DOMAIN nn : Bit(k, b)})
        [] f = "bit_xor" -> Result("bits", {b \in Bits : Cardinality({k \in DOMAIN nn : Bit(k, b)}) % 2 = 1})
        [] f = "population" -> OrNull(nn = <<>>, Spread(ValsAt(nn), Len(nn)))
        [] f = "sample" -> OrNull(Len(nn) < 2, Spread(ValsAt(nn), Len(nn) - 1))
        [] f = "approx_count_distinct" -> IntV(Cardinality({rows[j].val : j \in S} \ {Null}))

\* The result of a group is that of all its rows, in whatever order they came: nothing a
\* function keeps between rows depends on which came first, except the marks of BIT_OR and
\* BIT_XOR (function_aggregate.go:278, :303), which some inputs reach.  A sample of one value
\* is divided by zero (NaN) instead of answering NULL.
GroupResults ==
  IsGroup =>
    LET nn == Counted(1..entered, TRUE, call.opt.distinct)
    IN  \A f \in GroupFuncs \ {"any_value", "array_agg", "array_concat_agg", "string_agg",
                               "approx_quantiles", "approx_top_count"} :
          \/ f \in {"bit_or", "bit_xor"} /\ (nn = <<>> \/ MarkReached(f, nn))
          \/ f = "sample" /\ Len(nn) = 1
          \/ GroupAnswer(f, agg) = GroupMeaning(f, 1..entered)

\* ORDER BY inside an aggregate: with NULLs first when ascending and last when descending,
\* by the first key, then by the second, except among rows whose first key is NULL
\* (sortAggregatedValues stops there); LIMIT keeps a prefix of that order.
AggregateOrder ==
  IsGroup /\ call.opt.having = "none" =>
    LET kept == agg.acc["string_agg"]
        sorted == SortAggregatedValues(kept)
        KeyOf(x, k) == x.orderBy[k].value
        Before1(a, b) == IF call.opt.asc THEN (a = Null /\ b # Null) \/ (a # Null /\ b # Null /\ Num(a) < Num(b))
                         ELSE (a # Null /\ b = Null) \/ (a # Null /\ b # Null /\ Num(a) > Num(b))
        Comes(x, y) == \E k \in DOMAIN x.orderBy :
                         /\ Before1(KeyOf(x, k), KeyOf(y, k))
                         /\ \A m \in 1..(k - 1) : KeyOf(x, m) = KeyOf(y, m) /\ KeyOf(x, m) # Null
    IN  /\ \A i, j \in DOMAIN sorted : i < j => ~Comes(sorted[j], sorted[i])
        /\ \A x \in Range(kept) : Cardinality({i \in DOMAIN kept : kept[i] = x})
                                    = Cardinality({i \in DOMAIN sorted : sorted[i] = x})
        /\ entered > 0 /\ call.opt.limit # Null => Len(Limited(sorted, agg.opt)) <= Num(call.opt.limit)

\* ANY_VALUE(x HAVING MAX y) is a value of x in a row where y is largest among the rows whose
\* x is not NULL (MIN: smallest); APPROX_TOP_COUNT gives the two largest counts or fails.
\* APPROX_QUANTILES(x, 2 IGNORE NULLS) panics at the first NULL, and no other call does.
ExtremesChosen ==
  IsGroup /\ entered > 0 =>
    LET S == {i \in 1..entered : rows[i].val # Null}
        y(i) == rows[i].key[1]
        best == {i \in S : /\ y(i) # Null
                           /\ \A j \in S : y(j) = Null \/ IF call.opt.having = "MAX" THEN Num(y(i)) >= Num(y(j))
                                                          ELSE Num(y(i)) <= Num(y(j))}
        any == GroupAnswer("any_value", agg)
        CountOf(v) == Cardinality({i \in 1..entered : rows[i].val = v})
        top == GroupAnswer("approx_top_count", agg)
        vals == {rows[i].val : i \in 1..entered}
    IN  /\ ~call.opt.distinct => IF call.opt.having = "none" THEN any = Null <=> S = {}
                                 ELSE any \in {rows[i].val : i \in best} \/ (best = {} /\ any = Null)
        /\ ~call.opt.distinct /\ ~call.opt.ignoreNulls /\ Cardinality(vals) >= 2 =>
             \E v, w \in vals : /\ v # w
                                /\ top = Result("counts", <<CountOf(v), CountOf(w)>>)
                                /\ CountOf(v) >= CountOf(w)
                                /\ \A x \in vals \ {v, w} : CountOf(x) <= CountOf(w)
        /\ ~call.opt.distinct =>
             (GroupAnswer("approx_quantiles", agg) = Panic <=> call.opt.ignoreNulls /\ Null \in vals)

=============================================================================
