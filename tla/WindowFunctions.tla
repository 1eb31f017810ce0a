--------------------------- MODULE WindowFunctions ---------------------------
(***************************************************************************)
(* The functions of function_window.go and the values of a frame they work *)
(* on (function_window_option.go).  A value is Null, <<"int", n>> or       *)
(* <<"numeric", n>>: Go compares the first by value, and the second, a     *)
(* pointer made anew by every decoding, by identity.  Results are tagged   *)
(* tuples; <<"panic">> is a method call on a nil Value.  A statistic is    *)
(* its samples and the number their deviations are divided by.             *)
(***************************************************************************)
EXTENDS Cells

\* v == value on the interface type Value.
SameInGo(v, w) == v = w /\ (v = Null \/ v[1] # "numeric")

\* The loops of the functions pass over a NULL.
KeepNonNull(kept, v) == IF v = Null THEN kept ELSE Append(kept, v)
NonNull(vs) == FoldLeft(KeepNonNull, <<>>, vs)
AddValue(n, v) == n + Num(v)
SumOf(vs) == FoldLeft(AddValue, 0, vs)
AddTrue(n, v) == IF Num(v) # 0 THEN n + 1 ELSE n
CountTrue(vs) == FoldLeft(AddTrue, 0, vs)
KeepNew(kept, v) == IF v \in Range(kept) THEN kept ELSE Append(kept, v)
Distinct(vs) == FoldLeft(KeepNew, <<>>, vs)
Larger(m, v) == IF m = Null THEN v ELSE IF Num(v) > Num(m) THEN v ELSE m
Smaller(m, v) == IF m = Null THEN v ELSE IF Num(v) < Num(m) THEN v ELSE m
Largest(vs) == FoldLeft(Larger, Null, vs)
Smallest(vs) == FoldLeft(Smaller, Null, vs)
Sorted(vs) == SortSeq(vs, LAMBDA v, w : v = Null \/ (w # Null /\ Num(v) < Num(w)))

(***************************************************************************)
(* WindowFuncAggregatedStatus                                              *)
(***************************************************************************)
NewStatus(opt) == [values |-> <<>>, opt |-> opt, nStep |-> 0, nTotal |-> 0]

\* Mutant: IGNORE NULLS keeps the NULLs.
RelevantValues_KeepsNulls(s) == IF s.opt.distinct THEN Distinct(s.values) ELSE s.values

\* RelevantValues asks a value for its text when DISTINCT is set, Null as well.
RelevantPanics(s) == s.opt.distinct /\ ~s.opt.ignoreNulls /\ Null \in Range(s.values)
RelevantValues(s) ==
  LET kept == IF s.opt.ignoreNulls THEN NonNull(s.values) ELSE s.values
  IN  IF s.opt.distinct THEN Distinct(kept) ELSE kept

AppendValue(s, v) == [s EXCEPT !.values = Append(@, v)]

\* Mutant: the last equal value goes instead of the first.
RemoveEqual_Last(s, v) ==
  LET hits == {i \in DOMAIN s.values : SameInGo(s.values[i], v)}
  IN  IF hits = {} THEN s
      ELSE LET i == CHOOSE i \in hits : \A j \in hits : i >= j
           IN  [s EXCEPT !.values = SubSeq(@, 1, i - 1) \o SubSeq(@, i + 1, Len(@))]

\* Inverse removes the first value that Go finds equal.
RemoveEqual(s, v) ==
  LET hits == {i \in DOMAIN s.values : SameInGo(s.values[i], v)}
  IN  IF hits = {} THEN s
      ELSE LET i == CHOOSE i \in hits : \A j \in hits : i <= j
           IN  [s EXCEPT !.values = SubSeq(@, 1, i - 1) \o SubSeq(@, i + 1, Len(@))]

(***************************************************************************)
(* The three constructors of WindowAggregator in function_bind.go, and the *)
(* Step and Inverse methods that take their place.  A row of a "tuple"     *)
(* aggregator is a pair of values.                                         *)
(***************************************************************************)
Step(builder, s, v) ==
  CASE builder = "single" -> AppendValue(s, v)
    [] builder = "count" -> IF v = Null THEN s ELSE AppendValue(s, v)
    [] builder = "constant" -> AppendValue(s, IntV(1))
    [] builder = "tuple" -> IF Null \in {v[1], v[2]} THEN s
                            ELSE AppendValue(s, <<"numeric", v>>)
    [] builder = "total" -> [s EXCEPT !.nTotal = @ + 1]
    [] builder = "dense" -> [s EXCEPT !.nStep = 1]

WindowInverse(builder, s, v) ==
  CASE builder \in {"single", "count"} -> RemoveEqual(s, v)
    [] builder \in {"constant", "dense"} -> RemoveEqual(s, IntV(1))
    [] builder = "tuple" -> RemoveEqual(s, Null)
    [] builder = "total" -> [s EXCEPT !.nStep = @ + 1]

\* DENSE_RANK counts its calls of Done, in a field of the status here.
AfterDone(builder, s) ==
  IF builder = "dense" /\ s.nStep # 0 THEN [s EXCEPT !.nTotal = @ + 1] ELSE s

(***************************************************************************)
(* Done, for the functions over the values of the frame.  "arg" holds the  *)
(* constant arguments: an offset, a default, a percentile in quarters.     *)
(***************************************************************************)
ListDone(f, s) ==
  LET vs == RelevantValues(s)
      nn == NonNull(vs)
  IN  CASE f = "array_agg" -> Result("array", vs)
        [] f = "avg" -> IF nn = <<>> THEN Null ELSE Result("ratio", <<SumOf(nn), Len(nn)>>)
        [] f \in {"count", "count_star"} -> IntV(Len(vs))
        [] f = "countif" -> IntV(CountTrue(nn))

ValuedDone(f, s) ==
  LET nn == NonNull(RelevantValues(s))
  IN  CASE f = "max" -> Largest(nn)
        [] f = "min" -> Smallest(nn)
        [] f = "string_agg" -> IF nn = <<>> THEN Null ELSE Result("joined", nn)
        [] f = "sum" -> IF nn = <<>> THEN Null ELSE IntV(SumOf(nn))

NavigationDone(f, s, arg) ==
  LET vs == RelevantValues(s)
      all == s.values
  IN  CASE f = "any_value" -> IF all = <<>> THEN Null ELSE all[1]
        [] f = "first_value" -> IF vs = <<>> THEN Null ELSE vs[1]
        [] f = "last_value" -> IF vs = <<>> THEN Null ELSE vs[Len(vs)]
        [] f = "nth_value" -> IF arg.offset = 0 THEN Panic
                              ELSE IF Len(vs) < arg.offset THEN Null ELSE vs[arg.offset]
        [] f = "lead" -> IF Len(all) - 1 < arg.offset THEN arg.default ELSE all[arg.offset + 1]
        [] f = "lag" -> IF Len(all) - 1 < arg.offset THEN arg.default ELSE all[Len(all) - arg.offset]

\* The loop ends at the first deciding value, and meets a nil only before it.
LogicalDone(f, s) ==
  LET vs == RelevantValues(s)
      deciding == {i \in DOMAIN vs : vs[i] # Null /\ (Num(vs[i]) # 0) = (f = "logical_or")}
      nulls == {i \in DOMAIN vs : vs[i] = Null /\ \A j \in deciding : i < j}
  IN  IF nulls # {} THEN Panic ELSE Result("bool", (deciding # {}) = (f = "logical_or"))

\* The position 1 + percentile * (n - 1) and the results are counted in quarters.
PercentileCont(s, arg) ==
  LET nn == Sorted(NonNull(RelevantValues(s)))
      row == 4 + arg.quarters * (Len(nn) - 1)
      low == row \div 4
      high == (row + 3) \div 4
  IN  IF nn = <<>> THEN Null
      ELSE IF Num(nn[Len(nn)]) = 0 THEN Result("quarters", 0)
      ELSE IF low = high THEN Result("quarters", 4 * Num(nn[low]))
      ELSE Result("quarters", Num(nn[high]) * (row - 4 * low) + Num(nn[low]) * (4 * high - row))

PercentileDisc(s, arg) ==
  LET vs == Sorted(RelevantValues(s))
      pick == arg.quarters * Len(vs)
      idx == (pick + 3) \div 4 - 1
  IN  IF vs = <<>> THEN Null
      ELSE IF pick = 0 THEN vs[1]
      ELSE IF idx > 0 THEN vs[idx + 1]
      ELSE Null

\* What gonum answers for samples: it divides by their number, or by one less.
Population == {"stddev_pop", "var_pop"}
Spread(vs, divisor) == Result("spread", <<vs, divisor>>)

\* CORR and COVAR_* see pairs, of which the status takes no NULL.  COVAR_POP calls
\* stat.Covariance, that of a sample, like COVAR_SAMP.
PairDone(s) ==
  LET vs == RelevantValues(s) IN IF Len(vs) < 2 THEN Null ELSE Spread(vs, Len(vs) - 1)

\* STDDEV_* and VAR_* ask a nil among their values for its ToFloat64.
StatisticDone(f, s) ==
  LET vs == RelevantValues(s)
  IN  IF Len(vs) < 2 THEN Null
      ELSE IF Null \in Range(vs) THEN Panic
      ELSE Spread(vs, IF f \in Population THEN Len(vs) ELSE Len(vs) - 1)

RankDone(f, s) ==
  CASE f = "rank" -> IntV(Len(RelevantValues(s)))
    [] f = "row_number" -> IntV(Len(s.values))
    [] f = "dense_rank" -> IntV(AfterDone("dense", s).nTotal)
    [] f = "percent_rank" -> Result("ratio", IF s.nTotal > 1 THEN <<s.nStep, s.nTotal - 1>> ELSE <<0, 1>>)
    [] f = "cume_dist" -> Result("ratio", <<s.nStep, s.nTotal>>)

\* Mutant: the larger buckets come last.
Ntile_LargeLast(s, arg) ==
  LET size == s.nTotal \div arg.tiles
      small == (arg.tiles - (s.nTotal - arg.tiles * size)) * size
  IN  IntV(IF size = 0 THEN s.nStep + 1
           ELSE IF s.nStep < small THEN 1 + s.nStep \div size
           ELSE 1 + small \div size + (s.nStep - small) \div (size + 1))

Ntile(s, arg) ==
  LET size == s.nTotal \div arg.tiles
      large == s.nTotal - arg.tiles * size
      small == large * (size + 1)
  IN  IntV(IF size = 0 THEN s.nStep + 1
           ELSE IF s.nStep < small THEN 1 + s.nStep \div (size + 1)
           ELSE 1 + large + (s.nStep - small) \div size)

=============================================================================
