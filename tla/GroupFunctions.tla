---------------------------- MODULE GroupFunctions ----------------------------
(***************************************************************************)
(* The aggregate functions of function_aggregate.go: what each keeps while *)
(* the rows of a group arrive, and its result.  Values are those of        *)
(* WindowFunctions.  The 64 bits of an integer are the set of the          *)
(* positions that are 1, out of Bits, for the three BIT_ functions.        *)
(*                                                                         *)
(* A row of the input is [val, key]: "key" is the list of the values of    *)
(* ORDER BY, or the value of HAVING MAX / MIN.  A node says which options  *)
(* a call has: [distinct, ignoreNulls, limit, asc, having].                *)
(***************************************************************************)
EXTENDS WindowFunctions, FiniteSets

CONSTANT Bits   \* the positions of the bits of an integer, 0 is the lowest

AllBits == Bits     \* -1
LowBit == {0}       \* 1
BitsOf(v) == {b \in Bits : (Num(v) \div 2^b) % 2 = 1}

GroupFuncs ==
  {"array", "any_value", "array_agg", "array_concat_agg", "avg", "bit_and", "bit_or", "bit_xor",
   "count", "count_star", "countif", "logical_and", "logical_or", "max", "min", "string_agg",
   "sum", "population", "sample", "approx_count_distinct", "approx_quantiles", "approx_top_count"}

\* The values the constructors in function_bind.go start with.
Start(f) ==
  CASE f \in {"bit_and", "bit_or"} -> AllBits
    [] f = "bit_xor" -> LowBit
    [] f = "count_star" -> 0
    [] f = "logical_and" -> TRUE
    [] f = "logical_or" -> FALSE
    [] f = "approx_count_distinct" -> {}
    [] f \in {"any_value", "array", "array_agg", "array_concat_agg", "string_agg", "population", "sample",
              "approx_quantiles", "approx_top_count"} -> <<>>
    [] OTHER -> Null

CountStep(f, a, v) ==
  IF f = "count_star" THEN a + 1
  ELSE IF v = Null \/ (f = "countif" /\ Num(v) = 0) THEN a
  ELSE IF a = Null THEN IntV(1) ELSE IntV(Num(a) + 1)

LogicalStep(f, a, v) ==
  IF v = Null THEN a ELSE IF f = "logical_and" THEN a /\ Num(v) # 0 ELSE a \/ Num(v) # 0

ExtremeStep(f, a, v) ==
  IF v # Null /\ (a = Null \/ IF f = "max" THEN Num(v) > Num(a) ELSE Num(v) < Num(a)) THEN v ELSE a

SumStep(a, v) == IF v = Null THEN a ELSE IF a = Null THEN v ELSE IntV(Num(a) + Num(v))

AverageStep(a, v) ==
  IF v = Null THEN a ELSE IF a = Null THEN <<Num(v), 1>> ELSE <<a[1] + Num(v), a[2] + 1>>

DistinctStep(a, v) == IF v = Null THEN a ELSE a \union {v}

\* BIT_OR takes the value -1 for "no value yet", and BIT_XOR takes 1.
BitStep(f, a, v) ==
  IF v = Null THEN a ELSE
  CASE f = "bit_and" -> a \intersect BitsOf(v)
    [] f = "bit_or" -> IF a = AllBits THEN BitsOf(v) ELSE a \union BitsOf(v)
    [] f = "bit_xor" -> IF a = LowBit THEN BitsOf(v)
                        ELSE (a \union BitsOf(v)) \ (a \intersect BitsOf(v))

\* The functions that keep their rows.  (ARRAY_AGG fails at a NULL; here it keeps the row
\* and GroupDone fails.)
ListStep(f, a, row) ==
  CASE f \in {"array", "array_agg", "approx_quantiles"} -> Append(a, row)
    [] f \in {"array_concat_agg", "string_agg", "any_value"} ->
         IF row.val = Null THEN a ELSE Append(a, row)

\* "population": STDDEV_POP and VAR_POP; "sample": CORR, COVAR_* and the other STDDEV, VAR.
SampleStep(a, row) == IF row.val = Null THEN a ELSE Append(a, row)

\* A map of Go from values to their counts, here a list of pairs.
TopStep(a, v) ==
  LET known == {i \in DOMAIN a : SameInGo(a[i][1], v)}
  IN  IF known = {} THEN Append(a, <<v, 1>>)
      ELSE [a EXCEPT ![CHOOSE i \in known : TRUE][2] = @ + 1]

Lists == {"array", "any_value", "array_agg", "array_concat_agg", "string_agg", "population", "sample",
          "approx_quantiles"}

GroupStep(f, a, row) ==
  CASE f \in {"population", "sample"} -> SampleStep(a, row)
    [] f \in Lists \ {"population", "sample"} -> ListStep(f, a, row)
    [] f \in {"count_star", "count", "countif"} -> CountStep(f, a, row.val)
    [] f \in {"logical_and", "logical_or"} -> LogicalStep(f, a, row.val)
    [] f \in {"max", "min"} -> ExtremeStep(f, a, row.val)
    [] f \in {"bit_and", "bit_or", "bit_xor"} -> BitStep(f, a, row.val)
    [] f = "sum" -> SumStep(a, row.val)
    [] f = "avg" -> AverageStep(a, row.val)
    [] f = "approx_count_distinct" -> DistinctStep(a, row.val)
    [] f = "approx_top_count" -> TopStep(a, row.val)

(***************************************************************************)
(* The options of a call travel in its arguments: extractAggregateFunction *)
(* CallData appends a call of zetasqlite_order_by, _distinct, ... for each *)
(* and parseAggregateOptions finds their results among the values.         *)
(***************************************************************************)
Option(type, v) == <<"option", type, v>>
When(cond, arg) == IF cond THEN <<arg>> ELSE <<>>

Arguments(node, row) ==
  <<row.val>>
  \o (IF node.having # "none" THEN <<>> ELSE
      [k \in DOMAIN row.key |-> Option("order_by", [value |-> row.key[k], isAsc |-> node.asc])])
  \o When(node.distinct, Option("distinct", Null))
  \o When(node.limit # Null, Option("limit", node.limit))
  \o When(node.having # "none", Option(node.having, row.key[1]))
  \o When(node.ignoreNulls, Option("ignore_nulls", Null))

NoOptions == [distinct |-> FALSE, ignoreNulls |-> FALSE, limit |-> Null, orderBy |-> <<>>, having |-> <<>>]
Parsed(values, opt) == [values |-> values, opt |-> opt]

ParseOption(p, arg) ==
  IF arg = Null \/ arg[1] # "option" THEN Parsed(Append(p.values, arg), p.opt)
  ELSE CASE arg[2] = "distinct" -> [p EXCEPT !.opt.distinct = TRUE]
         [] arg[2] = "ignore_nulls" -> [p EXCEPT !.opt.ignoreNulls = TRUE]
         [] arg[2] = "limit" -> [p EXCEPT !.opt.limit = arg[3]]
         [] arg[2] = "order_by" -> [p EXCEPT !.opt.orderBy = Append(@, arg[3])]
         [] OTHER -> [p EXCEPT !.opt.having = <<arg[2], arg[3]>>]
ParseAggregateOptions(args) == FoldLeft(ParseOption, Parsed(<<>>, NoOptions), args)

\* The HAVING value of a row is asked for as a Value, which the nil of a NULL is not.
ParsePanics(args) == \E i \in 2..Len(args) : args[i][2] \in {"MAX", "MIN"} /\ args[i][3] = Null

(***************************************************************************)
(* Aggregator.Step: the options come before the function.  IGNORE NULLS    *)
(* takes the NULLs out of all its arguments: none of a function of one     *)
(* argument is left, and a function of two is stepped with its number      *)
(* alone, in the place of the value, and panics at the second.             *)
(***************************************************************************)
TwoArgFuncs == {"approx_quantiles", "approx_top_count"}
HowMany == IntV(2)

NewGroup == [acc |-> [f \in GroupFuncs |-> Start(f)], seen |-> {}, opt |-> NoOptions, panicked |-> FALSE]
Stepped(g, p) ==
  LET row == [val |-> p.values[1], orderBy |-> p.opt.orderBy, having |-> p.opt.having]
  IN  [acc |-> [f \in GroupFuncs |-> GroupStep(f, g.acc[f], row)],
       seen |-> IF p.opt.distinct THEN g.seen \union {row.val} ELSE g.seen,
       opt |-> p.opt,
       panicked |-> g.panicked]

\* DISTINCT passes over the number, like over any value it has seen.
NumberAlone(g, p) == [g EXCEPT !.panicked = @ \/ ~(p.opt.distinct /\ HowMany \in g.seen)]

\* Mutant: DISTINCT remembers a value and counts it all the same.
AggregatorStep_CountsAgain(g, args) ==
  LET p == ParseAggregateOptions(args)
  IN  IF p.opt.ignoreNulls /\ p.values[1] = Null THEN NumberAlone(g, p) ELSE Stepped(g, p)

AggregatorStep(g, args) ==
  LET p == ParseAggregateOptions(args)
      v == p.values[1]
  IN  IF p.opt.ignoreNulls /\ v = Null THEN NumberAlone(g, p)
      ELSE IF p.opt.distinct /\ v \in g.seen THEN g
      ELSE Stepped(g, p)

(***************************************************************************)
(* sortAggregatedValues: sort.Slice sorts up to twelve elements by         *)
(* insertion.  The comparison answers at the first key that is NULL,       *)
(* whatever the other row has there.                                       *)
(***************************************************************************)
\* Mutant: a NULL key is not looked for in the other row.
Precedes_OneNull(x, y) ==
  LET open == {k \in DOMAIN x : x[k].value # y[k].value}
      k == CHOOSE k \in open : \A j \in open : k <= j
      a == x[k].value
      b == y[k].value
  IN  /\ open # {}
      /\ IF a = Null \/ b = Null THEN x[k].isAsc
         ELSE IF x[k].isAsc THEN Num(a) < Num(b) ELSE Num(a) > Num(b)

Precedes(x, y) ==
  LET open == {k \in DOMAIN x : Null \in {x[k].value, y[k].value} \/ x[k].value # y[k].value}
      k == CHOOSE k \in open : \A j \in open : k <= j
      a == x[k].value
      b == y[k].value
  IN  /\ open # {}
      /\ IF a = Null THEN x[k].isAsc
         ELSE IF b = Null THEN ~x[k].isAsc
         ELSE IF x[k].isAsc THEN Num(a) < Num(b) ELSE Num(a) > Num(b)

InsertRow(sorted, x) ==
  LET stays == {i \in DOMAIN sorted : ~Precedes(x.orderBy, sorted[i].orderBy)}
      at == CHOOSE i \in stays \union {0} : \A j \in stays : i >= j
  IN  SubSeq(sorted, 1, at) \o <<x>> \o SubSeq(sorted, at + 1, Len(sorted))

SortAggregatedValues(rows) == FoldLeft(InsertRow, <<>>, rows)

Limited(rows, opt) ==
  IF opt.limit = Null \/ Len(rows) <= Num(opt.limit) THEN rows ELSE SubSeq(rows, 1, Num(opt.limit))

Vals(rows) == [i \in DOMAIN rows |-> rows[i].val]

\* Mutant: HAVING MIN is taken for HAVING MAX.
AnyValueDone_AlwaysMax(rows, opt) ==
  LET best == {i \in DOMAIN rows : \A j \in DOMAIN rows : Num(rows[i].having[2]) >= Num(rows[j].having[2])}
      candidates == IF opt.having = <<>> THEN DOMAIN rows ELSE best
  IN  IF candidates = {} THEN Null ELSE rows[CHOOSE i \in candidates : \A j \in candidates : i <= j].val

\* ANY_VALUE: the first value with the largest (smallest) HAVING value, if there is one.
AnyValueDone(rows, opt) ==
  LET hv(i) == Num(rows[i].having[2])
      best == {i \in DOMAIN rows : \A j \in DOMAIN rows : IF opt.having[1] = "MAX" THEN hv(i) >= hv(j)
                                                          ELSE hv(i) <= hv(j)}
      candidates == IF opt.having = <<>> THEN DOMAIN rows ELSE best
  IN  IF candidates = {} THEN Null ELSE rows[CHOOSE i \in candidates : \A j \in candidates : i <= j].val

\* Which two quantiles, in the order in which the rows came.
QuantilesDone(rows) ==
  LET n == Len(rows)
  IN  IF n = 0 THEN Null ELSE Result("array", <<rows[1].val, rows[(n + 1) \div 2].val, rows[n].val>>)

TopCountDone(pairs, num) ==
  IF pairs = <<>> THEN Null
  ELSE IF Len(pairs) < num THEN Result("error", 0)
  ELSE Result("counts", SubSeq(SortSeq([i \in DOMAIN pairs |-> pairs[i][2]], LAMBDA a, b : a > b), 1, num))

ListsDone(f, rows, opt) ==
  LET list == Vals(Limited(SortAggregatedValues(rows), opt))
  IN  CASE f = "array" -> Result("array", Vals(rows))
        [] f = "array_agg" -> IF Null \in Range(Vals(rows)) THEN Result("error", 0) ELSE Result("array", list)
        [] f = "array_concat_agg" -> Result("array", list)
        [] f = "string_agg" -> IF list = <<>> THEN Null ELSE Result("joined", list)
        [] f = "any_value" -> AnyValueDone(rows, opt)
        [] f = "population" -> IF rows = <<>> THEN Null ELSE Spread(Vals(rows), Len(rows))
        [] f = "sample" -> IF rows = <<>> THEN Null ELSE Spread(Vals(rows), Len(rows) - 1)
        [] f = "approx_quantiles" -> QuantilesDone(rows)

GroupDone(f, a, opt) ==
  CASE f \in Lists -> ListsDone(f, a, opt)
    [] f = "avg" -> IF a = Null THEN Null ELSE Result("ratio", a)
    [] f \in {"bit_and", "bit_or", "bit_xor"} -> Result("bits", a)
    [] f \in {"count", "countif"} -> IF a = Null THEN IntV(0) ELSE a
    [] f = "count_star" -> IntV(a)
    [] f \in {"logical_and", "logical_or"} -> Result("bool", a)
    [] f = "approx_count_distinct" -> IntV(Cardinality(a))
    [] f = "approx_top_count" -> TopCountDone(a, Num(HowMany))
    [] OTHER -> a

\* What a call answers, if none of its steps panicked.
GroupAnswer(f, g) == IF f \in TwoArgFuncs /\ g.panicked THEN Panic ELSE GroupDone(f, g.acc[f], g.opt)

=============================================================================
