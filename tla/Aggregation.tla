----------------------------- MODULE Aggregation -----------------------------
(***************************************************************************)
(* One call of an aggregate or window function: SQLite hands its rows to   *)
(* the Go code one by one and asks for results (the Aggregator and         *)
(* WindowAggregator of function_bind.go).                                  *)
(*                                                                         *)
(* For a group SQLite steps through the rows in the order it finds them.   *)
(* For a window it keeps one status for a partition, sorted by the key of  *)
(* ORDER BY: it steps the rows that enter the frame, takes back those that *)
(* leave it, and asks for a value per row, or per group of peers unless    *)
(* the unit is ROWS.  A frame with EXCLUDE is computed afresh for every    *)
(* row.  This protocol is SQLite's, and external to the repository.        *)
(***************************************************************************)
EXTENDS GroupFunctions

CONSTANTS
  Calls,   \* the calls: [builder, frame, opt], the builder "group" for an aggregate
  Inputs   \* a set of sequences of rows [key, val], for each builder

IsSeq(s) == s \in Seq({s[i] : i \in DOMAIN s})

ASSUME InputsType ==
  /\ \A c \in Calls : c.builder \in DOMAIN Inputs
  /\ \A b \in DOMAIN Inputs : \A r \in Inputs[b] : IsSeq(r)

\* SQLite sorts a partition by its key, of which a frame of the unit RANGE has one.
IsFrame(f) == f.unit \in {"ROWS", "GROUPS", "RANGE"} /\ f.start \in Int /\ f.end \in Int
KeySorted(r) ==
  \A i, j \in DOMAIN r : Num(r[i].key[1]) \in Int /\ (i <= j => Num(r[i].key[1]) <= Num(r[j].key[1]))

ASSUME PartitionsType ==
  \A c \in Calls :
    c.builder # "group" => /\ IsFrame(c.frame)
                           /\ c.frame.unit = "RANGE" => \A r \in Inputs[c.builder] : KeySorted(r)

\* The values of a group are INT64 or NULL.
IsInt(v) == v = Null \/ (Num(v) \in Int /\ v = IntV(Num(v)))
IsNode(opt) ==
  /\ {opt.distinct, opt.ignoreNulls, opt.asc} \subseteq BOOLEAN
  /\ opt.having \in {"none", "MAX", "MIN"}

ASSUME GroupsType ==
  \A c \in Calls :
    c.builder = "group" => IsNode(c.opt) /\ \A r \in Inputs["group"] : \A j \in DOMAIN r : IsInt(r[j].val) /\ IsSeq(r[j].key)

Far == 100   \* the offset of UNBOUNDED

VARIABLES
  call, rows,
  agg,       \* the state of the Go code
  entered,   \* the rows stepped so far
  left,      \* the rows taken back
  at         \* the row whose value is due

vars == <<call, rows, agg, entered, left, at>>

Frame(unit, start, end) == [unit |-> unit, start |-> start, end |-> end, exclude |-> FALSE]

\* windowFuncFixedRanges: SQLite computes these with the frames of its own functions.
WholePartition == Frame("ROWS", -Far, Far)
FixedFrame ==
  [ntile |-> Frame("ROWS", 0, Far),
   cume_dist |-> Frame("GROUPS", 1, Far),
   dense_rank |-> Frame("RANGE", -Far, 0),
   rank |-> [Frame("GROUPS", -Far, 0) EXCEPT !.exclude = TRUE],
   percent_rank |-> Frame("GROUPS", 0, Far),
   row_number |-> Frame("ROWS", -Far, 0),
   lag |-> Frame("ROWS", -Far, 0),
   lead |-> Frame("ROWS", 0, Far)]

\* The constructor of each window function.
RankBuilder ==
  [rank |-> "constant", row_number |-> "constant", dense_rank |-> "dense",
   percent_rank |-> "total", cume_dist |-> "total", ntile |-> "total"]

Builder(f) ==
  CASE f \in DOMAIN RankBuilder -> RankBuilder[f]
    [] f = "count" -> "count"
    [] f = "count_star" -> "constant"
    [] f \in {"corr", "covar_pop", "covar_samp"} -> "tuple"
    [] OTHER -> "single"

(***************************************************************************)
(* SQLite                                                                  *)
(***************************************************************************)
GroupOf(j) == Cardinality({rows[i].key : i \in 1..j})

\* How far row j is from row i, in the unit of the frame.
Distance(i, j) ==
  CASE call.frame.unit = "ROWS" -> j - i
    [] call.frame.unit = "GROUPS" -> GroupOf(j) - GroupOf(i)
    [] call.frame.unit = "RANGE" -> Num(rows[j].key[1]) - Num(rows[i].key[1])

Before(i) == {j \in DOMAIN rows : Distance(i, j) < call.frame.start}
UpToEnd(i) == {j \in DOMAIN rows : Distance(i, j) <= call.frame.end}
Ties(i) == {j \in DOMAIN rows \ {i} : rows[j].key = rows[i].key}
FrameRows(i) == (UpToEnd(i) \ Before(i)) \ (IF call.frame.exclude THEN Ties(i) ELSE {})

IsGroup == call.builder = "group"
New == IF IsGroup THEN NewGroup ELSE NewStatus(call.opt)
StepRow(s, j) == IF IsGroup THEN AggregatorStep(s, Arguments(call.opt, rows[j])) ELSE Step(call.builder, s, rows[j].val)

Due == at <= Len(rows)

\* WindowAggregator.Step, Aggregator.Step
Enter ==
  /\ Due
  /\ ~call.frame.exclude
  /\ entered + 1 \in UpToEnd(at)
  /\ agg' = StepRow(agg, entered + 1)
  /\ entered' = entered + 1
  /\ UNCHANGED <<call, rows, left, at>>

\* WindowAggregator.WindowInverse
Leave ==
  /\ Due
  /\ ~call.frame.exclude
  /\ left < entered
  /\ left + 1 \in Before(at)
  /\ agg' = WindowInverse(call.builder, agg, rows[left + 1].val)
  /\ left' = left + 1
  /\ UNCHANGED <<call, rows, entered, at>>

Ready ==
  /\ Due
  /\ \A j \in UpToEnd(at) : j <= entered
  /\ \A j \in Before(at) : j <= left \/ j > entered

Peers == IF call.frame.unit = "ROWS" THEN {at} ELSE {j \in DOMAIN rows : rows[j].key = rows[at].key}

\* WindowValue: the value of this row, or of all its peers.
Return ==
  /\ ~call.frame.exclude
  /\ Ready
  /\ agg' = AfterDone(call.builder, agg)
  /\ at' = at + Cardinality(Peers)
  /\ UNCHANGED <<call, rows, entered, left>>

\* A frame with EXCLUDE: a status of its own for every row.
Rescan ==
  /\ Due
  /\ call.frame.exclude
  /\ agg' = FoldLeft(LAMBDA s, j : StepRow(s, j), New, SetToSortSeq(FrameRows(at), <))
  /\ at' = at + 1
  /\ UNCHANGED <<call, rows, entered, left>>

Init ==
  /\ call \in Calls
  /\ rows \in Inputs[call.builder]
  /\ agg = New
  /\ entered = 0
  /\ left = 0
  /\ at = 1

\* The rows of a group are one frame; Final ends the call.
StepGroup ==
  /\ IsGroup
  /\ entered < Len(rows)
  /\ ~ParsePanics(Arguments(call.opt, rows[entered + 1]))
  /\ agg' = AggregatorStep(agg, Arguments(call.opt, rows[entered + 1]))
  /\ entered' = entered + 1
  /\ UNCHANGED <<call, rows, left, at>>

Next == StepGroup \/ (~IsGroup /\ (Enter \/ Leave \/ Return \/ Rescan))

Spec == Init /\ [][Next]_vars

(***************************************************************************)
(* The status holds the frame                                              *)
(***************************************************************************)
\* The rows that have entered the frame and not left it.
InFrame == SubSeq(rows, left + 1, entered)

\* The values of a window that Go compares by value are those of the rows that have entered
\* the frame and not left it, in their order, however entering and leaving interleave
\* (WindowFuncAggregatedStatus.Step and Inverse).
FrameKept ==
  ~call.frame.exclude =>
    CASE call.builder = "single" -> agg.values = Vals(InFrame)
      [] call.builder = "count" -> agg.values = NonNull(Vals(InFrame))
      [] call.builder = "constant" -> agg.values = [i \in DOMAIN InFrame |-> IntV(1)]
      [] OTHER -> TRUE

=============================================================================
