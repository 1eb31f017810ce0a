--------------------------------- MODULE Merge ---------------------------------
(***************************************************************************)
(* MERGE (internal/transformer_stmt_merge.go, MergeStmtAction of           *)
(* internal/stmt_action.go).  SQLite has no MERGE: the target and the      *)
(* source are joined into the table zetasqlite_merged_table, each WHEN     *)
(* clause becomes a statement that looks into it, and the table is dropped *)
(* again.  The statements run one after the other, without a transaction   *)
(* of their own; every connection uses the same name for its table.        *)
(*                                                                         *)
(* Tables have two columns, key and val, and the condition of the MERGE is *)
(* that the keys are equal, as transformer_stmt_merge.go:116 demands.      *)
(***************************************************************************)
EXTENDS Cells

CONSTANT MergeInputs   \* a sequence of [targets, jobs, faults]: the MERGEs of the connections, and how many may fail

ClauseType ==
  [match : {"matched", "target", "source"}, action : {"insert", "update", "delete"},
   set : {"source", "target", "constant", "none"}, param : BOOLEAN]

ASSUME MergeInputsType ==
  \A i \in DOMAIN MergeInputs : \A jobs \in MergeInputs[i].jobs :
    /\ DOMAIN jobs \subseteq Nat \ {0}
    /\ \A c \in DOMAIN jobs : jobs[c].clauses \in Seq(ClauseType)

VARIABLES
  merging,   \* the target at first and the MERGEs: [target, jobs, faults], a job [source, clauses]
  target,    \* the rows of the target
  merged,    \* zetasqlite_merged_table: its rows and whose it is
  mergers    \* by connection, the statement that is next, and whether one failed

mergeVars == <<merging, target, merged, mergers>>

NullRow == [key |-> Null, val |-> Null]
NoTable == [by |-> 0, rows |-> {}]
SqlEqual(v, w) == v # Null /\ v = w     \* NULL equals nothing

LeftJoin(left, right) ==
  UNION {LET found == {r \in Range(right) : SqlEqual(l.key, r.key)}
         IN  {l} \X (IF found = {} THEN {NullRow} ELSE found) : l \in Range(left)}

\* The columns of a merged row; a swap gives the columns of one table each other's names.
Named(s, t, swapSource, swapTarget) ==
  [sourceKey |-> IF swapSource THEN s.val ELSE s.key, sourceVal |-> IF swapSource THEN s.key ELSE s.val,
   targetKey |-> IF swapTarget THEN t.val ELSE t.key, targetVal |-> IF swapTarget THEN t.key ELSE t.val]

\* Mutant: only the rows of the source are joined.
MergedRows_Source(source, swapSource, swapTarget) == {Named(p[1], p[2], FALSE, FALSE) : p \in LeftJoin(source, target)}

\* Both sides of the UNION ALL list their columns in the order in which Go walks a map, and the first
\* one names them: on the other side the columns of a table may be in another order.
MergedRows(source, swapSource, swapTarget) ==
  {Named(p[1], p[2], FALSE, FALSE) : p \in LeftJoin(source, target)}
  \union {Named(p[2], p[1], swapSource, swapTarget) : p \in LeftJoin(target, source)}

\* Which merged rows a clause finds for a row of the target: only WHEN MATCHED looks at that row.
Finds(clause, t) ==
  {m \in merged.rows :
     IF clause.match = "matched" THEN SqlEqual(m.sourceKey, t.key) /\ SqlEqual(m.targetKey, t.key)
                                 ELSE m.targetKey # Null /\ m.sourceKey = Null}

NewVal(clause, m) ==
  CASE clause.set = "source" -> m.sourceVal
    [] clause.set = "target" -> m.targetVal
    [] clause.set = "constant" -> IntV(0)

\* UPDATE ... FROM takes any of the rows it finds.
UpdatesOf(clause, t) ==
  IF Finds(clause, t) = {} THEN {t.val} ELSE {NewVal(clause, m) : m \in Finds(clause, t)}

\* INSERT takes every row of the source.
Effects(clause, source) ==
  CASE clause.action = "insert" -> {target \o source}
    [] clause.action = "delete" -> {SelectSeq(target, LAMBDA t : Finds(clause, t) = {})}
    [] clause.action = "update" ->
         LET found == [i \in DOMAIN target |-> UpdatesOf(clause, target[i])]
             chosen == {f \in [DOMAIN target -> UNION Range(found)] : \A i \in DOMAIN f : f[i] \in found[i]}
         IN  {[i \in DOMAIN target |-> [target[i] EXCEPT !.val = f[i]]] : f \in chosen}

---------------------------------------------------------------------------
Job(c) == merging.jobs[c]
Clauses(c) == Job(c).clauses
Over(c) == mergers[c].failed \/ mergers[c].next > Len(Clauses(c)) + 1
NextOf(c) == mergers[c].next
Proceed(c) == mergers' = [mergers EXCEPT ![c].next = @ + 1]
FailMerge(c) == mergers' = [mergers EXCEPT ![c].failed = TRUE]

MergeInit ==
  /\ \E i \in DOMAIN MergeInputs :
       \E t \in MergeInputs[i].targets, jobs \in MergeInputs[i].jobs :
         merging = [target |-> t, jobs |-> jobs, faults |-> MergeInputs[i].faults]
  /\ target = merging.target
  /\ merged = NoTable
  /\ mergers = [c \in DOMAIN merging.jobs |-> [next |-> 0, failed |-> FALSE]]

\* Mutant: the table is replaced when it exists.
CanCreateMerged_Replaces == TRUE

\* CREATE TABLE without IF NOT EXISTS
CanCreateMerged == merged = NoTable

CreateMerged(c) ==
  /\ ~Over(c) /\ NextOf(c) = 0
  /\ IF CanCreateMerged
     THEN /\ \E swapSource, swapTarget \in BOOLEAN :
               merged' = [by |-> c, rows |-> MergedRows(Job(c).source, swapSource, swapTarget)]
          /\ Proceed(c)
     ELSE FailMerge(c) /\ UNCHANGED merged
  /\ UNCHANGED <<merging, target>>

\* exec gives its statements no arguments, so one with a parameter fails.
RunClause(c) ==
  /\ ~Over(c) /\ NextOf(c) \in DOMAIN Clauses(c)
  /\ LET clause == Clauses(c)[NextOf(c)]
     IN  IF clause.param \/ (merged = NoTable /\ clause.action # "insert")
         THEN FailMerge(c) /\ UNCHANGED target
         ELSE target' \in Effects(clause, Job(c).source) /\ Proceed(c)
  /\ UNCHANGED <<merging, merged>>

DropMerged(c) ==
  /\ ~Over(c) /\ NextOf(c) = Len(Clauses(c)) + 1
  /\ IF merged = NoTable THEN FailMerge(c) ELSE Proceed(c)
  /\ merged' = NoTable
  /\ UNCHANGED <<merging, target>>

\* A statement fails for no reason of its own, and those after it are not executed.
BreakMerge(c) ==
  /\ ~Over(c)
  /\ Cardinality({d \in DOMAIN mergers : mergers[d].failed}) < merging.faults
  /\ FailMerge(c)
  /\ UNCHANGED <<merging, target, merged>>

MergeNext ==
  \E c \in DOMAIN mergers : CreateMerged(c) \/ RunClause(c) \/ DropMerged(c) \/ BreakMerge(c)

MergeSpec == MergeInit /\ [][MergeNext]_mergeVars

(***************************************************************************)
(* Whose table it is                                                       *)
(***************************************************************************)
Merges == DOMAIN merging.jobs
Inside(c) == mergers[c].next > 0 /\ ~Over(c)

\* The clauses of a MERGE look into its own table and never into that of another connection, although
\* all use one name; the table is gone when no MERGE is under way, unless one failed after it had
\* created it: then it stays, and no MERGE can create it again (stmt_action.go:542-549).
MergedTableOwned ==
  /\ \A c \in Merges : Inside(c) => merged.by = c
  /\ merged # NoTable => Inside(merged.by) \/ (mergers[merged.by].failed /\ mergers[merged.by].next > 0)

=============================================================================
