----------------------------- MODULE MCStatements -----------------------------
(***************************************************************************)
(* What MERGE and the arguments of a call mean, and the instance that TLC  *)
(* checks: a behaviour is one aggregate or window function over its rows,  *)
(* one expression, one or two MERGEs on one target, or one call with its   *)
(* arguments.                                                              *)
(***************************************************************************)
EXTENDS MCFunctions, Merge, Arguments

(***************************************************************************)
(* MERGE                                                                   *)
(***************************************************************************)
AClause(match, action, set) == [match |-> match, action |-> action, set |-> set, param |-> FALSE]
WhenClauses ==
  {AClause("matched", "update", "source"), AClause("matched", "update", "target"), AClause("matched", "delete", "none"),
   AClause("target", "insert", "none"), AClause("source", "delete", "none"), AClause("source", "update", "constant")}
ClauseLists == {s \in SeqsUpTo(WhenClauses, 2) : s # <<>> /\ IsInjective(s)}

ARow(k, v) == [key |-> k, val |-> v]
TargetRows == {ARow(IntV(1), IntV(5)), ARow(IntV(2), Null), ARow(IntV(2), IntV(1)), ARow(Null, IntV(6))}
SourceRows == {ARow(IntV(1), IntV(7)), ARow(IntV(1), IntV(2)), ARow(IntV(2), IntV(1)), ARow(IntV(2), Null), ARow(Null, IntV(8))}
\* The order of the rows does not matter: one order of each pair.
PairsOnce(S) == LET place == SetToSeq(S) IN UNION {{<<place[i], place[j]>> : j \in i..Len(place)} : i \in DOMAIN place}
SmallTables(S) == SeqsUpTo(S, 1) \union PairsOnce(S)

Upsert == <<AClause("matched", "update", "source"), AClause("target", "insert", "none")>>
Mirror == <<AClause("source", "delete", "none")>>
WithParam == <<AClause("matched", "delete", "none"), [AClause("matched", "update", "source") EXCEPT !.param = TRUE]>>
AJob(source, clauses) == [source |-> source, clauses |-> clauses]
TwoJobs == {AJob(s, cl) : s \in {<<ARow(IntV(1), IntV(7))>>, <<ARow(IntV(2), IntV(8))>>, <<>>}, cl \in {Upsert, Mirror, WithParam}}
MCMergeInputs ==
  <<[targets |-> SmallTables(TargetRows), jobs |-> {<<AJob(s, cl)>> : s \in SmallTables(SourceRows), cl \in ClauseLists}, faults |-> 0],
    [targets |-> {<<ARow(IntV(1), IntV(5))>>}, jobs |-> TwoJobs \X TwoJobs, faults |-> 1]>>

Matching(t, source) == {i \in DOMAIN source : SqlEqual(source[i].key, t.key)}
FirstClause(clauses, match) == SelectInSeq(clauses, LAMBDA cl : cl.match = match)

\* The first clause for the match of a row decides, and is about that row.
RowMeaning(t, job) ==
  LET found == Matching(t, job.source)
      n == FirstClause(job.clauses, IF found = {} THEN "source" ELSE "matched")
      cl == job.clauses[n]
      val == CASE cl.set = "source" -> job.source[CHOOSE i \in found : TRUE].val
               [] cl.set = "target" -> t.val
               [] cl.set = "constant" -> IntV(0)
  IN  IF n = 0 THEN <<t>> ELSE IF cl.action = "delete" THEN <<>> ELSE <<[t EXCEPT !.val = val]>>
Unknown(s, table) == \A i \in DOMAIN table : ~SqlEqual(table[i].key, s.key)
MergeMeaning(table, job) ==
  FlattenSeq([i \in DOMAIN table |-> RowMeaning(table[i], job)])
  \o (IF FirstClause(job.clauses, "target") = 0 THEN <<>> ELSE SelectSeq(job.source, LAMBDA s : Unknown(s, table)))

SameRows(s, t) == \A r \in Range(s) \union Range(t) : Cardinality({i \in DOMAIN s : s[i] = r}) = Cardinality({i \in DOMAIN t : t[i] = r})

\* Where the code does something else: INSERT takes all rows of the source, also those that match;
\* a clause for rows not matched by the source touches all rows as soon as there is one such row, also
\* those inserted before, and sees a NULL where names were swapped; every clause of one kind is
\* executed, not the first; of several matches any is taken, not refused; and the columns of the target
\* that SET reads are those of any row with the key.
MergeDeviates(table, job) ==
  LET cl == job.clauses
      has(match) == FirstClause(cl, match) # 0
      unmatched == {i \in DOMAIN table : Matching(table[i], job.source) = {}}
  IN  \/ Len(cl) = 2 /\ cl[1].match = cl[2].match
      \/ has("target") /\ \E i \in DOMAIN job.source : ~Unknown(job.source[i], table)
      \/ /\ has("source")
         /\ \/ unmatched \notin {{}, DOMAIN table}
            \/ has("target") /\ FirstClause(cl, "target") < FirstClause(cl, "source") /\ unmatched # {} /\ job.source # <<>>
            \/ \E i \in DOMAIN table : Null \in {table[i].key, table[i].val}
            \/ unmatched = {} /\ \E i \in DOMAIN job.source : job.source[i].val = Null
      \/ has("matched") /\ \E i \in DOMAIN table : Cardinality(Matching(table[i], job.source)) > 1
      \/ /\ \E n \in DOMAIN cl : cl[n].set = "target"
         /\ \E i, j \in DOMAIN table \ unmatched : table[i].key = table[j].key /\ table[i] # table[j]
      \/ has("matched") /\ \E i, j \in DOMAIN table : \E k \in Matching(table[i], job.source) :
                             SqlEqual(table[i].val, table[j].key) /\ job.source[k].val = table[i].val

Untouched(c) == mergers[c].failed /\ mergers[c].next = 0
Succeeded == {c \in Merges : ~mergers[c].failed}
\* The tables that the MERGEs find, one after the other, and the last one leaves.
Serially(order) ==
  LET first == merging.target
      second == MergeMeaning(first, Job(order[1]))
  IN  CASE Len(order) = 0 -> <<first>>
        [] Len(order) = 1 -> <<first, second>>
        [] Len(order) = 2 -> <<first, second, MergeMeaning(second, Job(order[2]))>>

\* A MERGE changes the target as its clauses say, whatever the order in which Go walks its maps and
\* whichever row UPDATE takes; of two MERGEs that both succeed one has seen what the other left, and
\* one that cannot create its table changes nothing (transformer_stmt_merge.go:41-328,
\* stmt_action.go:542).  MergeDeviates names where that is not so.
MergesMean ==
  merging.jobs # <<>> /\ (\A c \in Merges : Over(c) /\ (c \in Succeeded \/ Untouched(c))) =>
    LET orders == SetToSeqs(Succeeded)
    IN  \/ \E order \in orders : \E k \in DOMAIN order : MergeDeviates(Serially(order)[k], Job(order[k]))
        \/ \E order \in orders : SameRows(target, Last(Serially(order)))

(***************************************************************************)
(* Arguments                                                               *)
(***************************************************************************)
AParam(name, type) == [name |-> name, type |-> type]
Question(type) == AParam("", type)
AStmt(kind, params, walk) == [kind |-> kind, params |-> params, walk |-> walk]
Walks(n) == {w \in [1..n -> 1..n] : IsInjective(w)}

SomeParams == {Question("int"), Question("string"), AParam("a", "int"), AParam("b", "string")}
AnyStmts == UNION {{AStmt(k, ps, w) : k \in {"create table", "dml", "merge"}, w \in Walks(Len(ps))} : ps \in SeqsUpTo(SomeParams, 2)}
PlainStmts ==
  {AStmt(k, ps, [i \in DOMAIN ps |-> i]) :
     k \in {"create table", "query", "merge"},
     ps \in {<<>>, <<Question("int")>>, <<Question("int"), Question("string")>>, <<AParam("a", "int")>>, <<AParam("b", "string"), AParam("a", "int")>>}}
Mixed == AStmt("query", <<Question("int"), AParam("a", "int")>>, <<1, 2>>)
Numbered(s) == [i \in DOMAIN s |-> [name |-> s[i][1], type |-> s[i][2], id |-> i]]
Givens(names, n) == {Numbered(s) : s \in SeqsUpTo(names \X {"int", "string"}, n)}
MCArgumentInputs ==
  <<[modes |-> {"exec", "prepare"}, givens |-> Givens({"", "a", "b"}, 2), scripts |-> {<<s>> : s \in AnyStmts}],
    [modes |-> {"exec", "prepare"}, givens |-> Givens({""}, 3) \union Givens({"a", "b"}, 2), scripts |-> (PlainStmts \union {Mixed}) \X PlainStmts]>>

(***************************************************************************)
(* The instance                                                            *)
(***************************************************************************)
NoMerge == merging = [target |-> <<>>, jobs |-> <<>>, faults |-> 0]
           /\ target = <<>> /\ merged = NoTable /\ mergers = <<>>
NoCall == calling = [mode |-> "none", given |-> <<>>, stmts |-> <<>>] /\ rest = <<>> /\ bound = <<>> /\ refused = FALSE
NoFunction == NoRows /\ expr = NoExpr /\ answers = <<>>

StatementsInit ==
  \/ MCInit /\ NoMerge /\ NoCall
  \/ NoFunction /\ MergeInit /\ NoCall
  \/ NoFunction /\ NoMerge /\ ArgumentsInit
StatementsNext ==
  \/ MCNext /\ UNCHANGED mergeVars /\ UNCHANGED argumentVars
  \/ MergeNext /\ UNCHANGED allVars /\ UNCHANGED argumentVars
  \/ ArgumentsNext /\ UNCHANGED allVars /\ UNCHANGED mergeVars
StatementsSpec == StatementsInit /\ [][StatementsNext]_<<allVars, mergeVars, argumentVars>>

=============================================================================
