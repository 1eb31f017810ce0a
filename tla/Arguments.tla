------------------------------- MODULE Arguments -------------------------------
(***************************************************************************)
(* The arguments of a call on their way to the parameters of a script      *)
(* (internal/analyzer.go, internal/encoder.go, internal/stmt.go).  Every   *)
(* statement takes its arguments from what is left of those of the call;   *)
(* SQLite then binds them, by name or by place.  A prepared script is      *)
(* analysed without arguments, and only its last statement gets any.       *)
(***************************************************************************)
EXTENDS Cells

CONSTANT ArgumentInputs   \* a sequence of [modes, givens, scripts]: the calls, their arguments and their statements

VARIABLES
  calling,   \* the call [mode, given, stmts]; an argument is [name, type, id], a statement [kind, params, walk],
             \* its kind "create table", "dml", "query" or "merge"
  rest,      \* the arguments Analyze has not handed out
  bound,     \* by statement that ran, what each of its parameters holds
  refused    \* the call has returned an error

argumentVars == <<calling, rest, bound, refused>>

(* A parameter is [name, type], in the order of the text, the name "" for  *)
(* a question mark.  The resolved tree may hold them in another order:     *)
(* walk lists their places.  ZetaSQL gives the parameters of one name one  *)
(* type.  The id of an argument is its place, its value.                   *)
ParamType == [name : STRING, type : STRING]
ArgType == [name : STRING, type : STRING, id : Nat]
StmtType == [kind : STRING, params : Seq(ParamType), walk : Seq(Nat)]
WellFormed(stmt) ==
  /\ Len(stmt.walk) = Len(stmt.params) /\ Range(stmt.walk) = DOMAIN stmt.params
  /\ \A p, q \in Range(stmt.params) : p.name = q.name /\ p.name # "" => p.type = q.type

ASSUME ArgumentInputsType ==
  \A i \in DOMAIN ArgumentInputs :
    /\ ArgumentInputs[i].modes \subseteq {"exec", "prepare"}
    /\ \A g \in ArgumentInputs[i].givens : g \in Seq(ArgType) /\ \A j \in DOMAIN g : g[j].id = j
    /\ \A s \in ArgumentInputs[i].scripts : s \in Seq(StmtType) /\ \A n \in DOMAIN s : WellFormed(s[n])

\* getParamsFromNode: a name is kept when it is met first.
KeepFirst(kept, p) == IF p.name # "" /\ \E q \in Range(kept) : q.name = p.name THEN kept ELSE Append(kept, p)
Once(s) == FoldLeft(KeepFirst, <<>>, s)
ParamsOf(stmt) == Once([i \in DOMAIN stmt.walk |-> stmt.params[stmt.walk[i]]])

Positional(stmt) == \E p \in Range(stmt.params) : p.name = ""
MixedMode(stmt) == Positional(stmt) /\ \E p \in Range(stmt.params) : p.name # ""

LastOf(S) == CHOOSE n \in S : \A m \in S : n >= m

\* The last argument with the name, else the one in its place, whatever its name.
ValueFor(values, p, i) ==
  LET named == {j \in DOMAIN values : values[j].name = p.name}
  IN  IF p.name = "" \/ named = {} THEN values[i] ELSE values[LastOf(named)]

\* EncodeGoValue: a text that is no number is no INT64.
CanEncode(arg, type) == arg.type = type \/ type = "string"
Carried(arg, type) == [name |-> arg.name, id |-> arg.id, as |-> type]

\* getArgsFromParams
CanGetArgs(values, params) ==
  /\ Len(values) >= Len(params)
  /\ \A i \in DOMAIN params : CanEncode(ValueFor(values, params[i], i), params[i].type)
GetArgs(values, params) == [i \in DOMAIN params |-> Carried(ValueFor(values, params[i], i), params[i].type)]

\* A named argument is bound to the parameters of its name, another one by its place; the last one counts.
BoundTo(stmt, passed) ==
  LET slots == Once(stmt.params)
      for(k) == {i \in DOMAIN passed : IF passed[i].name = "" THEN i = k ELSE passed[i].name = slots[k].name}
  IN  [k \in DOMAIN slots |-> IF for(k) = {} THEN Null ELSE passed[LastOf(for(k))]]

---------------------------------------------------------------------------
NextStmt == calling.stmts[Len(bound) + 1]
LastStmt == Last(calling.stmts)

\* Mutant: what a statement has used is given to the next one again.
Remaining_All(stmt, passed) == rest

\* Args() of an action: only that of a CREATE TABLE tells what it has used.
Remaining(stmt, passed) ==
  IF Positional(stmt) /\ stmt.kind = "create table" THEN SubSeq(rest, Len(passed) + 1, Len(rest)) ELSE rest

ArgumentsInit ==
  /\ \E i \in DOMAIN ArgumentInputs :
       \E m \in ArgumentInputs[i].modes, g \in ArgumentInputs[i].givens, s \in ArgumentInputs[i].scripts :
         calling = [mode |-> m, given |-> g, stmts |-> s]
  /\ rest = calling.given
  /\ bound = <<>>
  /\ refused = FALSE

Refuse == refused' = TRUE /\ UNCHANGED <<calling, rest, bound>>

\* The actions of a MERGE, a CREATE VIEW and a CREATE FUNCTION have no arguments.
TakesArguments(stmt) == stmt.kind \in {"create table", "dml", "query"}
CanRun(stmt) ==
  /\ ~MixedMode(stmt)
  /\ IF TakesArguments(stmt) THEN CanGetArgs(rest, ParamsOf(stmt)) ELSE stmt.params = <<>>

\* ExecContext and QueryContext: build the action of a statement and execute it.
RunStmt ==
  /\ calling.mode = "exec" /\ ~refused /\ Len(bound) < Len(calling.stmts)
  /\ IF ~CanRun(NextStmt) THEN Refuse
     ELSE LET passed == GetArgs(rest, ParamsOf(NextStmt))
          IN  /\ bound' = Append(bound, BoundTo(NextStmt, passed))
              /\ rest' = Remaining(NextStmt, passed)
              /\ UNCHANGED <<calling, refused>>

\* PrepareContext keeps the statement of the last action.
PrepareStmts ==
  /\ calling.mode = "prepare" /\ ~refused /\ Len(bound) < Len(calling.stmts) - 1
  /\ IF MixedMode(NextStmt) THEN Refuse
     ELSE bound' = Append(bound, <<>>) /\ UNCHANGED <<calling, rest, refused>>

\* The client executes it: database/sql counts the arguments; CreateTableStmt hands SQLite all of
\* them as one, and a MERGE has no statement to execute.
RunPrepared ==
  /\ calling.mode = "prepare" /\ ~refused /\ Len(bound) = Len(calling.stmts) - 1
  /\ LET params == ParamsOf(LastStmt)
     IN  IF MixedMode(LastStmt) \/ LastStmt.kind \notin {"dml", "query"} \/ Len(calling.given) # Len(params)
            \/ ~CanGetArgs(calling.given, params)
         THEN Refuse
         ELSE bound' = Append(bound, BoundTo(LastStmt, GetArgs(calling.given, params))) /\ UNCHANGED <<calling, rest, refused>>

ArgumentsNext == RunStmt \/ PrepareStmts \/ RunPrepared

ArgumentsSpec == ArgumentsInit /\ [][ArgumentsNext]_argumentVars

---------------------------------------------------------------------------
InOrder(stmt) == stmt.walk = [i \in DOMAIN stmt.params |-> i]
CallOver == refused \/ (calling.stmts # <<>> /\ Len(bound) = Len(calling.stmts))
Executed(n) == calling.mode = "exec" \/ n = Len(calling.stmts)
StmtsBefore(n) == IF calling.mode = "exec" THEN 1..(n - 1) ELSE {}
QuestionMarks(m) == {<<m, j>> : j \in {j \in DOMAIN calling.stmts[m].params : calling.stmts[m].params[j].name = ""}}
\* The place of a question mark among all those of the call.
PlaceOf(n, k) == k + Cardinality(UNION {QuestionMarks(m) : m \in StmtsBefore(n)})
\* A statement before this one used arguments and did not tell, or took away arguments that have names.
Displaced(n) == \E m \in StmtsBefore(n) :
                  Positional(calling.stmts[m]) /\ (calling.stmts[m].kind # "create table" \/ ~Positional(calling.stmts[n]))
OfName(name) == {i \in DOMAIN calling.given : calling.given[i].name = name}

\* What the parameter k of a statement holds, that is at this place among the question marks.
Reached(stmt, k, place, holds) ==
  LET slot == Once(stmt.params)[k]
      spelt == \A p \in Range(stmt.params) : OfName(p.name) # {}
  IN  CASE slot.name # "" /\ OfName(slot.name) # {} ->
             holds # Null /\ (spelt => holds.id = LastOf(OfName(slot.name)) /\ holds.as = slot.type)
        \* Misspelt: the parameter is NULL, unless an argument without a name stands in its place.
        [] slot.name # "" /\ OfName(slot.name) = {} -> holds = Null \/ holds.name = ""
        [] slot.name = "" /\ place \in DOMAIN calling.given /\ calling.given[place].name # "" -> holds = Null
        [] OTHER -> holds # Null /\ holds.id = place /\ (InOrder(stmt) => holds.as = slot.type)

Fits(p, place) ==
  LET given == calling.given
  IN  IF p.name = "" THEN place \in DOMAIN given /\ given[place].name = "" /\ CanEncode(given[place], p.type)
      ELSE OfName(p.name) # {} /\ CanEncode(given[LastOf(OfName(p.name))], p.type)

\* A call whose arguments are there, in their types and with the names of the parameters.
Complete ==
  LET stmts == calling.stmts
  IN  /\ \A n \in DOMAIN stmts : ~MixedMode(stmts[n])
      /\ \A n \in {n \in DOMAIN stmts : Executed(n)} :
           /\ InOrder(stmts[n]) /\ ~Displaced(n)
           /\ stmts[n].kind \in {"dml", "query"} \/ (calling.mode = "exec" /\ (stmts[n].kind = "create table" \/ stmts[n].params = <<>>))
           /\ \A k \in DOMAIN stmts[n].params : Fits(stmts[n].params[k], PlaceOf(n, k))
           /\ calling.mode = "prepare" => Len(calling.given) = Len(Once(stmts[n].params))

\* Every parameter of every statement that runs holds the argument with its name or, for question
\* marks, the one in its place in the call, encoded in the parameter's own type; and a call is not
\* refused when its arguments are there (analyzer.go:240-292, 769-829, stmt.go:133-254).  Where that
\* ends: after a query or DML with question marks the next statement gets the same arguments again, and
\* after a CREATE TABLE with question marks names may be gone; a named argument does not reach a question
\* mark, nor a misspelt one its parameter, and both are NULL without an error, and what a misspelt one
\* takes may reach another; the type may be that of another question mark when the resolved tree has them
\* in another order; a MERGE has no arguments.
ArgumentsReach ==
  /\ \A n \in DOMAIN bound : Executed(n) /\ ~Displaced(n) =>
       \A k \in DOMAIN bound[n] : Reached(calling.stmts[n], k, PlaceOf(n, k), bound[n][k])
  /\ CallOver /\ refused => ~Complete

=============================================================================
