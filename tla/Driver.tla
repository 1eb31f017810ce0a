--------------------------------- MODULE Driver ---------------------------------
(***************************************************************************)
(* The statements of the driver at work (driver.go, internal/stmt_action.go*)
(* and the parts of internal/catalog.go that read and write the table      *)
(* zetasqlite_catalog): connections of one data source name run scripts    *)
(* against one SQLite database and the one Catalog they share.             *)
(*                                                                         *)
(* A call (ExecContext or QueryContext) is a sequence of steps, one per    *)
(* SQL statement sent to SQLite or section under c.mu; other connections   *)
(* move between them.  An SQL statement may fail, the process may die      *)
(* between two steps and start again on the same database.                 *)
(***************************************************************************)
EXTENDS Integers, FiniteSets, ChangedCatalog

CONSTANTS
    Conns,             \* the connections
    Programs,          \* by connection, the calls it may make: [script, mode],
                       \* a sequence of statements and "exec" or "query"
    MissingFunctions,  \* the functions NewCatalog registers
    MaxCalls,          \* bound: calls per connection
    MaxFaults,         \* bound: SQL statements that fail for no reason of theirs
    MaxRestarts        \* bound: restarts of the process

VARIABLES
    cat,       \* the shared Catalog
    objs,      \* SQLite: the kind ("table" or "view") of each object by name
    rows,      \* the table zetasqlite_catalog: [kind, spec, fresh] by name;
               \* fresh says updatedAt >= c.lastSyncedAt
    calls,     \* the call of each connection, the last one when it is idle
    faults,    \* the number of faults so far
    restarts   \* the number of restarts so far

vars == <<cat, objs, rows, calls, faults, restarts>>

(* A statement: what it does, to which spec (a DROP names one by its path  *)
(* and kind), and "default", "replace", "ifNotExists" or "ifExists".       *)
Ops == {"create", "drop", "query", "begin", "commit"}
Statements == UNION {ToSet(p.script) : p \in UNION {Programs[c] : c \in Conns}}

StmtName(stmt) == SpecName(stmt.spec)
IsFunction(stmt) == stmt.spec.kind = "function"

(* Statements name objects so that tables and functions never share a row. *)
ASSUME KindsHaveTheirNames ==
    \A s, t \in Statements :
        StmtName(s) = StmtName(t) => (IsFunction(s) <=> IsFunction(t))

ASSUME StatementsWellFormed ==
    \A s \in Statements :
        /\ s.op \in Ops /\ s.spec.temp \in BOOLEAN
        /\ s.spec.temp => s.op = "create"
        /\ s.op \in {"create", "drop"} => s.spec.kind \in {"table", "view", "function"}

(* A script has a statement.                                               *)
ASSUME ProgramsType ==
    \A c \in Conns : \A p \in Programs[c] :
        /\ p.script \in Seq(Statements) /\ p.script # <<>>
        /\ p.mode \in {"exec", "query"}

ASSUME MissingFunctionsType ==
    /\ MissingFunctions \in Seq(ToSet(MissingFunctions))
    /\ \A f \in ToSet(MissingFunctions) : f.kind = "function"
    /\ NamesDistinct(MissingFunctions)

ASSUME BoundsType == MaxCalls \in Nat /\ MaxFaults \in Nat /\ MaxRestarts \in Nat

---------------------------------------------------------------------------
(* SQLite: a name is a table or a view, not both.                          *)
CanCreate(stmt) == StmtName(stmt) \notin DOMAIN objs \/ stmt.mode = "ifNotExists"

CreateObject(stmt) ==
    IF StmtName(stmt) \in DOMAIN objs THEN objs
    ELSE WithNew(objs, {StmtName(stmt)}, stmt.spec.kind)

CanDrop(stmt, ifExists) ==
    IF StmtName(stmt) \in DOMAIN objs THEN objs[StmtName(stmt)] = stmt.spec.kind
                                      ELSE ifExists

Put(f, name, value) ==
    [n \in DOMAIN f \cup {name} |-> IF n = name THEN value ELSE f[n]]
Minus(f, name) == [n \in DOMAIN f \ {name} |-> f[n]]

(* The upsert of saveTableSpec and saveFunctionSpec: a row that exists     *)
(* keeps its kind.                                                         *)
SaveSpec(spec) ==
    Put(rows, SpecName(spec),
        [kind  |-> IF SpecName(spec) \in DOMAIN rows
                   THEN rows[SpecName(spec)].kind ELSE spec.kind,
         spec  |-> spec,
         fresh |-> TRUE])

(* Mutant: the row of a dropped object stays.                              *)
DeleteRow_KeepsRow(name) == rows

DeleteRow(name) == Minus(rows, name)

(* Mutant: temporary objects are saved, too.                               *)
NeedsRow_Always(spec) == TRUE

(* if !spec.IsTemp                                                         *)
NeedsRow(spec) == ~ spec.temp

---------------------------------------------------------------------------
(* A call.  step is what the call does next:                               *)
(*   "sync", "functions"        Analyze before its first statement         *)
(*   "stmt"                     statement pc is about to be built          *)
(*   "dropOld", "create", "register"             the steps of a CREATE     *)
(*   "dropObject", "read", "unregister"          the steps of a DROP       *)
(*   "rows"                     QueryContext returned, its rows are open   *)
(*   "cleanup", "forget"        Cleanup of the action of statement pc      *)
(*   "idle"                     the call is over                           *)
(* built counts the actions appended so far, whose Cleanup will run; seen  *)
(* is the spec a DROP read from tableMap, funcMap the functions this call  *)
(* knows, cc its ChangedCatalog; before is what existed when it began.     *)
Steps == {"idle", "sync", "functions", "stmt", "dropOld", "create", "register",
          "dropObject", "read", "unregister", "rows", "cleanup", "forget"}

NewCall(script, mode, n) ==
    [step |-> "sync", script |-> script, mode |-> mode, n |-> n,
     pc |-> 1, built |-> 0, err |-> FALSE, panicked |-> FALSE,
     seen |-> NoSpec, funcMap |-> <<>>, cc |-> newChangedCatalog,
     before |-> [tables |-> DOMAIN cat.tables.map,
                 functions |-> DOMAIN cat.functions.map]]

NoCall(n) == [NewCall(<<>>, "exec", n) EXCEPT !.step = "idle"]

Stmt(c) == calls[c].script[calls[c].pc]
At(c, step) == calls[c].step = step
Set(c, call) == calls' = [calls EXCEPT ![c] = call]
Goto(c, step) == Set(c, [calls[c] EXCEPT !.step = step])

(* The statement of a call succeeded: the next one, or what follows them:  *)
(* the deferred Cleanup of ExecContext, the open rows of QueryContext.     *)
Done(call) ==
    IF call.pc < Len(call.script) THEN [call EXCEPT !.step = "stmt", !.pc = @ + 1]
    ELSE IF call.mode = "exec" THEN [call EXCEPT !.step = "cleanup", !.pc = 1]
    ELSE [call EXCEPT !.step = "rows"]

(* Mutant: cleanup is not deferred, a failing script skips it.             *)
Failed_SkipsCleanup(call) == [call EXCEPT !.step = "idle", !.err = TRUE]

(* It failed: ExecContext still cleans up, QueryContext returns no rows,   *)
(* and with the rows the reference to the actions is gone.                 *)
Failed(call) ==
    IF call.mode = "exec"
    THEN [call EXCEPT !.step = "cleanup", !.pc = 1, !.err = TRUE]
    ELSE [call EXCEPT !.step = "idle", !.err = TRUE]

Panicked(call) == [Failed(call) EXCEPT !.panicked = TRUE]

Fail(c) == Set(c, Failed(calls[c]))

(* An SQL statement fails although nothing is wrong with it.               *)
Fault == faults < MaxFaults /\ faults' = faults + 1

---------------------------------------------------------------------------
Init ==
    /\ cat = NewCatalog(MissingFunctions)
    /\ objs = <<>>
    /\ rows = <<>>
    /\ calls = [c \in Conns |-> NoCall(0)]
    /\ faults = 0
    /\ restarts = 0

(* The client calls ExecContext or QueryContext.                           *)
Begin(c) ==
    /\ At(c, "idle") /\ calls[c].n < MaxCalls
    /\ \E p \in Programs[c] : Set(c, NewCall(p.script, p.mode, calls[c].n + 1))
    /\ UNCHANGED <<cat, objs, rows, faults, restarts>>

(* Mutant: the rows of functions are not loaded.                           *)
LoadRow_TablesOnly(catalog, name) ==
    IF rows[name].kind = "function" THEN catalog
                                    ELSE AddTableSpec(catalog, rows[name].spec)

(* Sync loads the rows written since the last Sync, in any order.  That    *)
(* its reading may also end early without an error is left to CatalogSync. *)
LoadRow(catalog, name) ==
    IF rows[name].kind = "function" THEN AddFunctionSpec(catalog, rows[name].spec)
                                    ELSE AddTableSpec(catalog, rows[name].spec)

Sync(c) ==
    /\ At(c, "sync")
    /\ \E order \in SetToSeqs({n \in DOMAIN rows : rows[n].fresh}) :
        cat' = FoldLeft(LoadRow, cat, order)
    /\ rows' = [n \in DOMAIN rows |-> [rows[n] EXCEPT !.fresh = FALSE]]
    /\ Goto(c, "functions")
    /\ UNCHANGED <<objs, faults, restarts>>

SyncFails(c) ==
    /\ At(c, "sync")
    /\ Fault
    /\ Set(c, [calls[c] EXCEPT !.step = "idle", !.err = TRUE])
    /\ UNCHANGED <<cat, objs, rows, restarts>>

(* Analyze collects the functions from the list, after Sync has unlocked   *)
(* the catalog; no name path is set.                                       *)
CollectFunctions(c) ==
    /\ At(c, "functions")
    /\ Set(c, [calls[c] EXCEPT !.step = "stmt",
                               !.funcMap = Rebuild(cat.functions.list).map])
    /\ UNCHANGED <<cat, objs, rows, faults, restarts>>

(* Mutant: a DROP TABLE is not sent to SQLite.                             *)
FirstStep_SkipsDrop(stmt) ==
    IF stmt.op = "drop" THEN "unregister"
    ELSE IF IsFunction(stmt) THEN "register"
    ELSE IF stmt.mode = "replace" THEN "dropOld"
    ELSE "create"

(* The action of a statement is built and appended to the actions.         *)
FirstStep(stmt) ==
    IF stmt.op = "drop" THEN IF IsFunction(stmt) THEN "unregister" ELSE "dropObject"
    ELSE IF IsFunction(stmt) THEN "register"
    ELSE IF stmt.mode = "replace" THEN "dropOld"
    ELSE "create"

BuildDDL(c) ==
    /\ At(c, "stmt") /\ Stmt(c).op \in {"create", "drop"}
    /\ Set(c, [calls[c] EXCEPT !.step = FirstStep(Stmt(c)), !.built = calls[c].pc])
    /\ UNCHANGED <<cat, objs, rows, faults, restarts>>

(* A query fails before its action exists when the analyzer does not find  *)
(* the table, and after that when SQLite does not have it.                 *)
Query(c) ==
    /\ At(c, "stmt") /\ Stmt(c).op = "query"
    /\ IF ~ Resolvable(cat.tables, Stmt(c).spec.path) THEN Fail(c)
       ELSE LET call == [calls[c] EXCEPT !.built = calls[c].pc]
            IN  Set(c, IF SpecName(Resolve(cat.tables, Stmt(c).spec.path)) \in DOMAIN objs
                       THEN Done(call) ELSE Failed(call))
    /\ UNCHANGED <<cat, objs, rows, faults, restarts>>

(* BEGIN and COMMIT do nothing at all.                                     *)
BeginCommit(c) ==
    /\ At(c, "stmt") /\ Stmt(c).op \in {"begin", "commit"}
    /\ Set(c, Done([calls[c] EXCEPT !.built = calls[c].pc]))
    /\ UNCHANGED <<cat, objs, rows, faults, restarts>>

---------------------------------------------------------------------------
(* Three shapes of a step that sends one SQL statement: SQLite refuses it, *)
(* it fails as a fault, or it does its work.                               *)
Refused(c) ==
    Fail(c) /\ UNCHANGED <<cat, objs, rows, faults, restarts>>

Faulty(c) ==
    Fault /\ Fail(c) /\ UNCHANGED <<cat, objs, rows, restarts>>

(* CREATE OR REPLACE drops the object of the name first.                   *)
DropOld(c) ==
    /\ At(c, "dropOld")
    /\ \/ ~ CanDrop(Stmt(c), TRUE) /\ Refused(c)
       \/ Faulty(c)
       \/ /\ CanDrop(Stmt(c), TRUE)
          /\ objs' = Minus(objs, StmtName(Stmt(c)))
          /\ Goto(c, "create")
          /\ UNCHANGED <<cat, rows, faults, restarts>>

Create(c) ==
    /\ At(c, "create")
    /\ \/ ~ CanCreate(Stmt(c)) /\ Refused(c)
       \/ Faulty(c)
       \/ /\ CanCreate(Stmt(c))
          /\ objs' = CreateObject(Stmt(c))
          /\ Goto(c, "register")
          /\ UNCHANGED <<cat, rows, faults, restarts>>

(* AddNewTableSpec, AddNewFunctionSpec: the catalog in memory, then the    *)
(* row of an object that is not temporary, under c.mu.  A row that cannot  *)
(* be written leaves the spec in memory.                                   *)
CatalogWith(spec) ==
    IF spec.kind = "function" THEN AddFunctionSpec(cat, spec)
                              ELSE AddTableSpec(cat, spec)

(* What the call notes after it: a table unless it is temporary, a view    *)
(* not yet, a function always, which also becomes known to the call.       *)
NoteAdded(call, spec) ==
    IF spec.kind = "function" THEN
        IF CanAdd(call.cc.functions, spec)
        THEN Done([call EXCEPT !.cc.functions = Add(@, spec),
                               !.funcMap = Put(@, SpecName(spec), spec)])
        ELSE Panicked([call EXCEPT !.funcMap = Put(@, SpecName(spec), spec)])
    ELSE IF spec.kind = "view" \/ spec.temp THEN Done(call)
    ELSE IF CanAdd(call.cc.tables, spec) THEN Done([call EXCEPT !.cc.tables = Add(@, spec)])
    ELSE Panicked(call)

Register(c) ==
    LET spec == Stmt(c).spec IN
    /\ At(c, "register")
    /\ cat' = CatalogWith(spec)
    /\ \/ /\ rows' = IF NeedsRow(spec) THEN SaveSpec(spec) ELSE rows
          /\ Set(c, NoteAdded(calls[c], spec))
          /\ UNCHANGED faults
       \/ /\ NeedsRow(spec)
          /\ Fault /\ Fail(c)
          /\ UNCHANGED rows
    /\ UNCHANGED <<objs, restarts>>

---------------------------------------------------------------------------
DropObject(c) ==
    LET ifExists == Stmt(c).mode = "ifExists" IN
    /\ At(c, "dropObject")
    /\ \/ ~ CanDrop(Stmt(c), ifExists) /\ Refused(c)
       \/ Faulty(c)
       \/ /\ CanDrop(Stmt(c), ifExists)
          /\ objs' = Minus(objs, StmtName(Stmt(c)))
          /\ Goto(c, "read")
          /\ UNCHANGED <<cat, rows, faults, restarts>>

(* spec := a.catalog.tableMap[a.name], without c.mu                        *)
ReadSpec(c) ==
    LET name == StmtName(Stmt(c)) IN
    /\ At(c, "read")
    /\ Set(c, [calls[c] EXCEPT !.step = "unregister",
                               !.seen = IF name \in DOMAIN cat.tables.map
                                        THEN cat.tables.map[name] ELSE NoSpec])
    /\ UNCHANGED <<cat, objs, rows, faults, restarts>>

(* DeleteTableSpec, DeleteFunctionSpec: an error for a name the catalog    *)
(* does not have, otherwise the catalog in memory, then the row.           *)
Known(stmt) ==
    StmtName(stmt) \in DOMAIN (IF IsFunction(stmt) THEN cat.functions.map ELSE cat.tables.map)

CatalogWithout(stmt) ==
    IF IsFunction(stmt) THEN DeleteFunctionSpecByName(cat, StmtName(stmt))
                        ELSE DeleteTableSpecByName(cat, StmtName(stmt))

NoteDeleted(call, stmt) ==
    LET name == StmtName(stmt)
        spec == IF name \in DOMAIN call.funcMap THEN call.funcMap[name] ELSE NoSpec
    IN  IF IsFunction(stmt) THEN
            IF CanDelete(call.cc.functions, spec)
            THEN Done([call EXCEPT !.cc.functions = Delete(@, spec),
                                   !.funcMap = Minus(@, name)])
            ELSE Panicked(call)
        ELSE IF CanDelete(call.cc.tables, call.seen)
             THEN Done([call EXCEPT !.cc.tables = Delete(@, call.seen)])
             ELSE Panicked(call)

Unregister(c) ==
    LET stmt == Stmt(c) IN
    /\ At(c, "unregister")
    /\ \/ ~ Known(stmt) /\ Refused(c)
       \/ /\ Known(stmt)
          /\ cat' = CatalogWithout(stmt)
          /\ \/ rows' = DeleteRow(StmtName(stmt)) /\ UNCHANGED faults
                /\ Set(c, NoteDeleted(calls[c], stmt))
             \/ Fault /\ Fail(c) /\ UNCHANGED rows
          /\ UNCHANGED <<objs, restarts>>

---------------------------------------------------------------------------
(* The client closes the rows of a query: the cleanup of its actions.      *)
CloseRows(c) ==
    /\ At(c, "rows")
    /\ Set(c, [calls[c] EXCEPT !.step = "cleanup", !.pc = 1])
    /\ UNCHANGED <<cat, objs, rows, faults, restarts>>

(* Cleanup of the actions built, in their order; an error of one does not  *)
(* keep the others from theirs.                                            *)
Cleaning(c) == At(c, "cleanup") /\ calls[c].pc <= calls[c].built
IsTempObject(stmt) == stmt.spec.temp /\ ~ IsFunction(stmt)

Cleaned(call)       == [call EXCEPT !.step = "cleanup", !.pc = @ + 1]
(* Mutant: a Cleanup that failed is tried again.                           *)
CleanupFailed_Retries(call) == [call EXCEPT !.step = "cleanup", !.err = TRUE]
CleanupFailed(call) == [Cleaned(call) EXCEPT !.err = TRUE]

NothingToClean(stmt) ==
    /\ ~ stmt.spec.temp
    /\ ~ (stmt.op = "create" /\ stmt.spec.kind = "view")

SkipCleanup(c) ==
    /\ Cleaning(c) /\ NothingToClean(Stmt(c))
    /\ Set(c, Cleaned(calls[c]))
    /\ UNCHANGED <<cat, objs, rows, faults, restarts>>

(* A view that is not temporary is noted now, whatever became of it.       *)
CleanupView(c) ==
    /\ Cleaning(c)
    /\ Stmt(c).op = "create" /\ Stmt(c).spec.kind = "view" /\ ~ Stmt(c).spec.temp
    /\ Set(c, IF CanAdd(calls[c].cc.tables, Stmt(c).spec)
              THEN Cleaned([calls[c] EXCEPT !.cc.tables = Add(@, Stmt(c).spec)])
              ELSE [calls[c] EXCEPT !.step = "idle", !.panicked = TRUE])
    /\ UNCHANGED <<cat, objs, rows, faults, restarts>>

(* A temporary table or view: DROP ... IF EXISTS, then DeleteTableSpec.    *)
CleanupObject(c) ==
    /\ Cleaning(c) /\ IsTempObject(Stmt(c))
    /\ \/ /\ CanDrop(Stmt(c), TRUE)
          /\ objs' = Minus(objs, StmtName(Stmt(c)))
          /\ Goto(c, "forget")
          /\ UNCHANGED faults
       \/ /\ ~ CanDrop(Stmt(c), TRUE)
          /\ Set(c, CleanupFailed(calls[c]))
          /\ UNCHANGED <<objs, faults>>
       \/ /\ Fault
          /\ Set(c, CleanupFailed(calls[c]))
          /\ UNCHANGED objs
    /\ UNCHANGED <<cat, rows, restarts>>

(* Delete...Spec in a Cleanup: for a temporary table after its DROP, for a *)
(* temporary function at once.                                             *)
Forget(c) ==
    LET stmt == Stmt(c) IN
    /\ \/ At(c, "forget")
       \/ Cleaning(c) /\ stmt.spec.temp /\ IsFunction(stmt)
    /\ IF ~ Known(stmt)
       THEN Set(c, CleanupFailed(calls[c])) /\ UNCHANGED <<cat, rows, faults>>
       ELSE /\ cat' = CatalogWithout(stmt)
            /\ \/ /\ rows' = DeleteRow(StmtName(stmt))
                  /\ Set(c, Cleaned([calls[c] EXCEPT !.funcMap =
                                        IF IsFunction(stmt) THEN Minus(@, StmtName(stmt)) ELSE @]))
                  /\ UNCHANGED faults
               \/ Fault /\ Set(c, CleanupFailed(calls[c])) /\ UNCHANGED rows
    /\ UNCHANGED <<objs, restarts>>

EndCall(c) ==
    /\ At(c, "cleanup") /\ calls[c].pc > calls[c].built
    /\ Goto(c, "idle")
    /\ UNCHANGED <<cat, objs, rows, faults, restarts>>

---------------------------------------------------------------------------
(* The process dies and a new one opens the database: memory is gone, and  *)
(* for the new Catalog, never synced, every row is fresh.                  *)
Restart ==
    /\ restarts < MaxRestarts
    /\ restarts' = restarts + 1
    /\ cat' = NewCatalog(MissingFunctions)
    /\ rows' = [n \in DOMAIN rows |-> [rows[n] EXCEPT !.fresh = TRUE]]
    /\ calls' = [c \in Conns |-> NoCall(calls[c].n)]
    /\ UNCHANGED <<objs, faults>>

(* What connection c does by itself once a call has begun, apart from the  *)
(* client, who begins calls and closes rows.                               *)
Step(c) ==
    \/ Sync(c) \/ SyncFails(c) \/ CollectFunctions(c)
    \/ BuildDDL(c) \/ Query(c) \/ BeginCommit(c)
    \/ DropOld(c) \/ Create(c) \/ Register(c)
    \/ DropObject(c) \/ ReadSpec(c) \/ Unregister(c)
    \/ SkipCleanup(c) \/ CleanupView(c) \/ CleanupObject(c) \/ Forget(c) \/ EndCall(c)

Next ==
    \/ \E c \in Conns : Begin(c) \/ Step(c) \/ CloseRows(c)
    \/ Restart

Spec == Init /\ [][Next]_vars

(* A call runs on a goroutine of the client and takes its steps; clients   *)
(* close their rows, but need not begin a call.                            *)
FairSpec == Spec /\ \A c \in Conns : WF_vars(Step(c)) /\ WF_vars(CloseRows(c))

---------------------------------------------------------------------------
TypeOK ==
    /\ DOMAIN cat = {"tables", "functions"}
    /\ \A n \in DOMAIN objs : objs[n] \in {"table", "view"}
    /\ \A n \in DOMAIN rows :
        /\ rows[n].kind \in {"table", "view", "function"}
        /\ rows[n].fresh \in BOOLEAN
        /\ SpecName(rows[n].spec) = n /\ ~ rows[n].spec.temp
    /\ \A c \in Conns :
        /\ calls[c].step \in Steps
        /\ calls[c].n \in 0..MaxCalls
        /\ calls[c].built \in 0..Len(calls[c].script)
    /\ faults \in 0..MaxFaults /\ restarts \in 0..MaxRestarts

Quiet == \A c \in Conns : At(c, "idle")

TablesKnown == DOMAIN cat.tables.map
FunctionsKnown == DOMAIN cat.functions.map \ Names(MissingFunctions)

(* The names of the objects of the catalog that are to have a row: neither *)
(* temporary nor one of the functions every catalog has.                   *)
PermanentNames ==
    {n \in TablesKnown : ~ cat.tables.map[n].temp} \cup
    {n \in FunctionsKnown : ~ cat.functions.map[n].temp}

(* Between calls the catalog in memory, the objects of SQLite and the rows *)
(* tell of the same objects, whatever the scripts did, in what order and   *)
(* which of them failed (stmt_action.go:92-115, 138-153, 297-320;          *)
(* driver.go:171-181).  Which version of a replaced object they hold may   *)
(* differ: see CurrentSpecUpdated of Catalog.                              *)
QuiescentAgreement ==
    Quiet => TablesKnown = DOMAIN objs /\ DOMAIN rows = PermanentNames

(* Nothing temporary outlives its call, neither in the catalog nor in      *)
(* SQLite, when every call is an ExecContext and a name is not also that   *)
(* of a permanent object (driver.go:171-181).                              *)
NamesCreated(temp) ==
    {StmtName(s) : s \in {t \in Statements : t.op = "create" /\ t.spec.temp = temp}}
TempNames == NamesCreated(TRUE) \ NamesCreated(FALSE)
TempObjectsGone ==
    Quiet => TempNames \cap (TablesKnown \cup DOMAIN objs \cup FunctionsKnown) = {}

(* What a finished call reports about tables and functions is the net      *)
(* effect of its script, also of one that failed half way (conn.go:78-145):*)
(* what it added exists, what it deleted does not, and every difference to *)
(* the time it began is reported.  Views and temporary objects are left    *)
(* out: see ReportedAdditionsExist.                                        *)
NetEffect(changes, before, now, except) ==
    /\ NamesOf(changes.added) \ except \subseteq now
    /\ NamesOf(changes.deleted) \cap now \subseteq except
    /\ now \ before \subseteq NamesOf(changes.added) \cup except
    /\ before \ now \subseteq NamesOf(changes.deleted) \cup except

CreatedAs(script, Test(_)) ==
    {StmtName(s) : s \in {t \in ToSet(script) : t.op = "create" /\ Test(t.spec)}}
ViewOrTemp(spec) == spec.kind = "view" \/ spec.temp

ChangesReported ==
    \A c \in Conns :
        At(c, "idle") /\ calls[c].built > 0 =>
            LET call   == calls[c]
                except == CreatedAs(call.script, ViewOrTemp)
            IN  /\ NetEffect(call.cc.tables, call.before.tables, TablesKnown, except)
                /\ NetEffect(call.cc.functions, call.before.functions \ Names(MissingFunctions),
                             FunctionsKnown, except)

(* With connections racing on the same names, and a restart in between:    *)
(* each section under c.mu keeps memory and rows in step, so a permanent   *)
(* object always has its row, and a row whose object memory does not know is *)
(* one the next Sync will load (catalog.go:260-357).                       *)
RowsMatchCatalog ==
    /\ PermanentNames \subseteq DOMAIN rows
    /\ \A n \in DOMAIN rows : n \in PermanentNames \/ rows[n].fresh

(* Every call comes to its end: no step waits for another connection.      *)
CallsEnd == \A c \in Conns : ~ At(c, "idle") ~> At(c, "idle")

(* A temporary object is gone some time after it was made, however its     *)
(* call ends, when calls are ExecContexts or their rows are closed.        *)
TempEventuallyGone ==
    \A n \in TempNames :
        n \in DOMAIN objs \cup TablesKnown \cup FunctionsKnown
            ~> n \notin DOMAIN objs \cup TablesKnown \cup FunctionsKnown

(* A fault or a restart tears at most one table: rows and SQLite disagree  *)
(* about no more tables than calls are between their two halves, faults    *)
(* and restarts there were (stmt_action.go:92-115, 297-312).  Faults are   *)
(* statements that fail, not a Sync that ends early unnoticed.             *)
TableRows == {n \in DOMAIN rows : rows[n].kind # "function"}
Halfway(c) == calls[c].step \in {"create", "register", "read", "unregister"}
TornTablesBounded ==
    Cardinality((TableRows \ DOMAIN objs) \cup (DOMAIN objs \ TableRows)) <=
        Cardinality({c \in Conns : Halfway(c)}) + faults + restarts

---------------------------------------------------------------------------
(* What the repository says and the code does not do.                      *)

(* "retrieve modified catalog information" (catalog.go:22 and 41, of       *)
(* ChangedCatalogFromRows and ChangedCatalogFromResult): what a call       *)
(* reports as added exists when the call is over.                          *)
ReportedAdditionsExist ==
    \A c \in Conns :
        At(c, "idle") =>
            /\ NamesOf(calls[c].cc.tables.added) \subseteq TablesKnown
            /\ NamesOf(calls[c].cc.functions.added) \subseteq FunctionsKnown
=============================================================================
