----------------------------- MODULE Driver_proofs -----------------------------
(***************************************************************************)
(* Proofs about Driver for any number of connections, any scripts, faults  *)
(* and restarts: its types, and that the catalog in memory and the rows of *)
(* zetasqlite_catalog tell of the same objects as long as no SQL statement *)
(* fails without a reason.                                                 *)
(***************************************************************************)
EXTENDS Driver, CatalogOps_proofs, FiniteSetTheorems

(* The specs a registry may hold, and those a row may hold.                *)
Created == {s \in Statements : s.op = "create"}
TableSpecs == {s.spec : s \in {t \in Created : ~ IsFunction(t)}}
FunctionSpecs ==
    {s.spec : s \in {t \in Created : IsFunction(t)}} \cup ToSet(MissingFunctions)
RowSpecs == {s.spec : s \in {t \in Created : ~ t.spec.temp}}

---------------------------------------------------------------------------
(* The control of a call: which statement it is at, what kind of statement *)
(* that is in each step, and how many actions it has appended by then.     *)
CallFields == {"step", "script", "mode", "n", "pc", "built", "err", "panicked",
               "seen", "funcMap", "cc", "before"}
Working == {"dropOld", "create", "register", "dropObject", "read", "unregister"}

StmtFits(step, stmt) ==
    /\ step \in {"dropOld", "create", "register"} => stmt.op = "create"
    /\ step \in {"dropObject", "read", "unregister"} => stmt.op = "drop"
    /\ step \in {"dropOld", "create", "dropObject", "read", "forget"} => ~ IsFunction(stmt)
    /\ step = "dropOld" => stmt.mode = "replace"
    /\ step = "forget" => stmt.spec.temp

HasFields(call) ==
    /\ DOMAIN call = CallFields
    /\ call.step \in Steps /\ call.mode \in {"exec", "query"} /\ call.n \in 0..MaxCalls
    /\ call.script \in Seq(Statements)
    /\ call.pc \in Nat /\ call.built \in 0..Len(call.script)

IsCall(call) ==
    /\ HasFields(call)
    /\ call.step \notin {"idle", "rows", "cleanup"} => call.pc \in 1..Len(call.script)
    /\ call.step = "cleanup" => call.pc \in 1..(call.built + 1)
    /\ call.step = "forget" => call.pc <= call.built
    /\ call.step \in {"sync", "functions", "stmt"} => call.built = call.pc - 1
    /\ call.step \in Working => call.built = call.pc
    /\ StmtFits(call.step, call.script[call.pc])

CallsTyped ==
    /\ calls = [c \in Conns |-> calls[c]]
    /\ \A c \in Conns : IsCall(calls[c])

RegistriesSound ==
    /\ DOMAIN cat = {"tables", "functions"}
    /\ Sound(cat.tables, TableSpecs)
    /\ Sound(cat.functions, FunctionSpecs)

ObjectsTyped == \A n \in DOMAIN objs : objs[n] \in {"table", "view"}

(* The kind of a row, which is never updated, still tells tables from      *)
(* functions, and so which registry Sync loads the row into.               *)
IsRow(n, row) ==
    /\ DOMAIN row = {"kind", "spec", "fresh"}
    /\ row.kind \in {"table", "view", "function"} /\ row.fresh \in BOOLEAN
    /\ row.spec \in RowSpecs /\ SpecName(row.spec) = n
    /\ row.kind = "function" <=> row.spec.kind = "function"

RowsTyped ==
    /\ IsFiniteSet(DOMAIN rows)
    /\ \A n \in DOMAIN rows : IsRow(n, rows[n])

CountersTyped == faults \in 0..MaxFaults /\ restarts \in 0..MaxRestarts

IInv == CallsTyped /\ RegistriesSound /\ ObjectsTyped /\ RowsTyped /\ CountersTyped

---------------------------------------------------------------------------
(* The statement a call is at.                                             *)
LEMMA StmtType ==
  ASSUME NEW call, IsCall(call), call.pc \in 1..Len(call.script)
  PROVE  /\ call.script[call.pc] \in Statements
         /\ call.script[call.pc].op \in Ops
         /\ call.script[call.pc].op \in {"create", "drop"} =>
                call.script[call.pc].spec.kind \in {"table", "view", "function"}
<1>1. call.script[call.pc] \in Statements
  BY DEF IsCall, HasFields
<1>2. QED
  BY <1>1, StatementsWellFormed

(* A call is typed whatever it knows and has noted.                        *)
LEMMA SameControl ==
  ASSUME NEW call, IsCall(call), NEW new, DOMAIN new = CallFields,
         \A f \in {"step", "script", "mode", "n", "pc", "built"} : new[f] = call[f]
  PROVE  IsCall(new)
<1>1. /\ new.step = call.step /\ new.script = call.script /\ new.mode = call.mode
      /\ new.n = call.n /\ new.pc = call.pc /\ new.built = call.built
  OBVIOUS
<1>2. QED
  BY <1>1, Zenon DEF IsCall, HasFields

LEMMA DoneTyped ==
  ASSUME NEW call, HasFields(call), call.pc \in 1..Len(call.script), call.built = call.pc
  PROVE  IsCall(Done(call))
<1> DEFINE new == Done(call)
<1>1. /\ DOMAIN new = CallFields /\ new.built = call.built /\ new.n = call.n
      /\ new.script = call.script /\ new.mode = call.mode
      /\ \/ call.pc < Len(call.script) /\ new.step = "stmt" /\ new.pc = call.pc + 1
         \/ new.step = "cleanup" /\ new.pc = 1
         \/ new.step = "rows" /\ new.pc = call.pc
  BY DEF Done, HasFields, CallFields
<1> HIDE DEF new
<1>2. IsCall(new)
  BY <1>1 DEF IsCall, HasFields, Steps, Working, StmtFits
<1>3. QED
  BY <1>2 DEF new

LEMMA FailedTyped ==
  ASSUME NEW call, HasFields(call)
  PROVE  IsCall(Failed(call)) /\ IsCall(Panicked(call))
<1> DEFINE new == Failed(call)
<1>1. /\ DOMAIN new = CallFields /\ new.built = call.built /\ new.n = call.n
      /\ new.script = call.script /\ new.mode = call.mode
      /\ \/ new.step = "cleanup" /\ new.pc = 1
         \/ new.step = "idle" /\ new.pc = call.pc
  BY DEF Failed, HasFields, CallFields
<1> HIDE DEF new
<1>2. IsCall(new)
  BY <1>1 DEF IsCall, HasFields, Steps, Working, StmtFits
<1>3. IsCall([new EXCEPT !.panicked = TRUE])
  BY <1>1, <1>2, SameControl DEF CallFields
<1>4. QED
  BY <1>2, <1>3 DEF Panicked, new

(* Cleanup goes on after the statement it is at.                           *)
LEMMA CleanedTyped ==
  ASSUME NEW call, IsCall(call),
         \/ call.step = "forget"
         \/ call.step = "cleanup" /\ call.pc <= call.built
  PROVE  IsCall(Cleaned(call)) /\ IsCall(CleanupFailed(call))
<1> DEFINE new == Cleaned(call)
<1>1. /\ DOMAIN new = CallFields /\ new.built = call.built /\ new.n = call.n
      /\ new.script = call.script /\ new.mode = call.mode
      /\ new.step = "cleanup" /\ new.pc = call.pc + 1
  BY DEF Cleaned, IsCall, HasFields, CallFields
<1> HIDE DEF new
<1>2. IsCall(new)
  BY <1>1 DEF IsCall, HasFields, Steps, Working, StmtFits
<1>3. IsCall([new EXCEPT !.err = TRUE])
  BY <1>1, <1>2, SameControl DEF CallFields
<1>4. QED
  BY <1>2, <1>3 DEF CleanupFailed, new

(* A step that leaves the statement but not the action it is at.           *)
LEMMA GotoTyped ==
  ASSUME NEW call, IsCall(call), NEW step \in Working, call.step \in Working,
         StmtFits(step, call.script[call.pc])
  PROVE  IsCall([call EXCEPT !.step = step])
<1> DEFINE new == [call EXCEPT !.step = step]
<1>1. /\ DOMAIN new = CallFields /\ new.built = call.built /\ new.n = call.n
      /\ new.script = call.script /\ new.mode = call.mode
      /\ new.step = step /\ new.pc = call.pc
  BY DEF IsCall, HasFields, CallFields
<1> HIDE DEF new
<1>2. IsCall(new)
  BY <1>1 DEF IsCall, HasFields, Steps, Working
<1>3. QED
  BY <1>2 DEF new

LEMMA SetTyped ==
  ASSUME CallsTyped, NEW c \in Conns, NEW call, IsCall(call), Set(c, call)
  PROVE  CallsTyped'
<1>1. calls' = [calls EXCEPT ![c] = call] /\ DOMAIN calls = Conns
  BY DEF Set, CallsTyped
<1>2. calls' = [d \in Conns |-> IF d = c THEN call ELSE calls[d]]
  BY <1>1
<1>3. \A d \in Conns : IsCall(calls'[d])
  BY <1>2 DEF CallsTyped
<1>4. QED
  BY <1>2, <1>3 DEF CallsTyped

(* Where a call is when it works on a statement.                           *)
LEMMA AtWork ==
  ASSUME CallsTyped, NEW c \in Conns, calls[c].step \in Working \cup {"stmt", "forget"}
  PROVE  /\ IsCall(calls[c]) /\ calls[c].pc \in 1..Len(calls[c].script)
         /\ Stmt(c) \in Statements /\ Stmt(c).op \in Ops
         /\ Stmt(c).op \in {"create", "drop"} =>
                Stmt(c).spec.kind \in {"table", "view", "function"}
         /\ StmtFits(calls[c].step, Stmt(c))
<1>1. IsCall(calls[c])
  BY DEF CallsTyped
<1>2. calls[c].pc \in 1..Len(calls[c].script)
  BY <1>1 DEF IsCall, HasFields, Working
<1>3. StmtFits(calls[c].step, Stmt(c))
  BY <1>1 DEF IsCall, HasFields, Stmt
<1>4. QED
  BY <1>1, <1>2, <1>3, StmtType DEF Stmt

LEMMA FailTyped ==
  ASSUME CallsTyped, NEW c \in Conns, Fail(c)
  PROVE  CallsTyped'
BY SetTyped, FailedTyped DEF Fail, CallsTyped, IsCall

---------------------------------------------------------------------------
(* Every step of a connection keeps the control of its call.               *)
LEMMA BeginTyped ==
  ASSUME CallsTyped, NEW c \in Conns, Begin(c)
  PROVE  CallsTyped'
<1>1. PICK p \in Programs[c] : Set(c, NewCall(p.script, p.mode, calls[c].n + 1))
  BY DEF Begin
<1> DEFINE call == NewCall(p.script, p.mode, calls[c].n + 1)
<1>2. /\ p.script \in Seq(Statements) /\ p.script # << >> /\ p.mode \in {"exec", "query"}
      /\ calls[c].n + 1 \in 0..MaxCalls
  BY ProgramsType, BoundsType DEF Begin, CallsTyped, IsCall, HasFields
<1>3. /\ DOMAIN call = CallFields /\ call.step = "sync" /\ call.script = p.script
      /\ call.mode = p.mode /\ call.n = calls[c].n + 1 /\ call.pc = 1 /\ call.built = 0
  BY DEF NewCall, CallFields
<1> HIDE DEF call
<1>4. IsCall(call)
  BY <1>2, <1>3 DEF IsCall, HasFields, Steps, Working, StmtFits
<1>5. QED
  BY <1>1, <1>4, SetTyped DEF call

LEMMA SyncTyped ==
  ASSUME CallsTyped, NEW c \in Conns, At(c, "sync"),
         \/ Goto(c, "functions")
         \/ Set(c, [calls[c] EXCEPT !.step = "idle", !.err = TRUE])
  PROVE  CallsTyped'
<1>1. IsCall(calls[c])
  BY DEF CallsTyped
<1> DEFINE on   == [calls[c] EXCEPT !.step = "functions"]
           over == [calls[c] EXCEPT !.step = "idle", !.err = TRUE]
<1>2. /\ DOMAIN on = CallFields /\ on.step = "functions" /\ on.script = calls[c].script
      /\ on.mode = calls[c].mode /\ on.n = calls[c].n /\ on.pc = calls[c].pc
      /\ on.built = calls[c].built
  BY <1>1 DEF IsCall, HasFields, CallFields
<1>3. /\ DOMAIN over = CallFields /\ over.step = "idle" /\ over.script = calls[c].script
      /\ over.mode = calls[c].mode /\ over.n = calls[c].n /\ over.pc = calls[c].pc
      /\ over.built = calls[c].built
  BY <1>1 DEF IsCall, HasFields, CallFields
<1> HIDE DEF on, over
<1>4. IsCall(on) /\ IsCall(over)
  BY <1>1, <1>2, <1>3 DEF IsCall, HasFields, Steps, Working, StmtFits, At
<1>5. QED
  BY <1>4, SetTyped DEF Goto, on, over

LEMMA CollectTyped ==
  ASSUME CallsTyped, NEW c \in Conns, CollectFunctions(c)
  PROVE  CallsTyped'
<1> DEFINE new == [calls[c] EXCEPT !.step = "stmt",
                                   !.funcMap = Rebuild(cat.functions.list).map]
<1>1. IsCall(calls[c]) /\ calls[c].step = "functions" /\ Set(c, new)
  BY DEF CallsTyped, CollectFunctions, At
<1>2. /\ DOMAIN new = CallFields /\ new.step = "stmt" /\ new.script = calls[c].script
      /\ new.mode = calls[c].mode /\ new.n = calls[c].n /\ new.pc = calls[c].pc
      /\ new.built = calls[c].built
  BY <1>1 DEF IsCall, HasFields, CallFields
<1> HIDE DEF new
<1>3. IsCall(new)
  BY <1>1, <1>2 DEF IsCall, HasFields, Steps, Working, StmtFits
<1>4. QED
  BY <1>1, <1>3, SetTyped

(* A statement is begun: its action is appended.                           *)
LEMMA BuiltTyped ==
  ASSUME NEW call, IsCall(call), call.step = "stmt"
  PROVE  /\ HasFields([call EXCEPT !.built = call.pc])
         /\ \A step \in Working :
                StmtFits(step, call.script[call.pc]) =>
                    IsCall([call EXCEPT !.step = step, !.built = call.pc])
<1> DEFINE new == [call EXCEPT !.built = call.pc]
<1>1. /\ DOMAIN new = CallFields /\ new.step = call.step /\ new.script = call.script
      /\ new.mode = call.mode /\ new.n = call.n /\ new.pc = call.pc /\ new.built = call.pc
  BY DEF IsCall, HasFields, CallFields
<1> HIDE DEF new
<1>2. HasFields(new)
  BY <1>1 DEF IsCall, HasFields
<1>3. ASSUME NEW step \in Working, StmtFits(step, call.script[call.pc])
      PROVE  IsCall([call EXCEPT !.step = step, !.built = call.pc])
  <2> DEFINE on == [call EXCEPT !.step = step, !.built = call.pc]
  <2>1. /\ DOMAIN on = CallFields /\ on.step = step /\ on.script = call.script
        /\ on.mode = call.mode /\ on.n = call.n /\ on.pc = call.pc /\ on.built = call.pc
    BY DEF IsCall, HasFields, CallFields
  <2> HIDE DEF on
  <2>2. IsCall(on)
    BY <1>3, <2>1 DEF IsCall, HasFields, Steps, Working
  <2>3. QED
    BY <2>2 DEF on
<1>4. QED
  BY <1>2, <1>3 DEF new

LEMMA BuildTyped ==
  ASSUME CallsTyped, NEW c \in Conns, BuildDDL(c)
  PROVE  CallsTyped'
<1> DEFINE step == FirstStep(Stmt(c))
<1>1. IsCall(calls[c]) /\ calls[c].step = "stmt" /\ Stmt(c).op \in {"create", "drop"}
      /\ Set(c, [calls[c] EXCEPT !.step = step, !.built = calls[c].pc])
  BY DEF CallsTyped, BuildDDL, At
<1>2. step \in Working /\ StmtFits(step, Stmt(c))
  BY <1>1 DEF FirstStep, Working, StmtFits
<1> HIDE DEF step
<1>3. QED
  BY <1>1, <1>2, BuiltTyped, SetTyped DEF Stmt

LEMMA QueryTyped ==
  ASSUME CallsTyped, NEW c \in Conns, Query(c) \/ BeginCommit(c)
  PROVE  CallsTyped'
<1> DEFINE call == [calls[c] EXCEPT !.built = calls[c].pc]
<1>1. IsCall(calls[c]) /\ calls[c].step = "stmt" /\ calls[c].pc \in 1..Len(calls[c].script)
  BY AtWork DEF CallsTyped, Query, BeginCommit, At
<1>2. \/ Fail(c) \/ Set(c, Done(call)) \/ Set(c, Failed(call))
  BY DEF Query, BeginCommit
<1>3. HasFields(call) /\ call.pc = calls[c].pc /\ call.script = calls[c].script
      /\ call.built = call.pc
  BY <1>1, BuiltTyped DEF IsCall, HasFields, CallFields
<1> HIDE DEF call
<1>4. IsCall(Done(call)) /\ IsCall(Failed(call))
  BY <1>1, <1>3, DoneTyped, FailedTyped
<1>5. QED
  BY <1>2, <1>4, SetTyped, FailTyped

(* The steps that send one SQL statement go on to the next step.           *)
LEMMA WorkTyped ==
  ASSUME CallsTyped, NEW c \in Conns,
         DropOld(c) \/ Create(c) \/ DropObject(c) \/ ReadSpec(c)
  PROVE  CallsTyped'
<1> USE DEF At
<1>1. calls[c].step \in Working
  BY DEF DropOld, Create, DropObject, ReadSpec, Working
<1>2. IsCall(calls[c]) /\ StmtFits(calls[c].step, Stmt(c)) /\ HasFields(calls[c])
  BY <1>1, AtWork DEF IsCall
<1>3. ASSUME NEW step \in Working, Goto(c, step), StmtFits(step, Stmt(c)) PROVE CallsTyped'
  BY <1>1, <1>2, <1>3, GotoTyped, SetTyped DEF Goto, Stmt
<1>4. CASE Fail(c)
  BY <1>4, FailTyped
<1>5. CASE DropOld(c) /\ Goto(c, "create")
  BY <1>2, <1>3, <1>5 DEF DropOld, StmtFits, Working
<1>6. CASE Create(c) /\ Goto(c, "register")
  BY <1>2, <1>3, <1>6 DEF Create, StmtFits, Working
<1>7. CASE DropObject(c) /\ Goto(c, "read")
  BY <1>2, <1>3, <1>7 DEF DropObject, StmtFits, Working
<1>8. CASE ReadSpec(c)
  <2> DEFINE name == StmtName(Stmt(c))
             seen == IF name \in DOMAIN cat.tables.map THEN cat.tables.map[name] ELSE NoSpec
             on   == [calls[c] EXCEPT !.step = "unregister"]
             new  == [calls[c] EXCEPT !.step = "unregister", !.seen = seen]
  <2>1. Set(c, new)
    BY <1>8 DEF ReadSpec
  <2>2. IsCall(on)
    BY <1>1, <1>2, <1>8, GotoTyped DEF ReadSpec, StmtFits, Working, Stmt
  <2>3. DOMAIN new = CallFields
        /\ \A f \in {"step", "script", "mode", "n", "pc", "built"} : new[f] = on[f]
    BY <1>2 DEF HasFields, CallFields
  <2> HIDE DEF new, on
  <2>4. QED
    BY <2>1, <2>2, <2>3, SameControl, SetTyped
<1>9. QED
  BY <1>4, <1>5, <1>6, <1>7, <1>8 DEF DropOld, Create, DropObject, Refused, Faulty

LEMMA NoteTyped ==
  ASSUME NEW call, HasFields(call), call.pc \in 1..Len(call.script), call.built = call.pc
  PROVE  /\ \A spec : IsCall(NoteAdded(call, spec))
         /\ \A stmt : IsCall(NoteDeleted(call, stmt))
<1> DEFINE Same(new) ==
               /\ DOMAIN new = CallFields
               /\ \A f \in {"step", "script", "mode", "n", "pc", "built"} : new[f] = call[f]
<1>1. ASSUME NEW new, Same(new) PROVE IsCall(Done(new)) /\ IsCall(Panicked(new))
  <2>1. /\ DOMAIN new = CallFields /\ new.step = call.step /\ new.script = call.script
        /\ new.mode = call.mode /\ new.n = call.n /\ new.pc = call.pc /\ new.built = call.built
    BY <1>1
  <2>2. HasFields(new)
    BY <2>1 DEF HasFields
  <2>3. QED
    BY <2>1, <2>2, DoneTyped, FailedTyped
<1>2. /\ Same(call)
      /\ \A funcMap : Same([call EXCEPT !.funcMap = funcMap])
      /\ \A f, funcMap : Same([call EXCEPT !.cc.functions = f, !.funcMap = funcMap])
      /\ \A t : Same([call EXCEPT !.cc.tables = t])
  BY DEF HasFields, CallFields
<1> HIDE DEF Same
<1>3. ASSUME NEW spec PROVE IsCall(NoteAdded(call, spec))
  BY <1>1, <1>2, Zenon DEF NoteAdded
<1>4. ASSUME NEW stmt PROVE IsCall(NoteDeleted(call, stmt))
  BY <1>1, <1>2, Zenon DEF NoteDeleted
<1>5. QED
  BY <1>3, <1>4

LEMMA NotesTyped ==
  ASSUME CallsTyped, NEW c \in Conns, Register(c) \/ Unregister(c)
  PROVE  CallsTyped'
<1>1. calls[c].step \in Working
  BY DEF Register, Unregister, At, Working
<1>2. /\ IsCall(calls[c]) /\ HasFields(calls[c])
      /\ calls[c].pc \in 1..Len(calls[c].script) /\ calls[c].built = calls[c].pc
  BY <1>1, AtWork DEF IsCall
<1>3. \/ Fail(c)
      \/ Set(c, NoteAdded(calls[c], Stmt(c).spec))
      \/ Set(c, NoteDeleted(calls[c], Stmt(c)))
  BY DEF Register, Unregister, Refused
<1>4. QED
  BY <1>2, <1>3, NoteTyped, SetTyped, FailTyped

LEMMA CleanupTyped ==
  ASSUME CallsTyped, NEW c \in Conns,
         \/ SkipCleanup(c) \/ CleanupView(c) \/ CleanupObject(c) \/ Forget(c)
         \/ EndCall(c) \/ CloseRows(c)
  PROVE  CallsTyped'
<1> DEFINE call == calls[c]
           forget == [call EXCEPT !.step = "forget"]
           idle == [call EXCEPT !.step = "idle"]
           lost == [call EXCEPT !.step = "idle", !.panicked = TRUE]
           close == [call EXCEPT !.step = "cleanup", !.pc = 1]
<1>1. IsCall(call) /\ HasFields(call)
  BY DEF CallsTyped, IsCall
<1>2. IsCall(idle) /\ IsCall(lost) /\ IsCall(close)
  <2>1. /\ DOMAIN idle = CallFields /\ idle.step = "idle" /\ idle.script = call.script
        /\ idle.mode = call.mode /\ idle.n = call.n /\ idle.pc = call.pc /\ idle.built = call.built
    BY <1>1 DEF HasFields, CallFields
  <2>2. DOMAIN lost = CallFields
        /\ \A f \in {"step", "script", "mode", "n", "pc", "built"} : lost[f] = idle[f]
    BY <1>1 DEF HasFields, CallFields
  <2>3. /\ DOMAIN close = CallFields /\ close.step = "cleanup" /\ close.script = call.script
        /\ close.mode = call.mode /\ close.n = call.n /\ close.pc = 1 /\ close.built = call.built
    BY <1>1 DEF HasFields, CallFields
  <2> HIDE DEF idle, lost, close, call
  <2>4. IsCall(idle)
    BY <1>1, <2>1 DEF IsCall, HasFields, Steps, Working, StmtFits
  <2>5. IsCall(close)
    BY <1>1, <2>3 DEF IsCall, HasFields, Steps, Working, StmtFits
  <2>6. QED
    BY <2>2, <2>4, <2>5, SameControl
<1>3. ASSUME \/ call.step = "forget"
             \/ Cleaning(c),
             NEW new, DOMAIN new = CallFields,
             \A f \in {"step", "script", "mode", "n", "pc", "built"} : new[f] = call[f]
      PROVE  IsCall(Cleaned(new)) /\ IsCall(CleanupFailed(new))
  <2>1. IsCall(new)
    BY <1>1, <1>3, SameControl
  <2>2. new.step = call.step /\ new.pc = call.pc /\ new.built = call.built
    BY <1>3
  <2>3. QED
    BY <1>3, <2>1, <2>2, CleanedTyped DEF Cleaning, At
<1>4. /\ DOMAIN call = CallFields
      /\ \A tables : LET new == [call EXCEPT !.cc.tables = tables]
                     IN  DOMAIN new = CallFields
                         /\ \A f \in {"step", "script", "mode", "n", "pc", "built"} : new[f] = call[f]
      /\ \A funcMap : LET new == [call EXCEPT !.funcMap = funcMap]
                      IN  DOMAIN new = CallFields
                          /\ \A f \in {"step", "script", "mode", "n", "pc", "built"} : new[f] = call[f]
  BY <1>1 DEF HasFields, CallFields
<1>5. ASSUME Cleaning(c), IsTempObject(Stmt(c)) PROVE IsCall(forget)
  <2>1. /\ DOMAIN forget = CallFields /\ forget.step = "forget" /\ forget.script = call.script
        /\ forget.mode = call.mode /\ forget.n = call.n /\ forget.pc = call.pc
        /\ forget.built = call.built
    BY <1>1 DEF HasFields, CallFields
  <2>2. call.pc \in 1..call.built /\ call.step = "cleanup"
        /\ StmtFits("forget", call.script[call.pc])
    BY <1>1, <1>5 DEF Cleaning, At, IsTempObject, StmtFits, Stmt, IsCall
  <2> HIDE DEF forget, call
  <2>3. QED
    BY <1>1, <2>1, <2>2 DEF IsCall, HasFields, Steps, Working
<1>6. CASE SkipCleanup(c)
  BY <1>3, <1>4, <1>6, SetTyped DEF SkipCleanup
<1>7. CASE CleanupView(c)
  BY <1>2, <1>3, <1>4, <1>7, SetTyped DEF CleanupView
<1>8. CASE CleanupObject(c)
  BY <1>3, <1>4, <1>5, <1>8, SetTyped DEF CleanupObject, Goto
<1>9. CASE Forget(c)
  BY <1>3, <1>4, <1>9, SetTyped DEF Forget, At
<1>10. CASE EndCall(c) \/ CloseRows(c)
  BY <1>2, <1>10, SetTyped DEF EndCall, CloseRows, Goto
<1>11. QED
  BY <1>6, <1>7, <1>8, <1>9, <1>10

LEMMA NoCallTyped ==
  ASSUME NEW n \in 0..MaxCalls
  PROVE  IsCall(NoCall(n))
<1> DEFINE call == NoCall(n)
<1>1. /\ DOMAIN call = CallFields /\ call.step = "idle" /\ call.script = << >>
      /\ call.mode = "exec" /\ call.n = n /\ call.pc = 1 /\ call.built = 0
  BY DEF NoCall, NewCall, CallFields
<1> HIDE DEF call
<1>2. << >> \in Seq(Statements) /\ Len(<< >>) = 0
  OBVIOUS
<1>3. IsCall(call)
  BY <1>1, <1>2 DEF IsCall, HasFields, Steps, Working, StmtFits
<1>4. QED
  BY <1>3 DEF call

LEMMA RestartTyped ==
  ASSUME CallsTyped, \/ Restart \/ UNCHANGED calls
  PROVE  CallsTyped'
<1>1. CASE UNCHANGED calls
  BY <1>1 DEF CallsTyped
<1>2. CASE Restart
  <2>2. calls' = [c \in Conns |-> NoCall(calls[c].n)]
    BY <1>2 DEF Restart
  <2>3. \A c \in Conns : calls[c].n \in 0..MaxCalls
    BY DEF CallsTyped, IsCall, HasFields
  <2>4. QED
    BY NoCallTyped, <2>2, <2>3 DEF CallsTyped
<1>3. QED
  BY <1>1, <1>2

LEMMA NextCallsTyped == CallsTyped /\ [Next]_vars => CallsTyped'
<1> SUFFICES ASSUME CallsTyped, [Next]_vars PROVE CallsTyped'
  OBVIOUS
<1>1. ASSUME NEW c \in Conns, Step(c) PROVE CallsTyped'
  BY <1>1, SyncTyped, CollectTyped, BuildTyped, QueryTyped, WorkTyped, NotesTyped,
     CleanupTyped DEF Step, Sync, SyncFails
<1>2. ASSUME NEW c \in Conns, Begin(c) \/ CloseRows(c) PROVE CallsTyped'
  BY <1>2, BeginTyped, CleanupTyped
<1>3. QED
  BY <1>1, <1>2, RestartTyped DEF Next, vars

---------------------------------------------------------------------------
(* Sync loads the rows one after the other: as for AddAll, by the table    *)
(* that FoldLeft is defined by.                                            *)
LoadAll(base, list) == FoldLeft(LoadRow, base, list)

LoadsTo(table, base, list, indices) ==
    table = [s \in SUBSET indices |->
                IF s = {} THEN base ELSE LoadRow(table[s \ {Max(s)}], list[Max(s)])]

LEMMA LoadTable ==
  ASSUME NEW base, NEW seq, NEW m \in Nat
  PROVE  \E h : LoadsTo(h, base, seq, 1..m)
<1> DEFINE Entry(h, s) == IF s = {} THEN base ELSE LoadRow(h[s \ {Max(s)}], seq[Max(s)])
           Table(k, h) == LoadsTo(h, base, seq, 1..k)
           T == {k \in Nat : ~ \E h : Table(k, h)}
<1> USE DEF LoadsTo
<1>1. T # {} => FALSE
  <2> SUFFICES ASSUME T # {} PROVE FALSE
    OBVIOUS
  <2>1. PICK k \in T : \A j \in T : k <= j
    BY LeastNat
  <2>2. k # 0
    <3> DEFINE h == [s \in SUBSET (1..0) |-> base]
    <3>1. \A s \in SUBSET (1..0) : s = {}
      OBVIOUS
    <3>2. Table(0, h)
      BY <3>1
    <3>3. QED
      BY <2>1, <3>2
  <2>3. k \in Nat /\ k - 1 \in Nat
    BY <2>2
  <2>4. PICK h : Table(k - 1, h)
    <3>1. k - 1 \notin T
      <4> HIDE DEF T
      <4>1. QED
        BY <2>1, <2>3
    <3>2. QED
      BY <2>3, <3>1, Zenon
  <2> DEFINE g == [s \in SUBSET (1..k) |->
                     IF k \in s THEN LoadRow(h[s \ {k}], seq[k]) ELSE h[s]]
  <2>5. ASSUME NEW s \in SUBSET (1..k) PROVE g[s] = Entry(g, s)
    <3>1. CASE k \in s
      <4>1. Max(s) = k
        <5>1. s \in SUBSET Nat /\ \A x \in s : x <= k
          BY <2>3
        <5>2. QED
          BY <3>1, <5>1, MaxIs
      <4>2. s \ {k} \in SUBSET (1..k) /\ k \notin s \ {k} /\ s # {}
        BY <3>1
      <4>3. g[s \ {k}] = h[s \ {k}]
        BY <4>2
      <4>4. QED
        BY <3>1, <4>1, <4>2, <4>3
    <3>2. CASE k \notin s
      <4>1. s \in SUBSET (1..(k - 1)) /\ s \ {Max(s)} \in SUBSET (1..k) /\ k \notin s \ {Max(s)}
        <5>1. \A x \in s : x \in 1..(k - 1)
          BY <2>3, <3>2
        <5>2. QED
          BY <3>2, <5>1, Zenon
      <4>2. h[s] = Entry(h, s)
        BY <2>4, <4>1
      <4>3. g[s \ {Max(s)}] = h[s \ {Max(s)}] /\ g[s] = h[s]
        BY <3>2, <4>1
      <4>4. QED
        BY <4>2, <4>3
    <3>3. QED
      BY <3>1, <3>2
  <2>6. Table(k, g)
    BY <2>5
  <2>7. QED
    BY <2>1, <2>6
<1>2. QED
  BY <1>1

LEMMA LoadSteps ==
  ASSUME NEW S, NEW base, NEW list \in Seq(S)
  PROVE  \E h : /\ h[0] = base
                /\ \A k \in 1..Len(list) : h[k] = LoadRow(h[k - 1], list[k])
                /\ LoadAll(base, list) = h[Len(list)]
<1> DEFINE table == CHOOSE t : LoadsTo(t, base, list, DOMAIN list)
<1>1. LoadsTo(table, base, list, DOMAIN list)
  <2>1. DOMAIN list = 1..Len(list) /\ Len(list) \in Nat
    OBVIOUS
  <2>2. QED
    BY <2>1, LoadTable, Zenon
<1>2. LoadAll(base, list) = table[DOMAIN list]
  BY Zenon DEF LoadAll, FoldLeft, MapThenFoldSet, LoadsTo
<1> HIDE DEF table
<1> USE DEF LoadsTo
<1> DEFINE h == [k \in 0..Len(list) |-> table[1..k]]
<1>3. h[0] = base
  BY <1>1
<1>4. ASSUME NEW k \in 1..Len(list) PROVE h[k] = LoadRow(h[k - 1], list[k])
  <2>1. DOMAIN list = 1..Len(list) /\ Len(list) \in Nat
    OBVIOUS
  <2>2. /\ 1..k \in SUBSET DOMAIN list /\ k \in 1..k
        /\ k - 1 \in 0..Len(list) /\ k \in 0..Len(list)
    BY <2>1
  <2>3. (1..k) \ {k} = 1..(k - 1)
    BY <2>1
  <2>4. Max(1..k) = k
    BY MaxIs
  <2>5. table[1..k] = LoadRow(table[(1..k) \ {Max(1..k)}], list[Max(1..k)])
    BY <1>1, <2>2
  <2>6. QED
    BY <2>2, <2>3, <2>4, <2>5
<1>5. LoadAll(base, list) = h[Len(list)]
  BY <1>2
<1>6. QED
  BY <1>3, <1>4, <1>5

Fresh == {n \in DOMAIN rows : rows[n].fresh}
FunctionRow(n) == rows[n].kind = "function"

(* What a registry has become when the rows of some names are loaded.      *)
Loaded(reg, new, names) ==
    /\ DOMAIN new.map = DOMAIN reg.map \cup names
    /\ \A n \in DOMAIN new.map :
        new.map[n] = IF n \in names THEN rows[n].spec ELSE reg.map[n]

LoadedCatalog(new, names, T, F) ==
    /\ DOMAIN new = {"tables", "functions"}
    /\ Sound(new.tables, T) /\ Sound(new.functions, F)
    /\ Loaded(cat.tables, new.tables, {n \in names : ~ FunctionRow(n)})
    /\ Loaded(cat.functions, new.functions, {n \in names : FunctionRow(n)})

(* The rows hold specs of these two sets.                                  *)
RowsWithin(T, F) ==
    \A n \in DOMAIN rows : rows[n].spec \in IF FunctionRow(n) THEN F ELSE T

LEMMA RowsWithinSpecs ==
  ASSUME RowsTyped
  PROVE  RowsWithin(TableSpecs, FunctionSpecs)
<1> SUFFICES ASSUME NEW n \in DOMAIN rows
             PROVE  rows[n].spec \in IF FunctionRow(n) THEN FunctionSpecs ELSE TableSpecs
  BY DEF RowsWithin
<1>1. rows[n].spec \in RowSpecs /\ (FunctionRow(n) <=> rows[n].spec.kind = "function")
  BY DEF RowsTyped, IsRow, FunctionRow
<1>2. PICK s \in Created : s.spec = rows[n].spec
  BY <1>1 DEF RowSpecs
<1>3. QED
  BY <1>1, <1>2 DEF FunctionSpecs, TableSpecs, IsFunction

(* An injective sequence as long as a set has all its elements.            *)
LEMMA SetToSeqsCovers ==
  ASSUME NEW S, IsFiniteSet(S), NEW seq \in SetToSeqs(S)
  PROVE  /\ seq \in Seq(S) /\ Len(seq) = Cardinality(S) /\ DOMAIN seq = 1..Cardinality(S)
         /\ \A x \in S : \E i \in DOMAIN seq : seq[i] = x
<1> DEFINE m == Cardinality(S)
<1>1. m \in Nat
  BY FS_CardinalityType
<1> HIDE DEF m
<1>2. seq \in [1..m -> S] /\ \A i, j \in 1..m : i # j => seq[i] # seq[j]
  BY Zenon DEF SetToSeqs, m
<1>3. seq \in Injection(1..m, S)
  BY <1>2 DEF Injection, IsInjective
<1>4. IsFiniteSet(1..m) /\ Cardinality(1..m) = m
  <2>1. Cardinality(1..m) = IF 1 > m THEN 0 ELSE m - 1 + 1
    BY <1>1, FS_Interval
  <2>2. QED
    BY <1>1, <2>1, FS_Interval
<1>5. seq \in Surjection(1..m, S)
  BY <1>3, <1>4, FS_Injection DEF m
<1>6. \A x \in S : \E i \in 1..m : seq[i] = x
  BY <1>5 DEF Surjection
<1>7. seq \in Seq(S) /\ Len(seq) = m /\ DOMAIN seq = 1..m
  BY <1>1, <1>2
<1>8. QED
  BY <1>6, <1>7 DEF m

(* A row is loaded into the registry of its kind.                          *)
LEMMA LoadRowLoads ==
  ASSUME RowsTyped, NEW T, NEW F, RowsWithin(T, F), NEW new, NEW names,
         LoadedCatalog(new, names, T, F), NEW name \in DOMAIN rows
  PROVE  LoadedCatalog(LoadRow(new, name), names \cup {name}, T, F)
<1> DEFINE spec == rows[name].spec
           next == LoadRow(new, name)
<1>1. SpecName(spec) = name
  BY DEF RowsTyped, IsRow
<1>2. spec \in IF FunctionRow(name) THEN F ELSE T
  BY DEF RowsWithin
<1>3. CASE FunctionRow(name)
  <2> DEFINE reg == AddSpec(new.functions, spec)
  <2>1. DOMAIN next = {"tables", "functions"} /\ next.tables = new.tables
        /\ next.functions = reg
    BY <1>3 DEF LoadRow, AddFunctionSpec, FunctionRow, LoadedCatalog
  <2>2. /\ Sound(reg, F)
        /\ DOMAIN reg.map = DOMAIN new.functions.map \cup {name}
        /\ \A n \in DOMAIN reg.map :
              reg.map[n] = IF n = name THEN spec ELSE new.functions.map[n]
    BY <1>1, <1>2, <1>3, AddSpecMap DEF LoadedCatalog
  <2> HIDE DEF next, reg
  <2>3. {n \in names \cup {name} : ~ FunctionRow(n)} = {n \in names : ~ FunctionRow(n)}
        /\ {n \in names \cup {name} : FunctionRow(n)} = {n \in names : FunctionRow(n)} \cup {name}
    BY <1>3
  <2>4. Loaded(cat.functions, reg, {n \in names : FunctionRow(n)} \cup {name})
    BY <2>2 DEF LoadedCatalog, Loaded
  <2>5. QED
    BY <2>1, <2>2, <2>3, <2>4 DEF LoadedCatalog, next
<1>4. CASE ~ FunctionRow(name)
  <2> DEFINE reg == AddSpec(new.tables, spec)
  <2>1. DOMAIN next = {"tables", "functions"} /\ next.functions = new.functions
        /\ next.tables = reg
    BY <1>4 DEF LoadRow, AddTableSpec, FunctionRow, LoadedCatalog
  <2>2. /\ Sound(reg, T)
        /\ DOMAIN reg.map = DOMAIN new.tables.map \cup {name}
        /\ \A n \in DOMAIN reg.map :
              reg.map[n] = IF n = name THEN spec ELSE new.tables.map[n]
    BY <1>1, <1>2, <1>4, AddSpecMap DEF LoadedCatalog
  <2> HIDE DEF next, reg
  <2>3. {n \in names \cup {name} : FunctionRow(n)} = {n \in names : FunctionRow(n)}
        /\ {n \in names \cup {name} : ~ FunctionRow(n)} = {n \in names : ~ FunctionRow(n)} \cup {name}
    BY <1>4
  <2>4. Loaded(cat.tables, reg, {n \in names : ~ FunctionRow(n)} \cup {name})
    BY <2>2 DEF LoadedCatalog, Loaded
  <2>5. QED
    BY <2>1, <2>2, <2>3, <2>4 DEF LoadedCatalog, next
<1>5. QED
  BY <1>3, <1>4

(* Sync loads all fresh rows, in whatever order: no prefix of the order is *)
(* the first one whose rows are not all loaded.                            *)
LEMMA SyncLoads ==
  ASSUME RowsTyped, NEW T, NEW F, RowsWithin(T, F), DOMAIN cat = {"tables", "functions"},
         Sound(cat.tables, T), Sound(cat.functions, F), NEW order \in SetToSeqs(Fresh)
  PROVE  LoadedCatalog(FoldLeft(LoadRow, cat, order), Fresh, T, F)
<1>1. IsFiniteSet(Fresh) /\ Fresh \subseteq DOMAIN rows
  BY FS_Subset DEF Fresh, RowsTyped
<1>2. order \in Seq(Fresh) /\ \A n \in Fresh : \E i \in DOMAIN order : order[i] = n
  BY <1>1, SetToSeqsCovers
<1>3. PICK h : /\ h[0] = cat
               /\ \A k \in 1..Len(order) : h[k] = LoadRow(h[k - 1], order[k])
               /\ LoadAll(cat, order) = h[Len(order)]
  BY <1>2, LoadSteps
<1> DEFINE part(k) == {order[i] : i \in 1..k}
           Missed == {k \in 0..Len(order) : ~ LoadedCatalog(h[k], part(k), T, F)}
<1>4. Missed = {}
  <2> SUFFICES ASSUME Missed # {} PROVE FALSE
    OBVIOUS
  <2>1. PICK k \in Missed : \A j \in Missed : k <= j
    <3>1. Missed \in SUBSET Nat
      BY <1>2
    <3>2. QED
      BY <3>1, LeastNat
  <2>2. k # 0
    <3>1. part(0) = {}
      OBVIOUS
    <3>2. LoadedCatalog(cat, {}, T, F)
      BY DEF LoadedCatalog, Loaded
    <3>3. QED
      BY <1>3, <3>1, <3>2
  <2>3. k \in 1..Len(order) /\ k - 1 \in 0..Len(order) /\ k \in Nat
    BY <1>2, <2>2
  <2>4. LoadedCatalog(h[k - 1], part(k - 1), T, F)
    <3>1. k - 1 \notin Missed
      <4> HIDE DEF Missed
      <4>1. QED
        BY <2>1, <2>3
    <3>2. QED
      BY <2>3, <3>1
  <2>5. part(k) = part(k - 1) \cup {order[k]} /\ order[k] \in DOMAIN rows
    <3>1. 1..k = (1..(k - 1)) \cup {k}
      BY <2>3
    <3>2. part(k) = part(k - 1) \cup {order[k]}
      BY <3>1
    <3>3. order[k] \in DOMAIN rows
      BY <1>1, <1>2, <2>3
    <3>4. QED
      BY <3>2, <3>3
  <2>6. LoadedCatalog(h[k], part(k), T, F)
    BY <1>3, <2>3, <2>4, <2>5, LoadRowLoads
  <2>7. QED
    BY <2>6
<1>5. LoadedCatalog(h[Len(order)], part(Len(order)), T, F)
  <2>1. Len(order) \in 0..Len(order)
    BY <1>2
  <2> HIDE DEF part
  <2>2. QED
    BY <1>4, <2>1
<1>6. part(Len(order)) = Fresh
  <2>1. DOMAIN order = 1..Len(order) /\ \A i \in DOMAIN order : order[i] \in Fresh
    BY <1>2
  <2>2. QED
    BY <1>2, <2>1
<1>7. FoldLeft(LoadRow, cat, order) = LoadAll(cat, order)
  BY Zenon DEF LoadAll
<1>8. LoadedCatalog(LoadAll(cat, order), Fresh, T, F)
  BY <1>3, <1>5, <1>6
<1>9. QED
  BY <1>7, <1>8, Zenon

---------------------------------------------------------------------------
(* What the sections under c.mu make of the catalog.                       *)
LEMMA CatalogWithAdds ==
  ASSUME NEW T, NEW F, DOMAIN cat = {"tables", "functions"},
         Sound(cat.tables, T), Sound(cat.functions, F),
         NEW s, s.spec \in IF IsFunction(s) THEN F ELSE T
  PROVE  LET new  == CatalogWith(s.spec)
             name == StmtName(s)
         IN  /\ DOMAIN new = {"tables", "functions"}
             /\ Sound(new.tables, T) /\ Sound(new.functions, F)
             /\ IF IsFunction(s)
                THEN /\ new.tables = cat.tables
                     /\ DOMAIN new.functions.map = DOMAIN cat.functions.map \cup {name}
                     /\ \A n \in DOMAIN new.functions.map :
                            new.functions.map[n] =
                                IF n = name THEN s.spec ELSE cat.functions.map[n]
                ELSE /\ new.functions = cat.functions
                     /\ DOMAIN new.tables.map = DOMAIN cat.tables.map \cup {name}
                     /\ \A n \in DOMAIN new.tables.map :
                            new.tables.map[n] =
                                IF n = name THEN s.spec ELSE cat.tables.map[n]
<1> DEFINE new  == CatalogWith(s.spec)
           name == StmtName(s)
<1>1. CASE IsFunction(s)
  <2> DEFINE reg == AddSpec(cat.functions, s.spec)
  <2>1. DOMAIN new = {"tables", "functions"} /\ new.tables = cat.tables /\ new.functions = reg
    BY <1>1 DEF CatalogWith, AddFunctionSpec, IsFunction
  <2>2. /\ Sound(reg, F)
        /\ DOMAIN reg.map = DOMAIN cat.functions.map \cup {name}
        /\ \A n \in DOMAIN reg.map :
              reg.map[n] = IF n = name THEN s.spec ELSE cat.functions.map[n]
    BY <1>1, AddSpecMap DEF StmtName
  <2> HIDE DEF new, reg
  <2>3. QED
    BY <1>1, <2>1, <2>2 DEF new
<1>2. CASE ~ IsFunction(s)
  <2> DEFINE reg == AddSpec(cat.tables, s.spec)
  <2>1. DOMAIN new = {"tables", "functions"} /\ new.functions = cat.functions /\ new.tables = reg
    BY <1>2 DEF CatalogWith, AddTableSpec, IsFunction
  <2>2. /\ Sound(reg, T)
        /\ DOMAIN reg.map = DOMAIN cat.tables.map \cup {name}
        /\ \A n \in DOMAIN reg.map :
              reg.map[n] = IF n = name THEN s.spec ELSE cat.tables.map[n]
    BY <1>2, AddSpecMap DEF StmtName
  <2> HIDE DEF new, reg
  <2>3. QED
    BY <1>2, <2>1, <2>2 DEF new
<1>3. QED
  BY <1>1, <1>2

LEMMA CatalogWithoutRemoves ==
  ASSUME NEW T, NEW F, DOMAIN cat = {"tables", "functions"},
         Sound(cat.tables, T), Sound(cat.functions, F), NEW s, Known(s)
  PROVE  LET new  == CatalogWithout(s)
             name == StmtName(s)
         IN  /\ DOMAIN new = {"tables", "functions"}
             /\ Sound(new.tables, T) /\ Sound(new.functions, F)
             /\ DOMAIN new.tables.map =
                    DOMAIN cat.tables.map \ IF IsFunction(s) THEN {} ELSE {name}
             /\ DOMAIN new.functions.map =
                    DOMAIN cat.functions.map \ IF IsFunction(s) THEN {name} ELSE {}
<1> DEFINE new  == CatalogWithout(s)
           name == StmtName(s)
           tables == Rebuild(Without(cat.tables.list, SpecName(cat.tables.map[name])))
           functions == Rebuild(Without(cat.functions.list, SpecName(cat.functions.map[name])))
<1>1. CASE IsFunction(s)
  <2>1. DOMAIN new = {"tables", "functions"} /\ new.tables = Rebuild(cat.tables.list)
        /\ new.functions = functions /\ name \in DOMAIN cat.functions.map
    BY <1>1 DEF CatalogWithout, DeleteFunctionSpecByName, Known
  <2>2. Sound(new.tables, T) /\ DOMAIN new.tables.map = DOMAIN cat.tables.map
    BY <2>1, RebuildMap
  <2>3. Sound(functions, F)
        /\ DOMAIN functions.map = DOMAIN cat.functions.map \ {name}
    BY <2>1, RebuildMap
  <2> HIDE DEF new, functions
  <2>4. QED
    BY <1>1, <2>1, <2>2, <2>3 DEF new
<1>2. CASE ~ IsFunction(s)
  <2>1. DOMAIN new = {"tables", "functions"} /\ new.functions = Rebuild(cat.functions.list)
        /\ new.tables = tables /\ name \in DOMAIN cat.tables.map
    BY <1>2 DEF CatalogWithout, DeleteTableSpecByName, Known
  <2>2. Sound(new.functions, F)
        /\ DOMAIN new.functions.map = DOMAIN cat.functions.map
    BY <2>1, RebuildMap
  <2>3. Sound(tables, T)
        /\ DOMAIN tables.map = DOMAIN cat.tables.map \ {name}
    BY <2>1, RebuildMap
  <2> HIDE DEF new, tables
  <2>4. QED
    BY <1>2, <2>1, <2>2, <2>3 DEF new
<1>3. QED
  BY <1>1, <1>2

(* The statement of a CREATE step is one that creates, and so on: what the *)
(* lemmas about the catalog ask of a statement.                            *)
LEMMA RegisterStmt ==
  ASSUME CallsTyped, NEW c \in Conns, calls[c].step \in {"dropOld", "create", "register"}
  PROVE  Stmt(c) \in Created
BY AtWork DEF Created, StmtFits, Working

LEMMA CleaningStmt ==
  ASSUME CallsTyped, NEW c \in Conns, Cleaning(c) \/ At(c, "forget")
  PROVE  /\ Stmt(c) \in Statements /\ calls[c].pc \in 1..Len(calls[c].script)
         /\ Stmt(c).spec.temp => Stmt(c) \in Created
<1>1. IsCall(calls[c])
  BY DEF CallsTyped
<1>2. calls[c].pc \in 1..Len(calls[c].script)
  BY <1>1 DEF IsCall, HasFields, Cleaning, At
<1>3. Stmt(c) \in Statements
  BY <1>1, <1>2, StmtType DEF Stmt
<1>4. QED
  BY <1>2, <1>3, StatementsWellFormed DEF Created

(* Which steps change the catalog, and how.                                *)
LEMMA CatalogChanges ==
  ASSUME CallsTyped, [Next]_vars
  PROVE  \/ UNCHANGED cat
         \/ Restart
         \/ \E c \in Conns :
              \/ Sync(c)
              \/ Register(c) /\ Stmt(c) \in Created /\ cat' = CatalogWith(Stmt(c).spec)
              \/ /\ Unregister(c) \/ Forget(c)
                 /\ Stmt(c) \in Statements /\ Known(Stmt(c)) /\ cat' = CatalogWithout(Stmt(c))
<1> DEFINE Changes(c) ==
        \/ Sync(c)
        \/ Register(c) /\ Stmt(c) \in Created /\ cat' = CatalogWith(Stmt(c).spec)
        \/ /\ Unregister(c) \/ Forget(c)
           /\ Stmt(c) \in Statements /\ Known(Stmt(c)) /\ cat' = CatalogWithout(Stmt(c))
<1>1. ASSUME NEW c \in Conns, Step(c) PROVE UNCHANGED cat \/ Changes(c)
  <2>1. CASE Register(c)
    <3>1. Stmt(c) \in Created
      BY <2>1, RegisterStmt DEF Register, At
    <3>2. QED
      BY <2>1, <3>1 DEF Register
  <2>2. CASE Unregister(c)
    <3>1. Stmt(c) \in Statements
      BY <2>2, AtWork DEF Unregister, At, Working
    <3>2. QED
      BY <2>2, <3>1 DEF Unregister, Refused
  <2>3. CASE Forget(c)
    <3>1. Stmt(c) \in Statements
      BY <2>3, CleaningStmt DEF Forget
    <3>2. QED
      BY <2>3, <3>1 DEF Forget
  <2>4. CASE \/ SyncFails(c) \/ CollectFunctions(c) \/ BuildDDL(c) \/ Query(c) \/ BeginCommit(c)
             \/ DropOld(c) \/ Create(c) \/ DropObject(c) \/ ReadSpec(c)
             \/ SkipCleanup(c) \/ CleanupView(c) \/ CleanupObject(c) \/ EndCall(c)
    BY <2>4 DEF SyncFails, CollectFunctions, BuildDDL, Query, BeginCommit, DropOld, Create,
                DropObject, ReadSpec, SkipCleanup, CleanupView, CleanupObject, EndCall,
                Refused, Faulty
  <2>5. QED
    BY <1>1, <2>1, <2>2, <2>3, <2>4 DEF Step
<1>2. ASSUME NEW c \in Conns, Begin(c) \/ CloseRows(c) PROVE UNCHANGED cat
  BY <1>2 DEF Begin, CloseRows
<1> HIDE DEF Changes
<1>3. \/ UNCHANGED cat
      \/ Restart
      \/ \E c \in Conns : Changes(c)
  BY <1>1, <1>2 DEF Next, vars
<1>4. QED
  BY <1>3 DEF Changes

(* The specs that the sections under c.mu are given.                       *)
LEMMA CreatedSpec ==
  ASSUME NEW s \in Created
  PROVE  s.spec \in IF IsFunction(s) THEN FunctionSpecs ELSE TableSpecs
BY DEF FunctionSpecs, TableSpecs

LEMMA MissingFunctionSpecs == MissingFunctions \in Seq(FunctionSpecs)
BY MissingFunctionsType DEF FunctionSpecs

LEMMA RegistriesKept ==
  ASSUME CallsTyped, RegistriesSound, RowsTyped, [Next]_vars
  PROVE  RegistriesSound'
<1>1. CASE UNCHANGED cat
  BY <1>1 DEF RegistriesSound
<1>2. CASE Restart
  <2>1. cat' = NewCatalog(MissingFunctions)
    BY <1>2 DEF Restart
  <2>2. QED
    BY <2>1, MissingFunctionSpecs, MissingFunctionsType, NewCatalogSound DEF RegistriesSound
<1>3. ASSUME NEW c \in Conns, Sync(c) PROVE RegistriesSound'
  <2>1. PICK order \in SetToSeqs(Fresh) : cat' = FoldLeft(LoadRow, cat, order)
    BY <1>3 DEF Sync, Fresh
  <2>2. LoadedCatalog(cat', Fresh, TableSpecs, FunctionSpecs)
    BY <2>1, SyncLoads, RowsWithinSpecs DEF RegistriesSound
  <2>3. QED
    BY <2>2 DEF LoadedCatalog, RegistriesSound
<1>4. ASSUME NEW s \in Created, cat' = CatalogWith(s.spec) PROVE RegistriesSound'
  BY <1>4, CreatedSpec, CatalogWithAdds DEF RegistriesSound
<1>5. ASSUME NEW s \in Statements, Known(s), cat' = CatalogWithout(s) PROVE RegistriesSound'
  BY <1>5, CatalogWithoutRemoves DEF RegistriesSound
<1>6. QED
  BY <1>1, <1>2, <1>3, <1>4, <1>5, CatalogChanges

---------------------------------------------------------------------------
(* Which steps change the rows, and how.                                   *)
LEMMA RowChanges ==
  ASSUME CallsTyped, [Next]_vars
  PROVE  \/ UNCHANGED rows
         \/ rows' = [n \in DOMAIN rows |-> [rows[n] EXCEPT !.fresh = FALSE]]
         \/ rows' = [n \in DOMAIN rows |-> [rows[n] EXCEPT !.fresh = TRUE]]
         \/ \E s \in Created : ~ s.spec.temp /\ rows' = SaveSpec(s.spec)
         \/ \E name : rows' = DeleteRow(name)
<1> DEFINE Saves == \E s \in Created : ~ s.spec.temp /\ rows' = SaveSpec(s.spec)
           Deletes == \E name : rows' = DeleteRow(name)
           Loads == rows' = [n \in DOMAIN rows |-> [rows[n] EXCEPT !.fresh = FALSE]]
<1>1. ASSUME NEW c \in Conns, Step(c) PROVE UNCHANGED rows \/ Loads \/ Saves \/ Deletes
  <2>1. CASE Register(c)
    <3>1. Stmt(c) \in Created
      BY <2>1, RegisterStmt DEF Register, At
    <3>2. QED
      BY <2>1, <3>1 DEF Register, NeedsRow
  <2>2. CASE Unregister(c) \/ Forget(c)
    BY <2>2 DEF Unregister, Forget, Refused
  <2>3. CASE Sync(c)
    BY <2>3 DEF Sync
  <2>4. CASE \/ SyncFails(c) \/ CollectFunctions(c) \/ BuildDDL(c) \/ Query(c) \/ BeginCommit(c)
             \/ DropOld(c) \/ Create(c) \/ DropObject(c) \/ ReadSpec(c)
             \/ SkipCleanup(c) \/ CleanupView(c) \/ CleanupObject(c) \/ EndCall(c)
    BY <2>4 DEF SyncFails, CollectFunctions, BuildDDL, Query, BeginCommit, DropOld, Create,
                DropObject, ReadSpec, SkipCleanup, CleanupView, CleanupObject, EndCall,
                Refused, Faulty
  <2>5. QED
    BY <1>1, <2>1, <2>2, <2>3, <2>4 DEF Step
<1>2. ASSUME NEW c \in Conns, Begin(c) \/ CloseRows(c) PROVE UNCHANGED rows
  BY <1>2 DEF Begin, CloseRows
<1>3. ASSUME Restart
      PROVE  rows' = [n \in DOMAIN rows |-> [rows[n] EXCEPT !.fresh = TRUE]]
  BY <1>3 DEF Restart
<1> HIDE DEF Saves, Deletes, Loads
<1>4. \/ UNCHANGED rows \/ Loads \/ Saves \/ Deletes
      \/ rows' = [n \in DOMAIN rows |-> [rows[n] EXCEPT !.fresh = TRUE]]
  BY <1>1, <1>2, <1>3 DEF Next, vars
<1>5. QED
  BY <1>4 DEF Saves, Deletes, Loads

(* Two statements that create specs of one name create specs of one kind,  *)
(* as far as tables and functions go.                                      *)
LEMMA SameNameSameRegistry ==
  ASSUME NEW s \in Created, NEW t \in Created, StmtName(s) = StmtName(t)
  PROVE  s.spec.kind = "function" <=> t.spec.kind = "function"
BY KindsHaveTheirNames DEF Created, IsFunction

LEMMA RowsKept ==
  ASSUME CallsTyped, RowsTyped, [Next]_vars
  PROVE  RowsTyped'
<1>1. CASE UNCHANGED rows
  BY <1>1 DEF RowsTyped
<1>2. ASSUME NEW fresh \in BOOLEAN,
             rows' = [n \in DOMAIN rows |-> [rows[n] EXCEPT !.fresh = fresh]]
      PROVE  RowsTyped'
  <2>1. ASSUME NEW n \in DOMAIN rows PROVE IsRow(n, [rows[n] EXCEPT !.fresh = fresh])
    BY DEF RowsTyped, IsRow
  <2>2. QED
    BY <1>2, <2>1 DEF RowsTyped
<1>3. ASSUME NEW s \in Created, ~ s.spec.temp, rows' = SaveSpec(s.spec) PROVE RowsTyped'
  <2> DEFINE name == SpecName(s.spec)
             kind == IF name \in DOMAIN rows THEN rows[name].kind ELSE s.spec.kind
             row  == [kind |-> kind, spec |-> s.spec, fresh |-> TRUE]
  <2>1. rows' = [n \in DOMAIN rows \cup {name} |-> IF n = name THEN row ELSE rows[n]]
    BY <1>3, Zenon DEF SaveSpec, Put
  <2>2. s.spec \in RowSpecs /\ s.spec.kind \in {"table", "view", "function"}
    BY <1>3, StatementsWellFormed DEF RowSpecs, Created
  <2>3. kind \in {"table", "view", "function"} /\ (kind = "function" <=> s.spec.kind = "function")
    <3>1. CASE name \in DOMAIN rows
      <4>1. IsRow(name, rows[name])
        BY <3>1 DEF RowsTyped
      <4>2. PICK t \in Created : t.spec = rows[name].spec
        BY <4>1 DEF IsRow, RowSpecs
      <4>3. t.spec.kind = "function" <=> s.spec.kind = "function"
        BY <4>1, <4>2, SameNameSameRegistry DEF IsRow, StmtName
      <4>4. QED
        BY <3>1, <4>1, <4>2, <4>3 DEF IsRow
    <3>2. QED
      BY <2>2, <3>1
  <2>4. IsRow(name, row)
    BY <2>2, <2>3 DEF IsRow
  <2>5. IsFiniteSet(DOMAIN rows \cup {name})
    BY FS_AddElement DEF RowsTyped
  <2> HIDE DEF row, name
  <2>6. QED
    BY <2>1, <2>4, <2>5 DEF RowsTyped
<1>4. ASSUME NEW name, rows' = DeleteRow(name) PROVE RowsTyped'
  <2>1. rows' = [n \in DOMAIN rows \ {name} |-> rows[n]]
    BY <1>4 DEF DeleteRow, Minus
  <2>2. IsFiniteSet(DOMAIN rows \ {name})
    BY FS_Subset DEF RowsTyped
  <2>3. QED
    BY <2>1, <2>2 DEF RowsTyped
<1>5. QED
  BY <1>1, <1>2, <1>3, <1>4, RowChanges

---------------------------------------------------------------------------
(* The objects of SQLite are tables and views: a CREATE FUNCTION goes to   *)
(* the catalog alone.                                                      *)
LEMMA ObjectsKept ==
  ASSUME CallsTyped, ObjectsTyped, [Next]_vars
  PROVE  ObjectsTyped'
<1>1. CASE UNCHANGED objs
  BY <1>1 DEF ObjectsTyped
<1>2. ASSUME NEW name, objs' = Minus(objs, name) PROVE ObjectsTyped'
  BY <1>2 DEF ObjectsTyped, Minus
<1>3. ASSUME NEW c \in Conns, Create(c) PROVE ObjectsTyped'
  <2>1. Stmt(c).spec.kind \in {"table", "view"} \/ UNCHANGED objs
    BY <1>3, AtWork DEF Create, At, Working, StmtFits, IsFunction
  <2>2. objs' = CreateObject(Stmt(c)) \/ UNCHANGED objs
    BY <1>3 DEF Create, Refused, Faulty
  <2>3. QED
    BY <1>1, <2>1, <2>2 DEF ObjectsTyped, CreateObject, WithNew
<1>4. ASSUME NEW c \in Conns, Step(c)
      PROVE  \/ UNCHANGED objs \/ Create(c)
             \/ \E name : objs' = Minus(objs, name)
  BY <1>4 DEF Step, Sync, SyncFails, CollectFunctions, BuildDDL, Query, BeginCommit, DropOld,
              Register, DropObject, ReadSpec, Unregister, SkipCleanup, CleanupView,
              CleanupObject, Forget, EndCall, Refused, Faulty
<1>5. ASSUME NEW c \in Conns, Begin(c) \/ CloseRows(c) PROVE UNCHANGED objs
  BY <1>5 DEF Begin, CloseRows
<1>6. Restart => UNCHANGED objs
  BY DEF Restart
<1>7. QED
  BY <1>1, <1>2, <1>3, <1>4, <1>5, <1>6 DEF Next, vars

LEMMA CountersStep ==
  ASSUME [Next]_vars
  PROVE  \/ (faults' = faults \/ Fault) /\ UNCHANGED restarts
         \/ UNCHANGED faults /\ restarts < MaxRestarts /\ restarts' = restarts + 1
<1> DEFINE Counts == (faults' = faults \/ Fault) /\ UNCHANGED restarts
<1>1. ASSUME NEW c \in Conns, Step(c) PROVE Counts
  <2>1. CASE \/ Sync(c) \/ SyncFails(c) \/ CollectFunctions(c) \/ BuildDDL(c) \/ Query(c)
             \/ BeginCommit(c)
    BY <2>1 DEF Sync, SyncFails, CollectFunctions, BuildDDL, Query, BeginCommit
  <2>2. CASE DropOld(c) \/ Create(c) \/ Register(c) \/ DropObject(c) \/ ReadSpec(c) \/ Unregister(c)
    BY <2>2 DEF DropOld, Create, Register, DropObject, ReadSpec, Unregister, Refused, Faulty
  <2>3. CASE \/ SkipCleanup(c) \/ CleanupView(c) \/ CleanupObject(c) \/ Forget(c) \/ EndCall(c)
    BY <2>3 DEF SkipCleanup, CleanupView, CleanupObject, Forget, EndCall
  <2>4. QED
    BY <1>1, <2>1, <2>2, <2>3 DEF Step
<1>2. ASSUME NEW c \in Conns, Begin(c) \/ CloseRows(c) PROVE Counts
  BY <1>2 DEF Begin, CloseRows
<1>3. Restart => UNCHANGED faults /\ restarts < MaxRestarts /\ restarts' = restarts + 1
  BY DEF Restart
<1>4. QED
  BY <1>1, <1>2, <1>3 DEF Next, vars

LEMMA CountersKept ==
  ASSUME CountersTyped, [Next]_vars
  PROVE  CountersTyped'
BY CountersStep, BoundsType DEF CountersTyped, Fault

---------------------------------------------------------------------------
LEMMA InitTyped == Init => IInv
<1> SUFFICES ASSUME Init PROVE IInv
  OBVIOUS
<1>1. CallsTyped
  <2>1. calls = [c \in Conns |-> NoCall(0)] /\ 0 \in 0..MaxCalls
    BY BoundsType DEF Init
  <2>2. IsCall(NoCall(0))
    BY <2>1, NoCallTyped
  <2>3. QED
    BY <2>1, <2>2 DEF CallsTyped
<1>2. RegistriesSound
  <2>1. cat = NewCatalog(MissingFunctions)
    BY DEF Init
  <2>2. QED
    BY <2>1, MissingFunctionSpecs, MissingFunctionsType, NewCatalogSound DEF RegistriesSound
<1>3. DOMAIN objs = {} /\ DOMAIN rows = {}
  BY DEF Init
<1>4. ObjectsTyped /\ RowsTyped
  BY <1>3, FS_EmptySet DEF ObjectsTyped, RowsTyped
<1>5. CountersTyped
  BY BoundsType DEF Init, CountersTyped
<1>6. QED
  BY <1>1, <1>2, <1>4, <1>5 DEF IInv

LEMMA NextTyped == IInv /\ [Next]_vars => IInv'
BY NextCallsTyped, RegistriesKept, ObjectsKept, RowsKept, CountersKept DEF IInv

LEMMA InvariantTyped == IInv => TypeOK
<1> SUFFICES ASSUME IInv PROVE TypeOK
  OBVIOUS
<1>1. \A c \in Conns :
        /\ calls[c].step \in Steps /\ calls[c].n \in 0..MaxCalls
        /\ calls[c].built \in 0..Len(calls[c].script)
  BY DEF IInv, CallsTyped, IsCall, HasFields
<1>2. \A n \in DOMAIN rows :
        /\ rows[n].kind \in {"table", "view", "function"} /\ rows[n].fresh \in BOOLEAN
        /\ SpecName(rows[n].spec) = n /\ ~ rows[n].spec.temp
  BY DEF IInv, RowsTyped, IsRow, RowSpecs
<1>3. QED
  BY <1>1, <1>2 DEF IInv, TypeOK, RegistriesSound, ObjectsTyped, CountersTyped

LEMMA AlwaysTyped == Spec => []IInv
BY InitTyped, NextTyped, PTL DEF Spec

(* A call is always at one of its steps and within its script, objects are *)
(* tables or views, and a row is filed under the name of its spec, which   *)
(* is not temporary (stmt_action.go:92-153, catalog.go:260-357): whatever  *)
(* the scripts, with any number of connections, faults and restarts.       *)
THEOREM TypeCorrect == Spec => []TypeOK
BY AlwaysTyped, InvariantTyped, PTL

---------------------------------------------------------------------------
(* The rows of zetasqlite_catalog.  Deleting from the catalog rebuilds it  *)
(* from its lists, which may bring back an older spec of a name: whether   *)
(* an object is temporary must not depend on which one.                    *)
TempNamesApart == NamesCreated(TRUE) \cap NamesCreated(FALSE) = {}

(* A function every catalog has is left out of PermanentNames.             *)
NoMissingFunctionCreated ==
    \A s \in Created :
        IsFunction(s) /\ ~ s.spec.temp => StmtName(s) \notin Names(MissingFunctions)

(* RowsMatchCatalog, and only a restart makes rows that memory does not    *)
(* know.                                                                   *)
RowsAgree ==
    /\ PermanentNames \subseteq DOMAIN rows
    /\ \A n \in DOMAIN rows : n \in PermanentNames \/ (rows[n].fresh /\ restarts > 0)

(* The permanent names of a catalog with these domains.                    *)
Permanent(tables, functions) ==
    (tables \cup (functions \ Names(MissingFunctions))) \cap NamesCreated(FALSE)

LEMMA PermanentAre ==
  ASSUME TempNamesApart, NEW tables, NEW functions,
         Sound(tables, TableSpecs), Sound(functions, FunctionSpecs)
  PROVE  {n \in DOMAIN tables.map : ~ tables.map[n].temp} \cup
         {n \in DOMAIN functions.map \ Names(MissingFunctions) : ~ functions.map[n].temp}
            = Permanent(DOMAIN tables.map, DOMAIN functions.map)
<1>1. ASSUME NEW s \in Created PROVE ~ s.spec.temp <=> StmtName(s) \in NamesCreated(FALSE)
  <2>1. s.spec.temp \in BOOLEAN /\ s \in Statements /\ s.op = "create"
    BY StatementsWellFormed DEF Created
  <2>2. CASE s.spec.temp = TRUE
    <3>1. StmtName(s) \in NamesCreated(TRUE)
      BY <2>1, <2>2 DEF NamesCreated
    <3>2. QED
      BY <2>2, <3>1 DEF TempNamesApart
  <2>3. CASE s.spec.temp = FALSE
    BY <2>1, <2>3 DEF NamesCreated
  <2>4. QED
    BY <2>1, <2>2, <2>3
<1>2. ASSUME NEW n \in DOMAIN tables.map
      PROVE  ~ tables.map[n].temp <=> n \in NamesCreated(FALSE)
  <2>1. tables.map[n] \in TableSpecs /\ SpecName(tables.map[n]) = n
    BY DEF Sound, IsRegistry, Consistent
  <2>2. PICK s \in Created : s.spec = tables.map[n]
    BY <2>1 DEF TableSpecs
  <2>3. QED
    BY <1>1, <2>1, <2>2 DEF StmtName
<1>3. ASSUME NEW n \in DOMAIN functions.map \ Names(MissingFunctions)
      PROVE  ~ functions.map[n].temp <=> n \in NamesCreated(FALSE)
  <2>1. functions.map[n] \in FunctionSpecs /\ SpecName(functions.map[n]) = n
    BY DEF Sound, IsRegistry, Consistent
  <2>2. functions.map[n] \notin ToSet(MissingFunctions)
    BY <2>1 DEF Names, ToSet
  <2>3. PICK s \in Created : s.spec = functions.map[n]
    BY <2>1, <2>2 DEF FunctionSpecs
  <2>4. QED
    BY <1>1, <2>1, <2>3 DEF StmtName
<1>4. QED
  BY <1>2, <1>3 DEF Permanent

(* PermanentNames now and after a step.                                    *)
LEMMA PermanentNow ==
  ASSUME TempNamesApart
  PROVE  /\ RegistriesSound => PermanentNames = Permanent(TablesKnown, DOMAIN cat.functions.map)
         /\ RegistriesSound' =>
                PermanentNames' = Permanent(TablesKnown', DOMAIN cat'.functions.map)
BY PermanentAre DEF RegistriesSound, PermanentNames, TablesKnown, FunctionsKnown

(* The name of a row is that of a permanent object and, for a function, of *)
(* none that every catalog has.                                            *)
LEMMA RowNames ==
  ASSUME RowsTyped, NoMissingFunctionCreated, NEW n \in DOMAIN rows
  PROVE  /\ n \in NamesCreated(FALSE)
         /\ FunctionRow(n) => n \notin Names(MissingFunctions)
<1>1. IsRow(n, rows[n])
  BY DEF RowsTyped
<1>2. PICK s \in Created : ~ s.spec.temp /\ s.spec = rows[n].spec
  BY <1>1 DEF IsRow, RowSpecs
<1>3. StmtName(s) = n /\ (IsFunction(s) <=> FunctionRow(n))
  BY <1>1, <1>2 DEF IsRow, StmtName, IsFunction, FunctionRow
<1>4. s.spec.temp = FALSE
  BY <1>2, StatementsWellFormed DEF Created
<1>5. n \in NamesCreated(FALSE)
  BY <1>3, <1>4 DEF NamesCreated, Created
<1>6. QED
  BY <1>2, <1>3, <1>5 DEF NoMissingFunctionCreated

(* The name of a table or view is not that of a function a script made.    *)
LEMMA NamesOfKinds ==
  ASSUME RegistriesSound, NEW s \in Statements
  PROVE  IF IsFunction(s) THEN StmtName(s) \notin TablesKnown
                          ELSE StmtName(s) \notin FunctionsKnown
<1>1. ASSUME NEW n \in TablesKnown PROVE \E t \in Created : ~ IsFunction(t) /\ StmtName(t) = n
  BY DEF TablesKnown, RegistriesSound, Sound, IsRegistry, Consistent, TableSpecs, StmtName
<1>2. ASSUME NEW n \in FunctionsKnown PROVE \E t \in Created : IsFunction(t) /\ StmtName(t) = n
  <2>1. /\ cat.functions.map[n] \in FunctionSpecs
        /\ SpecName(cat.functions.map[n]) = n /\ n \notin Names(MissingFunctions)
    BY DEF FunctionsKnown, RegistriesSound, Sound, IsRegistry, Consistent
  <2>2. cat.functions.map[n] \notin ToSet(MissingFunctions)
    BY <2>1 DEF Names, ToSet
  <2>3. QED
    BY <2>1, <2>2 DEF FunctionSpecs, StmtName
<1>3. QED
  BY <1>1, <1>2, KindsHaveTheirNames DEF Created

(* A section under c.mu that does not fail changes the catalog and the     *)
(* rows alike.                                                             *)
Adds(s) ==
    /\ cat' = CatalogWith(s.spec)
    /\ rows' = IF s.spec.temp THEN rows ELSE SaveSpec(s.spec)

Removes(s) ==
    Known(s) /\ cat' = CatalogWithout(s) /\ rows' = DeleteRow(StmtName(s))

LEMMA CatalogAndRows ==
  ASSUME CallsTyped, CountersTyped, [Next]_vars, UNCHANGED faults
  PROVE  \/ Restart
         \/ /\ UNCHANGED restarts
            /\ \/ UNCHANGED <<cat, rows>>
               \/ \E c \in Conns : Sync(c)
               \/ \E s \in Created : Adds(s)
               \/ \E s \in Statements : Removes(s)
<1> DEFINE Changes == \/ UNCHANGED <<cat, rows>>
                      \/ \E c \in Conns : Sync(c)
                      \/ \E s \in Created : Adds(s)
                      \/ \E s \in Statements : Removes(s)
<1>1. ~ Fault
  BY DEF Fault, CountersTyped
<1>2. ASSUME NEW c \in Conns, Step(c) PROVE Changes /\ UNCHANGED restarts
  <2>1. CASE Register(c)
    <3>1. Stmt(c) \in Created
      BY <2>1, RegisterStmt DEF Register, At
    <3>2. Adds(Stmt(c)) /\ UNCHANGED restarts
      BY <1>1, <2>1 DEF Register, NeedsRow, Adds
    <3>3. QED
      BY <3>1, <3>2
  <2>2. CASE Unregister(c)
    <3>1. Stmt(c) \in Statements
      BY <2>2, AtWork DEF Unregister, At, Working
    <3>2. UNCHANGED restarts /\ (Removes(Stmt(c)) \/ UNCHANGED <<cat, rows>>)
      BY <1>1, <2>2 DEF Unregister, Removes, Refused
    <3>3. QED
      BY <3>1, <3>2
  <2>3. CASE Forget(c)
    <3>1. Stmt(c) \in Statements
      BY <2>3, CleaningStmt DEF Forget
    <3>2. UNCHANGED restarts /\ (Removes(Stmt(c)) \/ UNCHANGED <<cat, rows>>)
      BY <1>1, <2>3 DEF Forget, Removes
    <3>3. QED
      BY <3>1, <3>2
  <2>4. CASE Sync(c)
    BY <2>4 DEF Sync
  <2>5. CASE \/ SyncFails(c) \/ CollectFunctions(c) \/ BuildDDL(c) \/ Query(c) \/ BeginCommit(c)
             \/ DropOld(c) \/ Create(c) \/ DropObject(c) \/ ReadSpec(c)
             \/ SkipCleanup(c) \/ CleanupView(c) \/ CleanupObject(c) \/ EndCall(c)
    BY <2>5 DEF SyncFails, CollectFunctions, BuildDDL, Query, BeginCommit, DropOld, Create,
                DropObject, ReadSpec, SkipCleanup, CleanupView, CleanupObject, EndCall,
                Refused, Faulty
  <2>6. QED
    BY <1>2, <2>1, <2>2, <2>3, <2>4, <2>5 DEF Step
<1>3. ASSUME NEW c \in Conns, Begin(c) \/ CloseRows(c)
      PROVE  UNCHANGED <<cat, rows, restarts>>
  BY <1>3 DEF Begin, CloseRows
<1> HIDE DEF Changes
<1>4. UNCHANGED vars => UNCHANGED restarts /\ Changes
  BY DEF vars, Changes
<1>5. Restart \/ (UNCHANGED restarts /\ Changes)
  BY <1>2, <1>3, <1>4 DEF Next, Changes
<1>6. QED
  BY <1>5 DEF Changes

LEMMA RowsAgreeKept ==
  ASSUME TempNamesApart, NoMissingFunctionCreated, IInv, RegistriesSound', RowsAgree,
         [Next]_vars, UNCHANGED faults
  PROVE  RowsAgree'
<1> DEFINE tables == TablesKnown
           functions == DOMAIN cat.functions.map
<1> USE DEF IInv
<1>1. PermanentNames = Permanent(tables, functions)
      /\ PermanentNames' = Permanent(tables', functions')
  BY PermanentNow
<1>2. CASE UNCHANGED <<cat, rows>> /\ UNCHANGED restarts
  BY <1>2 DEF RowsAgree, PermanentNames, TablesKnown, FunctionsKnown
<1>3. CASE Restart
  <2>1. tables' = {} /\ functions' = Names(MissingFunctions)
    <3>1. cat' = NewCatalog(MissingFunctions)
      BY <1>3 DEF Restart
    <3>2. QED
      BY <3>1, MissingFunctionSpecs, MissingFunctionsType, NewCatalogSound DEF TablesKnown
  <2>2. PermanentNames' = {}
    BY <1>1, <2>1 DEF Permanent
  <2>3. \A n \in DOMAIN rows' : rows'[n].fresh
    <3>1. rows' = [n \in DOMAIN rows |-> [rows[n] EXCEPT !.fresh = TRUE]]
      BY <1>3 DEF Restart
    <3>2. QED
      BY <3>1 DEF RowsTyped, IsRow
  <2>4. restarts' > 0
    BY <1>3 DEF Restart, CountersTyped
  <2>5. QED
    BY <2>2, <2>3, <2>4 DEF RowsAgree
<1>4. ASSUME NEW c \in Conns, Sync(c) PROVE RowsAgree'
  <2>1. PICK order \in SetToSeqs(Fresh) : cat' = FoldLeft(LoadRow, cat, order)
    BY <1>4 DEF Sync, Fresh
  <2>2. LoadedCatalog(cat', Fresh, TableSpecs, FunctionSpecs)
    BY <2>1, SyncLoads, RowsWithinSpecs DEF RegistriesSound
  <2>3. /\ tables' = tables \cup {n \in Fresh : ~ FunctionRow(n)}
        /\ functions' = functions \cup {n \in Fresh : FunctionRow(n)}
    BY <2>2 DEF LoadedCatalog, Loaded, TablesKnown
  <2>4. DOMAIN rows' = DOMAIN rows
    BY <1>4 DEF Sync
  <2>5. Fresh \subseteq DOMAIN rows
    BY DEF Fresh
  <2>6. PermanentNames' = PermanentNames \cup Fresh
    <3>1. \A n \in Fresh :
            n \in NamesCreated(FALSE) /\ (FunctionRow(n) => n \notin Names(MissingFunctions))
      BY <2>5, RowNames
    <3> HIDE DEF tables, functions
    <3>2. QED
      BY <1>1, <2>3, <3>1 DEF Permanent
  <2>7. \A n \in DOMAIN rows : n \in PermanentNames \/ n \in Fresh
    BY DEF RowsAgree, Fresh
  <2>8. QED
    BY <2>4, <2>5, <2>6, <2>7 DEF RowsAgree
<1>5. ASSUME NEW s \in Created, Adds(s), UNCHANGED restarts PROVE RowsAgree'
  <2> DEFINE name == StmtName(s)
  <2>1. /\ tables' = tables \cup IF IsFunction(s) THEN {} ELSE {name}
        /\ functions' = functions \cup IF IsFunction(s) THEN {name} ELSE {}
    BY <1>5, CreatedSpec, CatalogWithAdds DEF Adds, TablesKnown, RegistriesSound
  <2>2. CASE s.spec.temp
    <3>1. name \notin NamesCreated(FALSE)
      <4>1. s.spec.temp = TRUE
        BY <2>2, StatementsWellFormed DEF Created
      <4>2. name \in NamesCreated(TRUE)
        BY <4>1 DEF NamesCreated, Created
      <4>3. QED
        BY <4>2 DEF TempNamesApart
    <3>2. PermanentNames' = PermanentNames
      <4> HIDE DEF tables, functions
      <4>1. QED
        BY <1>1, <2>1, <3>1 DEF Permanent
    <3>3. rows' = rows
      BY <1>5, <2>2 DEF Adds
    <3>4. QED
      BY <1>5, <3>2, <3>3 DEF RowsAgree
  <2>3. CASE ~ s.spec.temp
    <3>1. name \in NamesCreated(FALSE) /\ (IsFunction(s) => name \notin Names(MissingFunctions))
      <4>1. s.spec.temp = FALSE
        BY <2>3, StatementsWellFormed DEF Created
      <4>2. QED
        BY <2>3, <4>1 DEF NamesCreated, Created, NoMissingFunctionCreated
    <3>2. PermanentNames' = PermanentNames \cup {name}
      <4> HIDE DEF tables, functions
      <4>1. QED
        BY <1>1, <2>1, <3>1 DEF Permanent
    <3>3. DOMAIN rows' = DOMAIN rows \cup {name}
          /\ \A n \in DOMAIN rows : n # name => rows'[n] = rows[n]
      BY <1>5, <2>3 DEF Adds, SaveSpec, Put, StmtName
    <3>4. QED
      BY <1>5, <3>2, <3>3 DEF RowsAgree
  <2>4. QED
    BY <2>2, <2>3
<1>6. ASSUME NEW s \in Statements, Removes(s), UNCHANGED restarts PROVE RowsAgree'
  <2> DEFINE name == StmtName(s)
  <2>1. /\ tables' = tables \ IF IsFunction(s) THEN {} ELSE {name}
        /\ functions' = functions \ IF IsFunction(s) THEN {name} ELSE {}
    BY <1>6, CatalogWithoutRemoves DEF Removes, TablesKnown, RegistriesSound
  <2>2. IF IsFunction(s) THEN name \notin tables
                         ELSE name \notin functions \ Names(MissingFunctions)
    BY NamesOfKinds DEF FunctionsKnown
  <2>3. PermanentNames' = PermanentNames \ {name}
    <3> HIDE DEF tables, functions
    <3>1. QED
      BY <1>1, <2>1, <2>2 DEF Permanent
  <2>4. DOMAIN rows' = DOMAIN rows \ {name} /\ \A n \in DOMAIN rows' : rows'[n] = rows[n]
    BY <1>6 DEF Removes, DeleteRow, Minus
  <2>5. QED
    BY <1>6, <2>3, <2>4 DEF RowsAgree
<1>7. QED
  BY <1>2, <1>3, <1>4, <1>5, <1>6, CatalogAndRows

LEMMA AlwaysAgree ==
  ASSUME TempNamesApart, NoMissingFunctionCreated
  PROVE  Spec => [](faults = 0 => RowsAgree)
<1> DEFINE Inv == faults = 0 => RowsAgree
<1>1. Init => Inv
  <2> SUFFICES ASSUME Init PROVE RowsAgree
    OBVIOUS
  <2>1. DOMAIN rows = {}
    BY DEF Init
  <2>2. TablesKnown = {} /\ DOMAIN cat.functions.map = Names(MissingFunctions)
    <3>1. cat = NewCatalog(MissingFunctions)
      BY DEF Init
    <3>2. QED
      BY <3>1, MissingFunctionSpecs, MissingFunctionsType, NewCatalogSound DEF TablesKnown
  <2>3. PermanentNames = {}
    BY <2>2 DEF PermanentNames, FunctionsKnown
  <2>4. QED
    BY <2>1, <2>3 DEF RowsAgree
<1>2. IInv /\ IInv' /\ Inv /\ [Next]_vars => Inv'
  <2> SUFFICES ASSUME IInv, IInv', Inv, [Next]_vars, faults' = 0 PROVE RowsAgree'
    OBVIOUS
  <2>1. faults' = faults \/ faults' = faults + 1
    BY CountersStep DEF Fault
  <2>2. UNCHANGED faults
    BY <2>1 DEF IInv, CountersTyped
  <2>3. QED
    BY <2>2, RowsAgreeKept DEF IInv
<1>3. QED
  BY <1>1, <1>2, AlwaysTyped, PTL DEF Spec

(* Whatever connections race on, and whatever restarts come in between, a  *)
(* permanent object has its row, and a row that memory does not know is    *)
(* one the next Sync loads (catalog.go:260-357): as long as no SQL         *)
(* statement fails between memory and row, a temporary object never has    *)
(* the name of a permanent one, and no function of every catalog is        *)
(* created again.                                                          *)
THEOREM RowsFollowCatalog ==
  ASSUME TempNamesApart, NoMissingFunctionCreated
  PROVE  Spec => [](faults = 0 => RowsMatchCatalog)
<1>1. RowsAgree => RowsMatchCatalog
  BY DEF RowsAgree, RowsMatchCatalog
<1>2. QED
  BY <1>1, AlwaysAgree, PTL

(* One process at work: the rows are at every moment those of the          *)
(* permanent objects of the catalog, also while calls are half way, since  *)
(* c.mu is held over memory and row (catalog.go:303-357).                  *)
THEOREM RowsArePermanent ==
  ASSUME TempNamesApart, NoMissingFunctionCreated
  PROVE  Spec => [](faults = 0 /\ restarts = 0 => DOMAIN rows = PermanentNames)
<1>1. RowsAgree /\ restarts = 0 => DOMAIN rows = PermanentNames
  BY DEF RowsAgree
<1>2. QED
  BY <1>1, AlwaysAgree, PTL
=============================================================================
