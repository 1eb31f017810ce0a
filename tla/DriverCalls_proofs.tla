--------------------------- MODULE DriverCalls_proofs ---------------------------
(***************************************************************************)
(* Proofs about what the calls of Driver leave behind.  When every call is *)
(* an ExecContext and nothing fails without a reason, what the Cleanup of  *)
(* the actions has still to do accounts for everything temporary: nothing  *)
(* temporary outlives the calls, and for one connection memory, SQLite and *)
(* the rows agree between them.  When something does fail or the process   *)
(* dies, each time tears at most one table.  And what a call reports is    *)
(* what it changed.                                                        *)
(***************************************************************************)
EXTENDS Driver_proofs

(* The calls are ExecContexts, whose cleanup is deferred.                  *)
ExecOnly == \A c \in Conns : \A p \in Programs[c] : p.mode = "exec"

(* Cleanup drops what SQLite has under the name of a temporary object as   *)
(* the kind of thing that object is.                                       *)
TempKindsAgree ==
    \A s, t \in Created :
        StmtName(s) = StmtName(t) /\ s.spec.temp => s.spec.kind = t.spec.kind

(* The one Cleanup that may panic, and then keeps the others from theirs,  *)
(* is that of a permanent view: after a DROP of a table by a connection    *)
(* that another one made known between its read and its delete.            *)
OneConnection == \E c \in Conns : Conns = {c}
NoPermanentViews == \A s \in Created : s.spec.kind = "view" => s.spec.temp

(* The actions of a call that are still to be cleaned up, and the names of *)
(* the temporary objects among them.                                       *)
ToClean(call) ==
    IF call.step = "idle" THEN {}
    ELSE IF call.step \in {"cleanup", "forget"} THEN call.pc..call.built
    ELSE 1..call.built

Pending(call) ==
    {StmtName(call.script[i]) : i \in {j \in ToClean(call) : call.script[j].spec.temp}}

PendingNames == UNION {Pending(calls[c]) : c \in Conns}

(* The same for what is to be dropped from SQLite.                         *)
ToDrop(call) == ToClean(call) \ IF call.step = "forget" THEN {call.pc} ELSE {}

PendingDrop(call) ==
    {StmtName(call.script[i]) : i \in {j \in ToDrop(call) : IsTempObject(call.script[j])}}

DropNames == UNION {PendingDrop(calls[c]) : c \in Conns}

---------------------------------------------------------------------------
(* A spec of the catalog is temporary and waits for its Cleanup, or it has *)
(* a row: the spec in the list as well as the one in the map, as either    *)
(* may be the one that a rebuild keeps.                                    *)
Accounted(spec) ==
    IF spec.temp THEN SpecName(spec) \in PendingNames ELSE SpecName(spec) \in DOMAIN rows

AccountedTables == {s \in TableSpecs : Accounted(s)}
AccountedFunctions ==
    {s \in FunctionSpecs : s \in ToSet(MissingFunctions) \/ Accounted(s)}

SpecsAccounted ==
    Sound(cat.tables, AccountedTables) /\ Sound(cat.functions, AccountedFunctions)

RowsKnown ==
    \A n \in DOMAIN rows :
        n \in IF FunctionRow(n) THEN DOMAIN cat.functions.map ELSE TablesKnown

(* An object of SQLite is one that a script creates, and if only as a      *)
(* temporary one, it waits for its Cleanup.                                *)
ObjectsAccounted ==
    \A n \in DOMAIN objs :
        /\ \E s \in Created : StmtName(s) = n /\ s.spec.kind = objs[n]
        /\ n \in TempNames => n \in DropNames

ExecCalls == \A c \in Conns : calls[c].mode = "exec" /\ calls[c].step # "rows"

(* With one connection a DROP that deletes a table reports the spec that   *)
(* it read, so that no list of deleted tables has a nil.                   *)
TablesDeleted(call) ==
    /\ DOMAIN call.cc = {"tables", "functions"}
    /\ DOMAIN call.cc.tables = {"added", "deleted"}
    /\ call.cc.tables.deleted \in Seq(TableSpecs)

NoNil(c) ==
    /\ TablesDeleted(calls[c])
    /\ At(c, "unregister") /\ ~ IsFunction(Stmt(c)) /\ Known(Stmt(c)) =>
            calls[c].seen \in TableSpecs

CleanupInv == ExecCalls /\ SpecsAccounted /\ RowsKnown /\ ObjectsAccounted

---------------------------------------------------------------------------
(* One connection: memory and SQLite differ in the table of its statement  *)
(* only, between the two halves of a CREATE, a DROP or a Cleanup.          *)
HalfSteps == {"create", "register", "read", "unregister", "forget"}
HalfDone(call) ==
    LET stmt == call.script[call.pc]
    IN  IF call.step \in HalfSteps /\ ~ IsFunction(stmt) THEN {StmtName(stmt)} ELSE {}

TablesAgree(c) ==
    LET name == StmtName(Stmt(c))
    IN  /\ TablesKnown \ HalfDone(calls[c]) = DOMAIN objs \ HalfDone(calls[c])
        /\ At(c, "create") =>
            IF Stmt(c).mode = "replace" THEN name \notin DOMAIN objs
                                        ELSE name \in TablesKnown <=> name \in DOMAIN objs
        /\ At(c, "register") /\ ~ IsFunction(Stmt(c)) => name \in DOMAIN objs
        /\ calls[c].step \in {"read", "unregister", "forget"} /\ ~ IsFunction(Stmt(c)) =>
            name \notin DOMAIN objs

---------------------------------------------------------------------------
(* How the call of a step goes on: it begins, works on, ends a Cleanup,    *)
(* drops the object of one, or is over.                                    *)
Begins(old, new) == old.step = "idle" /\ new.mode = "exec" /\ new.step = "sync"

GoesOn(old, new) ==
    /\ new.mode = old.mode /\ new.script = old.script /\ 1..old.built \subseteq 1..new.built
    /\ new.step \notin {"idle", "forget", "rows"}
    /\ new.step = "cleanup" => new.pc = 1

Works(old, new) == old.step \notin {"idle", "cleanup", "forget", "rows"} /\ GoesOn(old, new)

SameScript(old, new) ==
    new.mode = old.mode /\ new.script = old.script /\ new.built = old.built

Cleans(old, new) ==
    /\ SameScript(old, new)
    /\ old.step \in {"cleanup", "forget"} /\ old.pc <= old.built
    /\ new.step = "cleanup" /\ new.pc = old.pc + 1

Drops(old, new) ==
    /\ SameScript(old, new)
    /\ old.step = "cleanup" /\ new.step = "forget" /\ new.pc = old.pc

Ends(old, new) ==
    SameScript(old, new) /\ old.step = "cleanup" /\ old.pc > old.built /\ new.step = "idle"

LEMMA AfterWork ==
  ASSUME NEW call, HasFields(call), call.mode = "exec"
  PROVE  GoesOn(call, Done(call)) /\ GoesOn(call, Failed(call)) /\ GoesOn(call, Panicked(call))
<1> DEFINE done == Done(call)
           failed == Failed(call)
           panicked == Panicked(call)
<1>1. /\ done.mode = call.mode /\ done.script = call.script /\ done.built = call.built
      /\ done.step = "stmt" \/ (done.step = "cleanup" /\ done.pc = 1)
  BY DEF Done, HasFields, CallFields
<1>2. /\ failed.mode = call.mode /\ failed.script = call.script /\ failed.built = call.built
      /\ failed.step = "cleanup" /\ failed.pc = 1 /\ DOMAIN failed = CallFields
  BY DEF Failed, HasFields, CallFields
<1>3. /\ panicked.mode = call.mode /\ panicked.script = call.script
      /\ panicked.built = call.built /\ panicked.step = "cleanup" /\ panicked.pc = 1
  BY <1>2 DEF Panicked, CallFields
<1>4. call.built \in Nat
  BY DEF HasFields
<1> HIDE DEF done, failed, panicked
<1>5. GoesOn(call, done) /\ GoesOn(call, failed) /\ GoesOn(call, panicked)
  BY <1>1, <1>2, <1>3, <1>4 DEF GoesOn
<1>6. QED
  BY <1>5 DEF done, failed, panicked

(* Another step of the same statement, or the next before one is built.    *)
LEMMA OtherStep ==
  ASSUME NEW call, HasFields(call), NEW new, DOMAIN new = CallFields,
         \A f \in {"script", "mode", "built"} : new[f] = call[f],
         new.step \in Working \cup {"sync", "functions", "stmt"}
  PROVE  GoesOn(call, new)
<1>1. new.script = call.script /\ new.mode = call.mode /\ new.built = call.built
  OBVIOUS
<1>2. QED
  BY <1>1 DEF GoesOn, HasFields, Working

LEMMA WorkGoesOn ==
  ASSUME CallsTyped, ExecCalls, ~ Fault, NEW c \in Conns,
         \/ Sync(c) \/ SyncFails(c) \/ CollectFunctions(c) \/ BuildDDL(c) \/ Query(c)
         \/ BeginCommit(c) \/ DropOld(c) \/ Create(c) \/ Register(c)
         \/ DropObject(c) \/ ReadSpec(c) \/ Unregister(c)
  PROVE  \E new : Set(c, new) /\ Works(calls[c], new)
<1> DEFINE call == calls[c]
           Same(new) == DOMAIN new = CallFields
                        /\ \A f \in {"script", "mode", "built"} : new[f] = call[f]
<1>1. IsCall(call) /\ HasFields(call) /\ call.mode = "exec"
  BY DEF CallsTyped, IsCall, ExecCalls
<1>2. call.step \notin {"idle", "cleanup", "forget", "rows"}
  BY DEF Sync, SyncFails, CollectFunctions, BuildDDL, Query, BeginCommit, DropOld, Create,
         Register, DropObject, ReadSpec, Unregister, At
<1> SUFFICES \E new : Set(c, new) /\ GoesOn(call, new)
  BY <1>2 DEF Works
<1>3. Fail(c) => \E new : Set(c, new) /\ GoesOn(call, new)
  BY <1>1, AfterWork DEF Fail
<1>4. ASSUME NEW step \in Working \cup {"functions"}, Goto(c, step)
      PROVE  \E new : Set(c, new) /\ GoesOn(call, new)
  <2> DEFINE new == [call EXCEPT !.step = step]
  <2>1. Same(new) /\ new.step = step
    BY <1>1 DEF HasFields, CallFields
  <2> HIDE DEF new
  <2>2. GoesOn(call, new)
    BY <1>1, <2>1, OtherStep
  <2>3. Set(c, new)
    BY <1>4 DEF Goto, new
  <2>4. QED
    BY <2>2, <2>3
<1>5. CASE CollectFunctions(c)
  <2> DEFINE new == [call EXCEPT !.step = "stmt", !.funcMap = Rebuild(cat.functions.list).map]
  <2>1. Same(new) /\ new.step = "stmt"
    BY <1>1 DEF HasFields, CallFields
  <2>2. Set(c, new)
    BY <1>5 DEF CollectFunctions
  <2> HIDE DEF new
  <2>3. QED
    BY <1>1, <2>1, <2>2, OtherStep
<1>6. CASE ReadSpec(c)
  <2> DEFINE seen == IF StmtName(Stmt(c)) \in DOMAIN cat.tables.map
                     THEN cat.tables.map[StmtName(Stmt(c))] ELSE NoSpec
             new == [call EXCEPT !.step = "unregister", !.seen = seen]
  <2>1. Same(new) /\ new.step = "unregister"
    BY <1>1 DEF HasFields, CallFields
  <2>2. Set(c, new)
    BY <1>6 DEF ReadSpec
  <2> HIDE DEF new
  <2>3. QED
    BY <1>1, <2>1, <2>2, OtherStep DEF Working
<1>7. CASE BuildDDL(c) \/ Query(c) \/ BeginCommit(c)
  <2> DEFINE at == [call EXCEPT !.built = call.pc]
             on == [call EXCEPT !.step = FirstStep(Stmt(c)), !.built = call.pc]
  <2>1. call.step = "stmt" /\ call.built = call.pc - 1 /\ call.pc \in Nat
    BY <1>1, <1>7 DEF BuildDDL, Query, BeginCommit, At, IsCall, HasFields
  <2>2. /\ at.mode = call.mode /\ at.script = call.script /\ at.built = call.pc
        /\ HasFields(at)
    BY <1>1, <2>1, BuiltTyped DEF HasFields, CallFields
  <2>3. /\ on.mode = call.mode /\ on.script = call.script /\ on.built = call.pc
        /\ on.step = FirstStep(Stmt(c))
    BY <1>1 DEF HasFields, CallFields
  <2>4. FirstStep(Stmt(c)) \in Working
    BY DEF FirstStep, Working
  <2>5. Fail(c) \/ Set(c, on) \/ Set(c, Done(at)) \/ Set(c, Failed(at))
    BY <1>7 DEF BuildDDL, Query, BeginCommit
  <2> HIDE DEF at, on
  <2>6. GoesOn(call, on)
    BY <2>1, <2>3, <2>4 DEF GoesOn, Working
  <2>7. GoesOn(at, Done(at)) /\ GoesOn(at, Failed(at))
    BY <1>1, <2>2, AfterWork
  <2>8. GoesOn(call, Done(at)) /\ GoesOn(call, Failed(at))
    <3>1. ASSUME NEW new, GoesOn(at, new) PROVE GoesOn(call, new)
      <4>1. 1..call.built \subseteq 1..call.pc
        BY <2>1
      <4>2. QED
        BY <2>2, <3>1, <4>1 DEF GoesOn
    <3>2. QED
      BY <2>7, <3>1
  <2>9. QED
    BY <1>3, <2>5, <2>6, <2>8
<1>8. CASE Register(c) \/ Unregister(c)
  <2>1. \/ Fail(c)
        \/ \E spec : Set(c, NoteAdded(call, spec))
        \/ \E stmt : Set(c, NoteDeleted(call, stmt))
    BY <1>8 DEF Register, Unregister, Refused
  <2>2. ASSUME NEW new, Same(new), new.pc = call.pc, new.step = call.step, new.n = call.n
        PROVE  GoesOn(call, Done(new)) /\ GoesOn(call, Panicked(new))
    <3>1. new.script = call.script /\ new.mode = call.mode /\ new.built = call.built
      BY <2>2
    <3>2. HasFields(new)
      BY <1>1, <2>2, <3>1 DEF HasFields
    <3>3. GoesOn(new, Done(new)) /\ GoesOn(new, Panicked(new))
      BY <1>1, <3>1, <3>2, AfterWork
    <3>4. QED
      BY <3>1, <3>3 DEF GoesOn
  <2> DEFINE Like(new) == Same(new) /\ new.pc = call.pc /\ new.step = call.step /\ new.n = call.n
  <2>3. /\ Like(call)
        /\ \A funcMap : Like([call EXCEPT !.funcMap = funcMap])
        /\ \A f, funcMap : Like([call EXCEPT !.cc.functions = f, !.funcMap = funcMap])
        /\ \A t : Like([call EXCEPT !.cc.tables = t])
    BY <1>1 DEF HasFields, CallFields
  <2>4. \A new : Like(new) => GoesOn(call, Done(new)) /\ GoesOn(call, Panicked(new))
    BY <2>2
  <2> HIDE DEF Like, call
  <2>5. \A spec : GoesOn(call, NoteAdded(call, spec))
    BY <2>3, <2>4, Zenon DEF NoteAdded
  <2>6. \A stmt : GoesOn(call, NoteDeleted(call, stmt))
    BY <2>3, <2>4, Zenon DEF NoteDeleted
  <2>7. QED
    BY <1>3, <2>1, <2>5, <2>6
<1>9. CASE Sync(c)
  BY <1>4, <1>9 DEF Sync
<1>10. CASE DropOld(c)
  BY <1>3, <1>4, <1>10 DEF DropOld, Refused, Faulty, Working
<1>11. CASE Create(c)
  BY <1>3, <1>4, <1>11 DEF Create, Refused, Faulty, Working
<1>12. CASE DropObject(c)
  BY <1>3, <1>4, <1>12 DEF DropObject, Refused, Faulty, Working
<1>13. ~ SyncFails(c)
  BY DEF SyncFails
<1>14. QED
  BY <1>5, <1>6, <1>7, <1>8, <1>9, <1>10, <1>11, <1>12, <1>13

LEMMA CleanupGoesOn ==
  ASSUME CallsTyped, ~ Fault, NEW c \in Conns,
         \/ SkipCleanup(c) \/ CleanupView(c) \/ CleanupObject(c) \/ Forget(c) \/ EndCall(c),
         CleanupView(c) => CanAdd(calls[c].cc.tables, Stmt(c).spec),
         CleanupObject(c) => CanDrop(Stmt(c), TRUE)
  PROVE  \E new :
           /\ Set(c, new)
           /\ \/ Cleans(calls[c], new) /\ (~ Stmt(c).spec.temp \/ Forget(c))
              \/ Drops(calls[c], new) /\ CleanupObject(c)
              \/ Ends(calls[c], new)
<1> DEFINE call == calls[c]
           Same(new) == DOMAIN new = CallFields
                        /\ \A f \in {"script", "mode", "built", "step", "pc"} : new[f] = call[f]
<1>1. IsCall(call) /\ HasFields(call)
  BY DEF CallsTyped, IsCall
<1>2. ASSUME NEW new, Same(new), Cleaning(c) \/ At(c, "forget")
      PROVE  Cleans(call, Cleaned(new)) /\ Cleans(call, CleanupFailed(new))
  <2> DEFINE next == Cleaned(new)
  <2>1. /\ DOMAIN next = CallFields /\ next.script = call.script /\ next.mode = call.mode
        /\ next.built = call.built /\ next.step = "cleanup" /\ next.pc = call.pc + 1
    BY <1>2 DEF Cleaned, CallFields
  <2>2. call.step \in {"cleanup", "forget"} /\ call.pc <= call.built
    BY <1>1, <1>2 DEF Cleaning, At, IsCall
  <2> HIDE DEF next, call
  <2>3. Cleans(call, next)
    BY <2>1, <2>2 DEF Cleans, SameScript
  <2>4. Cleans(call, [next EXCEPT !.err = TRUE])
    BY <2>1, <2>2 DEF Cleans, SameScript, CallFields
  <2>5. QED
    BY <2>3, <2>4 DEF next, CleanupFailed
<1>3. /\ Same(call)
      /\ \A tables : Same([call EXCEPT !.cc.tables = tables])
      /\ \A funcMap : Same([call EXCEPT !.funcMap = funcMap])
  BY <1>1 DEF HasFields, CallFields
<1>4. Cleaning(c) \/ At(c, "forget") =>
        /\ Cleans(call, Cleaned(call)) /\ Cleans(call, CleanupFailed(call))
        /\ \A tables : Cleans(call, Cleaned([call EXCEPT !.cc.tables = tables]))
        /\ \A funcMap : Cleans(call, Cleaned([call EXCEPT !.funcMap = funcMap]))
  BY <1>2, <1>3
<1>5. CASE SkipCleanup(c)
  BY <1>4, <1>5 DEF SkipCleanup, NothingToClean
<1>6. CASE CleanupView(c)
  <2>1. Set(c, Cleaned([call EXCEPT !.cc.tables = Add(@, Stmt(c).spec)]))
    BY <1>6 DEF CleanupView
  <2>2. Cleaning(c) /\ ~ Stmt(c).spec.temp
    BY <1>6 DEF CleanupView
  <2>3. QED
    BY <1>4, <2>1, <2>2
<1>7. CASE CleanupObject(c)
  <2> DEFINE forget == [call EXCEPT !.step = "forget"]
  <2>1. Set(c, forget)
    BY <1>7 DEF CleanupObject, Goto
  <2>2. /\ forget.script = call.script /\ forget.mode = call.mode /\ forget.pc = call.pc
        /\ forget.built = call.built /\ forget.step = "forget" /\ call.step = "cleanup"
    BY <1>1, <1>7 DEF HasFields, CallFields, CleanupObject, Cleaning, At
  <2> HIDE DEF forget, call
  <2>3. Drops(call, forget)
    BY <2>2 DEF Drops, SameScript
  <2>4. QED
    BY <1>7, <2>1, <2>3 DEF call
<1>8. CASE Forget(c)
  <2>1. Cleaning(c) \/ At(c, "forget")
    BY <1>8 DEF Forget
  <2>2. \/ Set(c, CleanupFailed(call))
        \/ \E funcMap : Set(c, Cleaned([call EXCEPT !.funcMap = funcMap]))
    BY <1>8 DEF Forget
  <2>3. QED
    BY <1>4, <1>8, <2>1, <2>2
<1>9. CASE EndCall(c)
  <2> DEFINE idle == [call EXCEPT !.step = "idle"]
  <2>1. Set(c, idle)
    BY <1>9 DEF EndCall, Goto
  <2>2. /\ idle.script = call.script /\ idle.mode = call.mode /\ idle.built = call.built
        /\ idle.step = "idle" /\ call.step = "cleanup" /\ call.pc > call.built
    BY <1>1, <1>9 DEF HasFields, CallFields, EndCall, At
  <2> HIDE DEF idle, call
  <2>3. Ends(call, idle)
    BY <2>2 DEF Ends, SameScript
  <2>4. QED
    BY <2>1, <2>3 DEF call
<1>10. QED
  BY <1>5, <1>6, <1>7, <1>8, <1>9

---------------------------------------------------------------------------
(* What a call has still to clean up after each of these.                  *)
LEMMA PendingAfter ==
  ASSUME NEW old, HasFields(old), NEW new
  PROVE  /\ Begins(old, new) \/ Ends(old, new) =>
                Pending(old) = {} /\ PendingDrop(old) = {}
         /\ Works(old, new) =>
                Pending(old) \subseteq Pending(new) /\ PendingDrop(old) \subseteq PendingDrop(new)
         /\ Cleans(old, new) =>
              LET stmt == old.script[old.pc]
              IN  /\ Pending(old) \subseteq
                        Pending(new) \cup IF stmt.spec.temp THEN {StmtName(stmt)} ELSE {}
                  /\ old.step = "forget" \/ ~ IsTempObject(stmt) =>
                        PendingDrop(old) \subseteq PendingDrop(new)
         /\ Drops(old, new) =>
                /\ Pending(old) \subseteq Pending(new)
                /\ PendingDrop(old) \subseteq
                        PendingDrop(new) \cup {StmtName(old.script[old.pc])}
<1> USE DEF HasFields
<1>1. ASSUME Begins(old, new) \/ Ends(old, new) PROVE ToClean(old) = {} /\ ToDrop(old) = {}
  BY <1>1 DEF Begins, Ends, ToClean, ToDrop
<1>2. ASSUME Works(old, new)
      PROVE  /\ new.script = old.script /\ ToClean(old) \subseteq ToClean(new)
             /\ ToDrop(old) \subseteq ToDrop(new)
  BY <1>2 DEF Works, GoesOn, ToClean, ToDrop
<1>3. ASSUME Cleans(old, new)
      PROVE  /\ new.script = old.script /\ ToClean(old) \subseteq ToClean(new) \cup {old.pc}
             /\ ToDrop(old) \subseteq ToDrop(new) \cup {old.pc}
             /\ old.step = "forget" => old.pc \notin ToDrop(old)
  BY <1>3 DEF Cleans, SameScript, ToClean, ToDrop
<1>4. ASSUME Drops(old, new)
      PROVE  /\ new.script = old.script /\ ToClean(old) \subseteq ToClean(new)
             /\ ToDrop(old) \subseteq ToDrop(new) \cup {old.pc}
  BY <1>4 DEF Drops, SameScript, ToClean, ToDrop
<1>5. QED
  BY <1>1, <1>2, <1>3, <1>4 DEF Pending, PendingDrop

LEMMA NamesPending ==
  ASSUME CallsTyped, NEW c \in Conns, NEW new, Set(c, new), NEW cleaned, NEW dropped,
         Pending(calls[c]) \subseteq Pending(new) \cup cleaned,
         PendingDrop(calls[c]) \subseteq PendingDrop(new) \cup dropped
  PROVE  PendingNames \subseteq PendingNames' \cup cleaned
         /\ DropNames \subseteq DropNames' \cup dropped
<1>1. \A d \in Conns : calls'[d] = IF d = c THEN new ELSE calls[d]
  BY DEF Set, CallsTyped
<1>2. QED
  BY <1>1 DEF PendingNames, DropNames

(* Only the Cleanup of a statement takes its name from what is pending.    *)
LEMMA PendingKept ==
  ASSUME CallsTyped, ExecOnly, ExecCalls, ~ Fault, NEW c \in Conns,
         Begin(c) \/ Step(c) \/ CloseRows(c),
         CleanupView(c) => CanAdd(calls[c].cc.tables, Stmt(c).spec),
         CleanupObject(c) => CanDrop(Stmt(c), TRUE)
  PROVE  /\ ExecCalls'
         /\ PendingNames \subseteq
                PendingNames' \cup IF Forget(c) THEN {StmtName(Stmt(c))} ELSE {}
         /\ DropNames \subseteq
                DropNames' \cup IF CleanupObject(c) THEN {StmtName(Stmt(c))} ELSE {}
<1> DEFINE cleaned == IF Forget(c) THEN {StmtName(Stmt(c))} ELSE {}
           dropped == IF CleanupObject(c) THEN {StmtName(Stmt(c))} ELSE {}
<1>1. IsCall(calls[c]) /\ HasFields(calls[c]) /\ calls[c].mode = "exec"
  BY DEF CallsTyped, IsCall, ExecCalls
<1>2. ASSUME NEW new, Set(c, new), new.mode = "exec", new.step # "rows" PROVE ExecCalls'
  <2>1. \A d \in Conns : calls'[d] = IF d = c THEN new ELSE calls[d]
    BY <1>2 DEF Set, CallsTyped
  <2>2. QED
    BY <1>2, <2>1 DEF ExecCalls
<1>3. CASE Begin(c)
  <2>1. PICK p \in Programs[c] : Set(c, NewCall(p.script, p.mode, calls[c].n + 1))
    BY <1>3 DEF Begin
  <2> DEFINE new == NewCall(p.script, p.mode, calls[c].n + 1)
  <2>2. new.mode = "exec" /\ new.step = "sync"
    BY DEF NewCall, ExecOnly
  <2> HIDE DEF new
  <2>3. Begins(calls[c], new)
    BY <1>3, <2>2 DEF Begins, Begin, At
  <2>4. QED
    BY <1>1, <1>2, <2>1, <2>2, <2>3, PendingAfter, NamesPending DEF new
<1>4. CASE \/ Sync(c) \/ SyncFails(c) \/ CollectFunctions(c) \/ BuildDDL(c) \/ Query(c)
           \/ BeginCommit(c) \/ DropOld(c) \/ Create(c) \/ Register(c)
           \/ DropObject(c) \/ ReadSpec(c) \/ Unregister(c)
  <2>1. PICK new : Set(c, new) /\ Works(calls[c], new)
    BY <1>4, WorkGoesOn
  <2>2. new.mode = "exec" /\ new.step # "rows"
    BY <1>1, <2>1 DEF Works, GoesOn
  <2>3. QED
    BY <1>1, <1>2, <2>1, <2>2, PendingAfter, NamesPending
<1>5. CASE SkipCleanup(c) \/ CleanupView(c) \/ CleanupObject(c) \/ Forget(c) \/ EndCall(c)
  <2>1. PICK new :
          /\ Set(c, new)
          /\ \/ Cleans(calls[c], new) /\ (~ Stmt(c).spec.temp \/ Forget(c))
             \/ Drops(calls[c], new) /\ CleanupObject(c)
             \/ Ends(calls[c], new)
    BY <1>5, CleanupGoesOn
  <2>2. new.mode = "exec" /\ new.step # "rows"
    BY <1>1, <2>1 DEF Cleans, Drops, Ends, SameScript
  <2>3. CASE Cleans(calls[c], new) /\ (~ Stmt(c).spec.temp \/ Forget(c))
    <3>1. Stmt(c) = calls[c].script[calls[c].pc]
      BY DEF Stmt
    <3>2. calls[c].step = "forget" \/ ~ IsTempObject(Stmt(c))
      BY <2>3 DEF Forget, At, IsTempObject
    <3>3. /\ Pending(calls[c]) \subseteq Pending(new) \cup cleaned
          /\ PendingDrop(calls[c]) \subseteq PendingDrop(new) \cup dropped
      BY <1>1, <2>3, <3>1, <3>2, PendingAfter
    <3> HIDE DEF cleaned, dropped
    <3>4. PendingNames \subseteq PendingNames' \cup cleaned
          /\ DropNames \subseteq DropNames' \cup dropped
      BY <2>1, <3>3, NamesPending
    <3>5. QED
      BY <1>2, <2>1, <2>2, <3>4 DEF cleaned, dropped
  <2>4. CASE Drops(calls[c], new) /\ CleanupObject(c)
    <3>1. Stmt(c) = calls[c].script[calls[c].pc]
      BY DEF Stmt
    <3>2. /\ Pending(calls[c]) \subseteq Pending(new) \cup cleaned
          /\ PendingDrop(calls[c]) \subseteq PendingDrop(new) \cup dropped
      BY <1>1, <2>4, <3>1, PendingAfter
    <3> HIDE DEF cleaned, dropped
    <3>3. PendingNames \subseteq PendingNames' \cup cleaned
          /\ DropNames \subseteq DropNames' \cup dropped
      BY <2>1, <3>2, NamesPending
    <3>4. QED
      BY <1>2, <2>1, <2>2, <3>3 DEF cleaned, dropped
  <2>5. CASE Ends(calls[c], new)
    BY <1>1, <1>2, <2>1, <2>2, <2>5, PendingAfter, NamesPending
  <2>6. QED
    BY <2>1, <2>3, <2>4, <2>5
<1>6. ~ CloseRows(c)
  BY DEF CloseRows, At, ExecCalls
<1>7. QED
  BY <1>3, <1>4, <1>5, <1>6 DEF Step

---------------------------------------------------------------------------
(* A statement about tables does not name a function of a script, and the  *)
(* other way round.                                                        *)
LEMMA OtherNames ==
  ASSUME NEW s \in Statements
  PROVE  /\ \A spec \in TableSpecs : IsFunction(s) => SpecName(spec) # StmtName(s)
         /\ \A spec \in FunctionSpecs \ ToSet(MissingFunctions) :
                ~ IsFunction(s) => SpecName(spec) # StmtName(s)
<1>1. ASSUME NEW t \in Created, IsFunction(t) # IsFunction(s), SpecName(t.spec) = StmtName(s)
      PROVE  FALSE
  BY <1>1, KindsHaveTheirNames DEF Created, StmtName, IsFunction
<1>2. QED
  BY <1>1 DEF TableSpecs, FunctionSpecs, IsFunction

(* What is accounted for stays so while nothing is taken away.             *)
LEMMA StillAccounted ==
  ASSUME PendingNames \subseteq PendingNames', DOMAIN rows \subseteq DOMAIN rows'
  PROVE  /\ AccountedTables \subseteq AccountedTables'
         /\ AccountedFunctions \subseteq AccountedFunctions'
         /\ \A reg : Sound(reg, AccountedTables) => Sound(reg, AccountedTables')
         /\ \A reg : Sound(reg, AccountedFunctions) => Sound(reg, AccountedFunctions')
<1>1. AccountedTables \subseteq AccountedTables'
      /\ AccountedFunctions \subseteq AccountedFunctions'
  BY DEF AccountedTables, AccountedFunctions, Accounted
<1>2. ASSUME NEW S, NEW T, S \subseteq T, NEW reg, Sound(reg, S) PROVE Sound(reg, T)
  BY <1>2, SoundOver
<1>3. QED
  BY <1>1, <1>2

LEMMA AddAccounted ==
  ASSUME RegistriesSound, RowsTyped', SpecsAccounted, RowsKnown,
         NEW s \in Created, Adds(s), PendingNames \subseteq PendingNames',
         s.spec.temp => StmtName(s) \in PendingNames'
  PROVE  SpecsAccounted' /\ RowsKnown'
<1> DEFINE name == StmtName(s)
<1>1. s.spec \in IF IsFunction(s) THEN FunctionSpecs ELSE TableSpecs
  BY CreatedSpec
<1>2. /\ DOMAIN rows' = DOMAIN rows \cup IF s.spec.temp THEN {} ELSE {name}
      /\ \A n \in DOMAIN rows : n # name => rows'[n] = rows[n]
      /\ s.spec.temp => rows' = rows
      /\ ~ s.spec.temp => rows'[name].spec = s.spec
  BY DEF Adds, SaveSpec, Put, StmtName
<1>3. s.spec \in IF IsFunction(s) THEN AccountedFunctions' ELSE AccountedTables'
  BY <1>1, <1>2 DEF AccountedFunctions, AccountedTables, Accounted, StmtName
<1>4. Sound(cat.tables, AccountedTables') /\ Sound(cat.functions, AccountedFunctions')
  BY <1>2, StillAccounted DEF SpecsAccounted
<1>5. /\ Sound(cat'.tables, AccountedTables') /\ Sound(cat'.functions, AccountedFunctions')
      /\ TablesKnown' = TablesKnown \cup IF IsFunction(s) THEN {} ELSE {name}
      /\ DOMAIN cat'.functions.map =
            DOMAIN cat.functions.map \cup IF IsFunction(s) THEN {name} ELSE {}
  BY <1>3, <1>4, CatalogWithAdds DEF RegistriesSound, Adds, TablesKnown
<1>6. ~ s.spec.temp => (FunctionRow(name)' <=> IsFunction(s))
  BY <1>2 DEF RowsTyped, IsRow, FunctionRow, IsFunction
<1>7. \A n \in DOMAIN rows : n # name => (FunctionRow(n)' <=> FunctionRow(n))
  BY <1>2 DEF FunctionRow
<1>8. s.spec.temp => \A n \in DOMAIN rows : FunctionRow(n)' <=> FunctionRow(n)
  BY <1>2 DEF FunctionRow
<1> HIDE DEF name
<1>9. RowsKnown'
  <2>1. \A n \in DOMAIN rows' :
           n \in IF FunctionRow(n)' THEN DOMAIN cat'.functions.map ELSE TablesKnown'
    BY <1>2, <1>5, <1>6, <1>7, <1>8 DEF RowsKnown
  <2>2. QED
    BY <2>1 DEF RowsKnown
<1>10. QED
  BY <1>5, <1>9 DEF SpecsAccounted

(* Deleting a name leaves no spec of it, in the list or in the map.        *)
LEMMA RemoveAccounted ==
  ASSUME RegistriesSound, SpecsAccounted, RowsKnown, NEW s \in Statements,
         Removes(s) \/ (~ Known(s) /\ UNCHANGED <<cat, rows>>),
         PendingNames \subseteq PendingNames' \cup {StmtName(s)}
  PROVE  SpecsAccounted' /\ RowsKnown'
<1> DEFINE name == StmtName(s)
<1>1. /\ Sound(cat'.tables, AccountedTables) /\ Sound(cat'.functions, AccountedFunctions)
      /\ TablesKnown' = TablesKnown \ IF IsFunction(s) THEN {} ELSE {name}
      /\ DOMAIN cat'.functions.map =
            DOMAIN cat.functions.map \ IF IsFunction(s) THEN {name} ELSE {}
  <2>1. CASE Removes(s)
    BY <2>1, CatalogWithoutRemoves DEF RegistriesSound, SpecsAccounted, Removes, TablesKnown
  <2>2. CASE ~ Known(s) /\ UNCHANGED <<cat, rows>>
    BY <2>2 DEF SpecsAccounted, Known, TablesKnown
  <2>3. QED
    BY <2>1, <2>2
<1>2. /\ DOMAIN rows \ {name} \subseteq DOMAIN rows' /\ DOMAIN rows' \subseteq DOMAIN rows
      /\ \A n \in DOMAIN rows' : rows'[n] = rows[n]
      /\ Removes(s) => name \notin DOMAIN rows'
  BY DEF Removes, DeleteRow, Minus
<1>3. ASSUME NEW spec \in AccountedTables, SpecName(spec) \in TablesKnown'
      PROVE  spec \in AccountedTables'
  <2>1. SpecName(spec) # name
    BY <1>1, <1>3, OtherNames DEF AccountedTables
  <2>2. QED
    BY <1>2, <2>1 DEF AccountedTables, Accounted
<1>4. ASSUME NEW spec \in AccountedFunctions, SpecName(spec) \in DOMAIN cat'.functions.map
      PROVE  spec \in AccountedFunctions'
  <2>1. CASE spec \in ToSet(MissingFunctions)
    BY <2>1 DEF AccountedFunctions
  <2>2. CASE spec \notin ToSet(MissingFunctions)
    <3>1. SpecName(spec) # name
      BY <1>1, <1>4, <2>2, OtherNames DEF AccountedFunctions
    <3>2. QED
      BY <1>2, <3>1 DEF AccountedFunctions, Accounted
  <2>3. QED
    BY <2>1, <2>2
<1>5. SpecsAccounted'
  BY <1>1, <1>3, <1>4, SoundOver DEF SpecsAccounted, TablesKnown
<1>6. RowsKnown'
  <2>1. \A n \in DOMAIN rows' : FunctionRow(n)' <=> FunctionRow(n)
    BY <1>2 DEF FunctionRow
  <2>2. CASE Removes(s)
    <3>1. \A n \in DOMAIN rows' :
             n \in IF FunctionRow(n)' THEN DOMAIN cat'.functions.map ELSE TablesKnown'
      BY <1>1, <1>2, <2>1, <2>2 DEF RowsKnown
    <3>2. QED
      BY <3>1 DEF RowsKnown
  <2>3. CASE UNCHANGED <<cat, rows>>
    BY <2>3 DEF RowsKnown, FunctionRow, TablesKnown
  <2>4. QED
    BY <2>2, <2>3
<1>7. QED
  BY <1>5, <1>6

LEMMA SyncAccounted ==
  ASSUME RegistriesSound, RowsTyped, SpecsAccounted, RowsKnown, NEW c \in Conns, Sync(c),
         PendingNames \subseteq PendingNames'
  PROVE  SpecsAccounted' /\ RowsKnown'
<1>1. PICK order \in SetToSeqs(Fresh) : cat' = FoldLeft(LoadRow, cat, order)
  BY DEF Sync, Fresh
<1>2. DOMAIN rows' = DOMAIN rows /\ \A n \in DOMAIN rows : FunctionRow(n)' <=> FunctionRow(n)
  <2>1. rows' = [n \in DOMAIN rows |-> [rows[n] EXCEPT !.fresh = FALSE]]
    BY DEF Sync
  <2>2. QED
    BY <2>1 DEF FunctionRow, RowsTyped, IsRow
<1>3. Sound(cat.tables, AccountedTables') /\ Sound(cat.functions, AccountedFunctions')
  BY <1>2, StillAccounted DEF SpecsAccounted
<1>4. RowsWithin(AccountedTables', AccountedFunctions')
  <2> SUFFICES ASSUME NEW n \in DOMAIN rows
               PROVE  rows[n].spec \in
                        IF FunctionRow(n) THEN AccountedFunctions' ELSE AccountedTables'
    BY DEF RowsWithin
  <2>1. rows[n].spec \in IF FunctionRow(n) THEN FunctionSpecs ELSE TableSpecs
    BY RowsWithinSpecs DEF RowsWithin
  <2>2. ~ rows[n].spec.temp /\ SpecName(rows[n].spec) = n
    BY DEF RowsTyped, IsRow, RowSpecs
  <2>3. QED
    BY <1>2, <2>1, <2>2 DEF AccountedFunctions, AccountedTables, Accounted
<1>5. LoadedCatalog(cat', Fresh, AccountedTables', AccountedFunctions')
  BY <1>1, <1>3, <1>4, SyncLoads DEF RegistriesSound
<1>6. RowsKnown'
  <2>1. \A n \in DOMAIN rows' :
           n \in IF FunctionRow(n)' THEN DOMAIN cat'.functions.map ELSE TablesKnown'
    BY <1>2, <1>5 DEF RowsKnown, LoadedCatalog, Loaded, TablesKnown
  <2>2. QED
    BY <2>1 DEF RowsKnown
<1>7. QED
  BY <1>5, <1>6 DEF LoadedCatalog, SpecsAccounted

---------------------------------------------------------------------------
(* One connection: no nil gets into a list of deleted tables.              *)
LEMMA NotNil == \A spec \in TableSpecs : spec # NoSpec
<1>1. \A s \in Created : s.spec.kind # "nil"
  BY StatementsWellFormed DEF Created
<1>2. NoSpec.kind = "nil"
  BY DEF NoSpec
<1>3. QED
  BY <1>1, <1>2 DEF TableSpecs

LEMMA ViewIsAdded ==
  ASSUME NEW call, TablesDeleted(call), NEW spec \in TableSpecs
  PROVE  CanAdd(call.cc.tables, spec)
<1> DEFINE deleted == call.cc.tables.deleted
<1>1. deleted \in Seq(TableSpecs) /\ Append(deleted, spec) \in Seq(TableSpecs)
  BY DEF TablesDeleted
<1>2. \A i \in DOMAIN Append(deleted, spec) : Append(deleted, spec)[i] \in TableSpecs
  BY <1>1
<1>3. NoSpec \notin ToSet(Append(deleted, spec))
  BY <1>2, NotNil DEF ToSet
<1>4. QED
  BY <1>3 DEF CanAdd, Dereferenceable

(* What a call notes of a CREATE and of a DROP that read a spec.           *)
LEMMA NotesDeleted ==
  ASSUME NEW call, HasFields(call), TablesDeleted(call)
  PROVE  /\ \A spec : TablesDeleted([call EXCEPT !.cc.tables = Add(@, spec)])
         /\ \A spec \in TableSpecs : TablesDeleted([call EXCEPT !.cc.tables = Delete(@, spec)])
         /\ \A f, funcMap : TablesDeleted([call EXCEPT !.cc.functions = f, !.funcMap = funcMap])
         /\ \A funcMap : TablesDeleted([call EXCEPT !.funcMap = funcMap])
<1>1. call.cc.tables.deleted \in Seq(TableSpecs)
  BY DEF TablesDeleted
<1>2. ASSUME NEW spec
      PROVE  TablesDeleted([call EXCEPT !.cc.tables = Add(@, spec)])
  <2> DEFINE deleted == WithoutName(call.cc.tables.deleted, spec)
             new == [call EXCEPT !.cc.tables = Add(@, spec)]
  <2>1. deleted \in Seq(TableSpecs)
    BY <1>1, KeepOthersKeeps DEF WithoutName
  <2>2. /\ DOMAIN new.cc = {"tables", "functions"}
        /\ new.cc.tables = Add(call.cc.tables, spec)
    BY DEF TablesDeleted, HasFields, CallFields
  <2> HIDE DEF new, deleted
  <2>3. DOMAIN new.cc.tables = {"added", "deleted"} /\ new.cc.tables.deleted = deleted
    BY <2>2 DEF Add, deleted
  <2>4. TablesDeleted(new)
    BY <2>1, <2>2, <2>3 DEF TablesDeleted
  <2>5. QED
    BY <2>4 DEF new
<1>3. ASSUME NEW spec \in TableSpecs
      PROVE  TablesDeleted([call EXCEPT !.cc.tables = Delete(@, spec)])
  <2> DEFINE deleted == Append(call.cc.tables.deleted, spec)
             new == [call EXCEPT !.cc.tables = Delete(@, spec)]
  <2>1. deleted \in Seq(TableSpecs)
    BY <1>1
  <2>2. /\ DOMAIN new.cc = {"tables", "functions"}
        /\ new.cc.tables = Delete(call.cc.tables, spec)
    BY DEF TablesDeleted, HasFields, CallFields
  <2> HIDE DEF new, deleted
  <2>3. DOMAIN new.cc.tables = {"added", "deleted"} /\ new.cc.tables.deleted = deleted
    BY <2>2 DEF Delete, deleted
  <2>4. TablesDeleted(new)
    BY <2>1, <2>2, <2>3 DEF TablesDeleted
  <2>5. QED
    BY <2>4 DEF new
<1>4. ASSUME NEW f, NEW funcMap
      PROVE  /\ TablesDeleted([call EXCEPT !.cc.functions = f, !.funcMap = funcMap])
             /\ TablesDeleted([call EXCEPT !.funcMap = funcMap])
  BY DEF TablesDeleted, HasFields, CallFields
<1>5. QED
  BY <1>2, <1>3, <1>4

LEMMA AfterNotes ==
  ASSUME NEW call, DOMAIN call = CallFields, TablesDeleted(call)
  PROVE  /\ TablesDeleted(Done(call)) /\ Done(call).step # "unregister"
         /\ TablesDeleted(Failed(call)) /\ Failed(call).step # "unregister"
         /\ TablesDeleted(Panicked(call)) /\ Panicked(call).step # "unregister"
         /\ TablesDeleted(Cleaned(call)) /\ Cleaned(call).step # "unregister"
         /\ TablesDeleted(CleanupFailed(call)) /\ CleanupFailed(call).step # "unregister"
<1> DEFINE done == Done(call)
           failed == Failed(call)
           cleaned == Cleaned(call)
           Kept(new) == DOMAIN new = CallFields /\ new.cc = call.cc /\ new.step # "unregister"
<1>1. Kept(done) /\ Kept(failed) /\ Kept(cleaned)
  BY DEF Done, Failed, Cleaned, CallFields
<1> HIDE DEF done, failed, cleaned
<1>2. /\ Kept([failed EXCEPT !.panicked = TRUE]) /\ Kept([cleaned EXCEPT !.err = TRUE])
  BY <1>1 DEF CallFields
<1>3. \A new : Kept(new) => TablesDeleted(new) /\ new.step # "unregister"
  BY DEF TablesDeleted
<1> HIDE DEF Kept
<1>4. QED
  BY <1>1, <1>2, <1>3 DEF Panicked, CleanupFailed, done, failed, cleaned

LEMMA NoNilKept ==
  ASSUME CallsTyped, RegistriesSound, ~ Fault, NEW c \in Conns, NoNil(c),
         Begin(c) \/ Step(c) \/ CloseRows(c)
  PROVE  NoNil(c)'
<1> DEFINE call == calls[c]
<1>1. IsCall(call) /\ HasFields(call) /\ DOMAIN call = CallFields /\ TablesDeleted(call)
  BY DEF CallsTyped, IsCall, HasFields, NoNil
<1>2. ASSUME NEW new, Set(c, new), TablesDeleted(new), new.step # "unregister"
      PROVE  NoNil(c)'
  <2>1. calls'[c] = new
    BY <1>2 DEF Set, CallsTyped
  <2>2. QED
    BY <1>2, <2>1 DEF NoNil, At, TablesDeleted
<1>3. Fail(c) => NoNil(c)'
  BY <1>1, <1>2, AfterNotes DEF Fail
<1>4. ASSUME NEW new, DOMAIN new = CallFields, new.cc = call.cc PROVE TablesDeleted(new)
  BY <1>1, <1>4 DEF TablesDeleted
<1>5. ASSUME NEW step, step # "unregister", Goto(c, step) PROVE NoNil(c)'
  <2> DEFINE new == [call EXCEPT !.step = step]
  <2>1. DOMAIN new = CallFields /\ new.cc = call.cc /\ new.step = step
    BY <1>1 DEF CallFields
  <2>2. Set(c, new)
    BY <1>5 DEF Goto
  <2> HIDE DEF new
  <2>3. QED
    BY <1>2, <1>4, <1>5, <2>1, <2>2
<1>6. CASE Begin(c)
  <2>1. PICK p \in Programs[c] : Set(c, NewCall(p.script, p.mode, call.n + 1))
    BY <1>6 DEF Begin
  <2> DEFINE new == NewCall(p.script, p.mode, call.n + 1)
  <2>2. /\ new.step = "sync"
        /\ DOMAIN new.cc = {"tables", "functions"}
        /\ DOMAIN new.cc.tables = {"added", "deleted"} /\ new.cc.tables.deleted = << >>
    BY DEF NewCall, newChangedCatalog, NoChanges
  <2> HIDE DEF new
  <2>3. TablesDeleted(new)
    BY <2>2 DEF TablesDeleted
  <2>4. QED
    BY <1>2, <2>1, <2>2, <2>3 DEF new
<1>7. CASE CollectFunctions(c)
  <2> DEFINE new == [call EXCEPT !.step = "stmt", !.funcMap = Rebuild(cat.functions.list).map]
  <2>1. DOMAIN new = CallFields /\ new.cc = call.cc /\ new.step = "stmt"
    BY <1>1 DEF CallFields
  <2>2. Set(c, new)
    BY <1>7 DEF CollectFunctions
  <2> HIDE DEF new
  <2>3. QED
    BY <1>2, <1>4, <2>1, <2>2
<1>8. CASE Query(c) \/ BeginCommit(c)
  <2> DEFINE at == [call EXCEPT !.built = call.pc]
  <2>1. DOMAIN at = CallFields /\ at.cc = call.cc
    BY <1>1 DEF CallFields
  <2>2. Fail(c) \/ Set(c, Done(at)) \/ Set(c, Failed(at))
    BY <1>8 DEF Query, BeginCommit
  <2> HIDE DEF at
  <2>3. QED
    BY <1>2, <1>3, <1>4, <2>1, <2>2, AfterNotes
<1>9. CASE BuildDDL(c)
  <2> DEFINE on == [call EXCEPT !.step = FirstStep(Stmt(c)), !.built = call.pc]
  <2>1. /\ DOMAIN on = CallFields /\ on.cc = call.cc /\ on.step = FirstStep(Stmt(c))
        /\ on.script = call.script /\ on.pc = call.pc
    BY <1>1 DEF CallFields
  <2>2. calls'[c] = on
    BY <1>9 DEF BuildDDL, Set, CallsTyped
  <2>3. FirstStep(Stmt(c)) = "unregister" => IsFunction(Stmt(c))
    BY DEF FirstStep
  <2> HIDE DEF on
  <2>4. TablesDeleted(on)
    BY <1>4, <2>1
  <2>5. QED
    BY <2>1, <2>2, <2>3, <2>4 DEF NoNil, TablesDeleted, At, Stmt
<1>10. CASE ReadSpec(c)
  <2> DEFINE name == StmtName(Stmt(c))
             seen == IF name \in DOMAIN cat.tables.map THEN cat.tables.map[name] ELSE NoSpec
             new == [call EXCEPT !.step = "unregister", !.seen = seen]
  <2>1. /\ DOMAIN new = CallFields /\ new.cc = call.cc /\ new.seen = seen
        /\ new.script = call.script /\ new.pc = call.pc
    BY <1>1 DEF CallFields
  <2>2. calls'[c] = new /\ UNCHANGED cat
    BY <1>10 DEF ReadSpec, Set, CallsTyped
  <2>3. name \in DOMAIN cat.tables.map => seen \in TableSpecs
    BY DEF RegistriesSound, Sound, IsRegistry
  <2>4. TablesDeleted(new)
    <3> HIDE DEF new
    <3>1. QED
      BY <1>4, <2>1
  <2> HIDE DEF new, seen
  <2>5. QED
    BY <2>1, <2>2, <2>3, <2>4 DEF NoNil, TablesDeleted, At, Stmt, Known
<1>11. CASE Register(c)
  <2> DEFINE spec == Stmt(c).spec
  <2>1. Fail(c) \/ Set(c, NoteAdded(call, spec))
    BY <1>11 DEF Register
  <2>2. /\ TablesDeleted([call EXCEPT !.cc.tables = Add(@, spec)])
        /\ \A f, funcMap : TablesDeleted([call EXCEPT !.cc.functions = f, !.funcMap = funcMap])
        /\ \A funcMap : TablesDeleted([call EXCEPT !.funcMap = funcMap])
    BY <1>1, NotesDeleted
  <2>3. /\ DOMAIN [call EXCEPT !.cc.tables = Add(@, spec)] = CallFields
        /\ \A f, funcMap : DOMAIN [call EXCEPT !.cc.functions = f, !.funcMap = funcMap] = CallFields
        /\ \A funcMap : DOMAIN [call EXCEPT !.funcMap = funcMap] = CallFields
    BY <1>1 DEF CallFields
  <2> DEFINE Good(new) == TablesDeleted(new) /\ new.step # "unregister"
  <2>4. \A new : DOMAIN new = CallFields /\ TablesDeleted(new) => Good(Done(new)) /\ Good(Panicked(new))
    BY AfterNotes
  <2> HIDE DEF Good, call, spec
  <2>5. Good(NoteAdded(call, spec))
    <3>1. Good(Done(call)) /\ Good(Panicked(call))
      BY <1>1, <2>4
    <3>2. Good(Done([call EXCEPT !.cc.tables = Add(@, spec)]))
      BY <2>2, <2>3, <2>4
    <3>3. \A f, funcMap : Good(Done([call EXCEPT !.cc.functions = f, !.funcMap = funcMap]))
      BY <2>2, <2>3, <2>4
    <3>4. \A funcMap : Good(Panicked([call EXCEPT !.funcMap = funcMap]))
      BY <2>2, <2>3, <2>4
    <3>5. QED
      BY <3>1, <3>2, <3>3, <3>4, Zenon DEF NoteAdded
  <2>6. QED
    BY <1>2, <1>3, <2>1, <2>5 DEF Good
<1>12. CASE Unregister(c)
  <2> DEFINE stmt == Stmt(c)
  <2>1. Fail(c) \/ (Set(c, NoteDeleted(call, stmt)) /\ Known(stmt))
    BY <1>12 DEF Unregister, Refused
  <2>2. Known(stmt) /\ ~ IsFunction(stmt) => call.seen \in TableSpecs
    BY <1>12 DEF Unregister, NoNil
  <2>3. /\ call.seen \in TableSpecs => TablesDeleted([call EXCEPT !.cc.tables = Delete(@, call.seen)])
        /\ \A f, funcMap : TablesDeleted([call EXCEPT !.cc.functions = f, !.funcMap = funcMap])
    BY <1>1, NotesDeleted
  <2>4. /\ DOMAIN [call EXCEPT !.cc.tables = Delete(@, call.seen)] = CallFields
        /\ \A f, funcMap : DOMAIN [call EXCEPT !.cc.functions = f, !.funcMap = funcMap] = CallFields
    BY <1>1 DEF CallFields
  <2> DEFINE Good(new) == TablesDeleted(new) /\ new.step # "unregister"
  <2>5. \A new : DOMAIN new = CallFields /\ TablesDeleted(new) => Good(Done(new)) /\ Good(Panicked(new))
    BY AfterNotes
  <2> HIDE DEF Good, call, stmt
  <2>6. Known(stmt) => Good(NoteDeleted(call, stmt))
    <3>1. Good(Done(call)) /\ Good(Panicked(call))
      BY <1>1, <2>5
    <3>2. \A f, funcMap : Good(Done([call EXCEPT !.cc.functions = f, !.funcMap = funcMap]))
      BY <2>3, <2>4, <2>5
    <3>3. Known(stmt) /\ ~ IsFunction(stmt) =>
            Good(Done([call EXCEPT !.cc.tables = Delete(@, call.seen)]))
      BY <2>2, <2>3, <2>4, <2>5
    <3>4. QED
      BY <3>1, <3>2, <3>3, Zenon DEF NoteDeleted
  <2>7. QED
    BY <1>2, <1>3, <2>1, <2>6 DEF Good
<1>13. CASE CleanupView(c)
  <2> DEFINE on == [call EXCEPT !.cc.tables = Add(@, Stmt(c).spec)]
             lost == [call EXCEPT !.step = "idle", !.panicked = TRUE]
  <2>1. TablesDeleted(on) /\ DOMAIN on = CallFields
    BY <1>1, NotesDeleted DEF CallFields
  <2>2. DOMAIN lost = CallFields /\ lost.cc = call.cc /\ lost.step # "unregister"
    BY <1>1 DEF CallFields
  <2>3. Set(c, Cleaned(on)) \/ Set(c, lost)
    BY <1>13 DEF CleanupView
  <2> HIDE DEF on, lost
  <2>4. QED
    BY <1>2, <1>4, <2>1, <2>2, <2>3, AfterNotes
<1>14. CASE SkipCleanup(c) \/ Forget(c)
  <2>1. \A funcMap : LET new == [call EXCEPT !.funcMap = funcMap]
                     IN  DOMAIN new = CallFields /\ new.cc = call.cc
    BY <1>1 DEF CallFields
  <2>2. \A funcMap : TablesDeleted([call EXCEPT !.funcMap = funcMap])
    BY <1>4, <2>1
  <2>3. \/ Set(c, Cleaned(call)) \/ Set(c, CleanupFailed(call))
        \/ \E funcMap : Set(c, Cleaned([call EXCEPT !.funcMap = funcMap]))
    BY <1>14 DEF SkipCleanup, Forget
  <2>4. QED
    BY <1>1, <1>2, <2>1, <2>2, <2>3, AfterNotes
<1>15. CASE CleanupObject(c)
  BY <1>1, <1>2, <1>5, <1>15, AfterNotes DEF CleanupObject
<1>16. CASE CloseRows(c)
  <2> DEFINE new == [call EXCEPT !.step = "cleanup", !.pc = 1]
  <2>1. DOMAIN new = CallFields /\ new.cc = call.cc /\ new.step = "cleanup"
    BY <1>1 DEF CallFields
  <2>2. Set(c, new)
    BY <1>16 DEF CloseRows
  <2> HIDE DEF new
  <2>3. QED
    BY <1>2, <1>4, <2>1, <2>2
<1>17. CASE Sync(c) \/ EndCall(c) \/ DropOld(c) \/ Create(c) \/ DropObject(c)
  BY <1>3, <1>5, <1>17 DEF Sync, EndCall, DropOld, Create, DropObject, Refused, Faulty
<1>18. ~ SyncFails(c)
  BY DEF SyncFails
<1>19. QED
  BY <1>6, <1>7, <1>8, <1>9, <1>10, <1>11, <1>12, <1>13, <1>14, <1>15, <1>16, <1>17, <1>18
     DEF Step

---------------------------------------------------------------------------
(* The Cleanup of a temporary object finds in SQLite what it can drop, and *)
(* that of a view does not panic.                                          *)
LEMMA CleanupCanDrop ==
  ASSUME TempKindsAgree, CallsTyped, ObjectsAccounted, NEW c \in Conns, CleanupObject(c)
  PROVE  CanDrop(Stmt(c), TRUE)
<1> DEFINE name == StmtName(Stmt(c))
<1>1. Stmt(c) \in Created /\ Stmt(c).spec.temp
  BY CleaningStmt DEF CleanupObject, IsTempObject
<1>2. SUFFICES ASSUME name \in DOMAIN objs PROVE objs[name] = Stmt(c).spec.kind
  BY DEF CanDrop
<1>3. PICK s \in Created : StmtName(s) = name /\ s.spec.kind = objs[name]
  BY <1>2 DEF ObjectsAccounted
<1>4. QED
  BY <1>1, <1>3 DEF TempKindsAgree

LEMMA CleanupAdds ==
  ASSUME OneConnection \/ NoPermanentViews, CallsTyped, NEW c \in Conns, CleanupView(c),
         OneConnection => NoNil(c)
  PROVE  CanAdd(calls[c].cc.tables, Stmt(c).spec)
<1>1. Stmt(c) \in Created /\ ~ IsFunction(Stmt(c)) /\ ~ Stmt(c).spec.temp
      /\ Stmt(c).spec.kind = "view"
  BY CleaningStmt DEF CleanupView, Created, IsFunction
<1>2. OneConnection
  BY <1>1 DEF NoPermanentViews
<1>3. Stmt(c).spec \in TableSpecs /\ TablesDeleted(calls[c])
  BY <1>1, <1>2 DEF TableSpecs, NoNil
<1>4. QED
  BY <1>3, ViewIsAdded

(* What a statement makes waits for its Cleanup while it is worked on.     *)
LEMMA WorkIsPending ==
  ASSUME CallsTyped, NEW c \in Conns, calls[c].step \in {"create", "register"}
  PROVE  /\ Stmt(c).spec.temp => StmtName(Stmt(c)) \in PendingNames
         /\ IsTempObject(Stmt(c)) => StmtName(Stmt(c)) \in DropNames
<1>1. calls[c].pc \in 1..calls[c].built
  BY DEF CallsTyped, IsCall, HasFields, Working
<1>2. calls[c].pc \in ToClean(calls[c]) /\ calls[c].pc \in ToDrop(calls[c])
  BY <1>1 DEF ToClean, ToDrop
<1>3. QED
  BY <1>2 DEF PendingNames, DropNames, Pending, PendingDrop, Stmt

LEMMA ObjectsStillAccounted ==
  ASSUME CallsTyped, ObjectsAccounted, NEW c \in Conns, Begin(c) \/ Step(c) \/ CloseRows(c),
         DropNames \subseteq DropNames' \cup IF CleanupObject(c) THEN {StmtName(Stmt(c))} ELSE {},
         CleanupObject(c) => CanDrop(Stmt(c), TRUE), ~ Fault
  PROVE  ObjectsAccounted'
<1>1. CASE CleanupObject(c)
  <2>1. objs' = Minus(objs, StmtName(Stmt(c)))
    BY <1>1 DEF CleanupObject
  <2>2. QED
    BY <1>1, <2>1 DEF ObjectsAccounted, Minus
<1>2. CASE ~ CleanupObject(c)
  <2>1. DropNames \subseteq DropNames'
    BY <1>2
  <2>2. CASE UNCHANGED objs
    BY <2>1, <2>2 DEF ObjectsAccounted
  <2>3. ASSUME NEW name, objs' = Minus(objs, name) PROVE ObjectsAccounted'
    BY <2>1, <2>3 DEF ObjectsAccounted, Minus
  <2>4. CASE Create(c) /\ objs' = CreateObject(Stmt(c))
    <3> DEFINE name == StmtName(Stmt(c))
    <3>1. Stmt(c) \in Created /\ ~ IsFunction(Stmt(c)) /\ calls[c].step = "create"
      BY <2>4, RegisterStmt, AtWork DEF Create, At, Working, StmtFits
    <3>2. /\ DOMAIN objs' = DOMAIN objs \cup {name}
          /\ \A n \in DOMAIN objs : objs'[n] = objs[n]
          /\ name \notin DOMAIN objs => objs'[name] = Stmt(c).spec.kind
      BY <2>4 DEF CreateObject, WithNew
    <3>3. name \in TempNames => name \in DropNames
      <4>1. Stmt(c).spec.temp \/ Stmt(c).spec.temp = FALSE
        BY <3>1, StatementsWellFormed DEF Created
      <4>2. name \in TempNames => Stmt(c).spec.temp
        BY <3>1, <4>1 DEF TempNames, NamesCreated, Created
      <4>3. QED
        BY <3>1, <4>2, WorkIsPending DEF IsTempObject
    <3>4. QED
      BY <2>1, <3>1, <3>2, <3>3 DEF ObjectsAccounted
  <2>5. \/ UNCHANGED objs
        \/ \E name : objs' = Minus(objs, name)
        \/ Create(c) /\ objs' = CreateObject(Stmt(c))
    <3>1. CASE Begin(c) \/ CloseRows(c)
      BY <3>1 DEF Begin, CloseRows
    <3>2. CASE Create(c)
      BY <3>2 DEF Create, Refused, Faulty
    <3>3. CASE DropOld(c) \/ DropObject(c)
      BY <3>3 DEF DropOld, DropObject, Refused, Faulty
    <3>4. CASE Step(c) /\ ~ (Create(c) \/ DropOld(c) \/ DropObject(c))
      BY <1>2, <3>4 DEF Step, Sync, SyncFails, CollectFunctions, BuildDDL, Query, BeginCommit,
            Register, ReadSpec, Unregister, SkipCleanup, CleanupView, Forget, EndCall,
            Refused, Faulty
    <3>5. QED
      BY <3>1, <3>2, <3>3, <3>4
  <2>6. QED
    BY <2>2, <2>3, <2>4, <2>5
<1>3. QED
  BY <1>1, <1>2

LEMMA CleanupStep ==
  ASSUME ExecOnly, TempKindsAgree, OneConnection \/ NoPermanentViews,
         IInv, RowsTyped', CleanupInv, ~ Fault, NEW c \in Conns, OneConnection => NoNil(c),
         Begin(c) \/ Step(c) \/ CloseRows(c)
  PROVE  CleanupInv'
<1> USE DEF IInv, CleanupInv
<1> DEFINE s == Stmt(c)
<1>1. CleanupObject(c) => CanDrop(s, TRUE)
  BY CleanupCanDrop
<1>2. CleanupView(c) => CanAdd(calls[c].cc.tables, s.spec)
  BY CleanupAdds
<1>3. /\ ExecCalls'
      /\ PendingNames \subseteq PendingNames' \cup IF Forget(c) THEN {StmtName(s)} ELSE {}
      /\ DropNames \subseteq DropNames' \cup IF CleanupObject(c) THEN {StmtName(s)} ELSE {}
  BY <1>1, <1>2, PendingKept
<1>4. ObjectsAccounted'
  BY <1>1, <1>3, ObjectsStillAccounted
<1>5. CASE Forget(c)
  <2>1. s \in Statements
    BY <1>5, CleaningStmt DEF Forget
  <2>2. Removes(s) \/ (~ Known(s) /\ UNCHANGED <<cat, rows>>)
    BY <1>5 DEF Forget, Removes
  <2> HIDE DEF s
  <2>3. QED
    BY <1>3, <1>4, <2>1, <2>2, RemoveAccounted
<1>6. CASE ~ Forget(c)
  <2>1. PendingNames \subseteq PendingNames'
    BY <1>3, <1>6
  <2>2. CASE Sync(c)
    BY <1>3, <1>4, <2>1, <2>2, SyncAccounted
  <2>3. CASE Register(c)
    <3>1. s \in Created /\ (s.spec.temp => StmtName(s) \in PendingNames)
      BY <2>3, RegisterStmt, WorkIsPending DEF Register, At
    <3>2. Adds(s)
      BY <2>3 DEF Register, NeedsRow, Adds
    <3> HIDE DEF s
    <3>3. QED
      BY <1>3, <1>4, <2>1, <3>1, <3>2, AddAccounted
  <2>4. CASE Unregister(c)
    <3>1. s \in Statements
      BY <2>4, AtWork DEF Unregister, At, Working
    <3>2. Removes(s) \/ (~ Known(s) /\ UNCHANGED <<cat, rows>>)
      BY <2>4 DEF Unregister, Removes, Refused
    <3> HIDE DEF s
    <3>3. QED
      BY <1>3, <1>4, <2>1, <3>1, <3>2, RemoveAccounted
  <2>5. CASE UNCHANGED <<cat, rows>>
    <3>1. SpecsAccounted'
      BY <2>1, <2>5, StillAccounted DEF SpecsAccounted
    <3>2. RowsKnown'
      BY <2>5 DEF RowsKnown, FunctionRow, TablesKnown
    <3>3. QED
      BY <1>3, <1>4, <3>1, <3>2
  <2>6. \/ Sync(c) \/ Register(c) \/ Unregister(c) \/ UNCHANGED <<cat, rows>>
    BY <1>6 DEF Step, SyncFails, CollectFunctions, BuildDDL, Query, BeginCommit, DropOld, Create,
           DropObject, ReadSpec, SkipCleanup, CleanupView, CleanupObject, EndCall,
           Refused, Faulty, Begin, CloseRows
  <2>7. QED
    BY <2>2, <2>3, <2>4, <2>5, <2>6
<1>7. QED
  BY <1>5, <1>6

---------------------------------------------------------------------------
LEMMA CleanupStarts ==
  ASSUME Init
  PROVE  CleanupInv /\ (\A c \in Conns : NoNil(c) /\ TablesAgree(c))
<1>1. \A c \in Conns : calls[c] = NoCall(0)
  BY DEF Init
<1> DEFINE call == NoCall(0)
<1>2. /\ call.mode = "exec" /\ call.step = "idle"
      /\ DOMAIN call.cc = {"tables", "functions"}
      /\ DOMAIN call.cc.tables = {"added", "deleted"} /\ call.cc.tables.deleted = << >>
  BY DEF NoCall, NewCall, newChangedCatalog, NoChanges
<1> HIDE DEF call
<1>3. ExecCalls
  BY <1>1, <1>2 DEF ExecCalls, call
<1>4. DOMAIN objs = {} /\ DOMAIN rows = {}
  BY DEF Init
<1>5. ObjectsAccounted /\ RowsKnown
  BY <1>4 DEF ObjectsAccounted, RowsKnown
<1>6. /\ Sound(cat.tables, AccountedTables) /\ Sound(cat.functions, AccountedFunctions)
      /\ TablesKnown = {}
  <2>1. MissingFunctions \in Seq(AccountedFunctions)
    BY MissingFunctionsType DEF AccountedFunctions, FunctionSpecs
  <2>2. cat = NewCatalog(MissingFunctions)
    BY DEF Init
  <2>3. QED
    BY <2>1, <2>2, MissingFunctionsType, NewCatalogSound DEF TablesKnown
<1>7. ASSUME NEW c \in Conns PROVE NoNil(c) /\ TablesAgree(c)
  <2>1. calls[c] = call
    BY <1>1 DEF call
  <2>2. NoNil(c)
    <3>1. TablesDeleted(call)
      BY <1>2 DEF TablesDeleted
    <3>2. QED
      BY <1>2, <2>1, <3>1 DEF NoNil, At
  <2>3. HalfDone(calls[c]) = {} /\ TablesKnown = DOMAIN objs
    BY <1>2, <1>4, <1>6, <2>1 DEF HalfDone, HalfSteps
  <2>4. TablesAgree(c)
    BY <1>2, <2>1, <2>3 DEF TablesAgree, At
  <2>5. QED
    BY <2>2, <2>4
<1>8. QED
  BY <1>3, <1>5, <1>6, <1>7 DEF CleanupInv, SpecsAccounted

(* Between two statements or actions nothing is half done.                 *)
Resting(call) == call.step \notin HalfSteps

LEMMA RestAfter ==
  ASSUME NEW call, DOMAIN call = CallFields
  PROVE  /\ Resting(Done(call)) /\ Resting(Failed(call)) /\ Resting(Panicked(call))
         /\ Resting(Cleaned(call)) /\ Resting(CleanupFailed(call))
<1> DEFINE failed == Failed(call)
           cleaned == Cleaned(call)
<1>1. Resting(Done(call))
  BY DEF Done, Resting, HalfSteps, CallFields
<1>2. DOMAIN failed = CallFields /\ failed.step \in {"cleanup", "idle"}
  BY DEF Failed, CallFields
<1>3. DOMAIN cleaned = CallFields /\ cleaned.step = "cleanup"
  BY DEF Cleaned, CallFields
<1> HIDE DEF failed, cleaned
<1>4. /\ Resting(failed) /\ Resting([failed EXCEPT !.panicked = TRUE])
      /\ Resting(cleaned) /\ Resting([cleaned EXCEPT !.err = TRUE])
  BY <1>2, <1>3 DEF Resting, HalfSteps, CallFields
<1>5. QED
  BY <1>1, <1>4 DEF Panicked, CleanupFailed, failed, cleaned

LEMMA RestAfterNotes ==
  ASSUME NEW call, DOMAIN call = CallFields
  PROVE  /\ \A spec : Resting(NoteAdded(call, spec))
         /\ \A stmt : Resting(NoteDeleted(call, stmt))
<1>1. \A new : DOMAIN new = CallFields => Resting(Done(new)) /\ Resting(Panicked(new))
  BY RestAfter
<1>2. /\ \A funcMap : DOMAIN [call EXCEPT !.funcMap = funcMap] = CallFields
      /\ \A f, funcMap : DOMAIN [call EXCEPT !.cc.functions = f, !.funcMap = funcMap] = CallFields
      /\ \A t : DOMAIN [call EXCEPT !.cc.tables = t] = CallFields
  BY DEF CallFields
<1>3. ASSUME NEW spec PROVE Resting(NoteAdded(call, spec))
  BY <1>1, <1>2, Zenon DEF NoteAdded
<1>4. ASSUME NEW stmt PROVE Resting(NoteDeleted(call, stmt))
  BY <1>1, <1>2, Zenon DEF NoteDeleted
<1>5. QED
  BY <1>3, <1>4

(* The steps between two statements or actions change the call only.       *)
LEMMA RestingStep ==
  ASSUME CallsTyped, NEW c \in Conns,
         \/ Begin(c) \/ SyncFails(c) \/ CollectFunctions(c) \/ Query(c) \/ BeginCommit(c)
         \/ SkipCleanup(c) \/ CleanupView(c) \/ EndCall(c) \/ CloseRows(c)
  PROVE  /\ UNCHANGED <<cat, objs, rows>> /\ Resting(calls[c])
         /\ \E new :
              /\ Set(c, new) /\ Resting(new)
              /\ calls[c].step \in {"idle", "sync"} => new.step \in {"idle", "sync"}
<1> DEFINE call == calls[c]
           stmt == Stmt(c)
<1>1. DOMAIN call = CallFields
  BY DEF CallsTyped, IsCall, HasFields
<1>2. UNCHANGED <<cat, objs, rows>> /\ Resting(call)
  BY DEF Begin, SyncFails, CollectFunctions, Query, BeginCommit, SkipCleanup, CleanupView, EndCall,
         CloseRows, At, Cleaning, Resting, HalfSteps
<1>3. ASSUME NEW new, DOMAIN new = CallFields
      PROVE  /\ Resting(Done(new)) /\ Resting(Failed(new)) /\ Resting(Cleaned(new))
  BY <1>3, RestAfter
<1>4. CASE Begin(c)
  BY <1>2, <1>4 DEF Begin, NewCall, Resting, HalfSteps
<1>5. CASE SyncFails(c)
  <2> DEFINE idle == [call EXCEPT !.step = "idle", !.err = TRUE]
  <2>1. idle.step = "idle" /\ Set(c, idle)
    BY <1>1, <1>5 DEF SyncFails, CallFields
  <2> HIDE DEF idle
  <2>2. QED
    BY <1>2, <2>1 DEF Resting, HalfSteps
<1> DEFINE Goes == (\E new : Set(c, new) /\ Resting(new)) /\ call.step \notin {"idle", "sync"}
<1>6. CASE CollectFunctions(c)
  <2> DEFINE new == [call EXCEPT !.step = "stmt", !.funcMap = Rebuild(cat.functions.list).map]
  <2>1. new.step = "stmt" /\ Set(c, new) /\ call.step = "functions"
    BY <1>1, <1>6 DEF CollectFunctions, CallFields, At
  <2> HIDE DEF new
  <2>2. Goes
    BY <2>1 DEF Resting, HalfSteps
  <2>3. QED
    BY <1>2, <2>2
<1>7. CASE Query(c) \/ BeginCommit(c)
  <2> DEFINE at == [call EXCEPT !.built = call.pc]
  <2>1. DOMAIN at = CallFields /\ call.step = "stmt"
    BY <1>1, <1>7 DEF Query, BeginCommit, At
  <2>2. Set(c, Failed(call)) \/ Set(c, Done(at)) \/ Set(c, Failed(at))
    BY <1>7 DEF Query, BeginCommit, Fail
  <2> HIDE DEF at
  <2>3. Goes
    BY <1>1, <1>3, <2>1, <2>2
  <2>4. QED
    BY <1>2, <2>3
<1>8. CASE SkipCleanup(c)
  <2>1. Goes
    BY <1>1, <1>3, <1>8 DEF SkipCleanup, Cleaning, At
  <2>2. QED
    BY <1>2, <2>1
<1>9. CASE CleanupView(c)
  <2> DEFINE on == [call EXCEPT !.cc.tables = Add(@, stmt.spec)]
             lost == [call EXCEPT !.step = "idle", !.panicked = TRUE]
  <2>1. DOMAIN on = CallFields /\ lost.step = "idle" /\ call.step = "cleanup"
    BY <1>1, <1>9 DEF CallFields, CleanupView, Cleaning, At
  <2>2. Set(c, Cleaned(on)) \/ Set(c, lost)
    BY <1>9 DEF CleanupView
  <2> HIDE DEF on, lost
  <2>3. Goes
    BY <1>3, <2>1, <2>2 DEF Resting, HalfSteps
  <2>4. QED
    BY <1>2, <2>3
<1>10. CASE EndCall(c) \/ CloseRows(c)
  <2> DEFINE idle == [call EXCEPT !.step = "idle"]
             first == [call EXCEPT !.step = "cleanup", !.pc = 1]
  <2>1. idle.step = "idle" /\ first.step = "cleanup" /\ call.step \in {"cleanup", "rows"}
    BY <1>1, <1>10 DEF CallFields, EndCall, CloseRows, At
  <2>2. Set(c, idle) \/ Set(c, first)
    BY <1>10 DEF EndCall, CloseRows, Goto
  <2> HIDE DEF idle, first
  <2>3. Goes
    BY <2>1, <2>2 DEF Resting, HalfSteps
  <2>4. QED
    BY <1>2, <2>3
<1>11. QED
  BY <1>4, <1>5, <1>6, <1>7, <1>8, <1>9, <1>10

(* What is known of the tables after a step.                               *)
LEMMA TablesRest ==
  ASSUME CallsTyped, NEW c \in Conns, NEW new, Set(c, new), TablesKnown' = DOMAIN objs',
         Resting(new) \/ (new.step # "create" /\ IsFunction(new.script[new.pc]))
  PROVE  TablesAgree(c)'
<1>1. calls'[c] = new
  BY DEF Set, CallsTyped
<1>2. HalfDone(calls'[c]) = {}
  BY <1>1 DEF HalfDone, Resting
<1>3. TablesKnown' \ HalfDone(calls'[c]) = DOMAIN objs' \ HalfDone(calls'[c])
  BY <1>2
<1>4. QED
  BY <1>1, <1>3 DEF TablesAgree, Resting, HalfSteps, At, Stmt

LEMMA TablesHalf ==
  ASSUME CallsTyped, NEW c \in Conns, NEW step \in HalfSteps,
         NEW new, Set(c, new), new.step = step, ~ IsFunction(Stmt(c)),
         new.script = calls[c].script, new.pc = calls[c].pc,
         TablesKnown' \ {StmtName(Stmt(c))} = DOMAIN objs' \ {StmtName(Stmt(c))},
         step = "create" => IF Stmt(c).mode = "replace" THEN StmtName(Stmt(c)) \notin DOMAIN objs'
                            ELSE StmtName(Stmt(c)) \in TablesKnown' <=> StmtName(Stmt(c)) \in DOMAIN objs',
         step = "register" => StmtName(Stmt(c)) \in DOMAIN objs',
         step \in {"read", "unregister", "forget"} => StmtName(Stmt(c)) \notin DOMAIN objs'
  PROVE  TablesAgree(c)'
<1>1. calls'[c] = new
  BY DEF Set, CallsTyped
<1>2. Stmt(c)' = Stmt(c)
  BY <1>1 DEF Stmt
<1>3. HalfDone(calls'[c]) = {StmtName(Stmt(c))}
  BY <1>1 DEF HalfDone, Stmt
<1>4. QED
  BY <1>1, <1>2, <1>3 DEF TablesAgree, At, HalfSteps

LEMMA TablesAgreeKept ==
  ASSUME IInv, RowsKnown, TempKindsAgree, ObjectsAccounted, ~ Fault, NEW c \in Conns,
         TablesAgree(c), Begin(c) \/ Step(c) \/ CloseRows(c)
  PROVE  TablesAgree(c)'
<1> DEFINE call == calls[c]
           stmt == Stmt(c)
           name == StmtName(stmt)
<1>1. CallsTyped /\ IsCall(call) /\ HasFields(call) /\ DOMAIN call = CallFields
  BY DEF IInv, CallsTyped, IsCall, HasFields
<1>2. Resting(call) \/ IsFunction(stmt) => TablesKnown = DOMAIN objs
  BY DEF TablesAgree, HalfDone, Resting, Stmt
<1>3. call.step \in HalfSteps /\ ~ IsFunction(stmt) =>
        TablesKnown \ {name} = DOMAIN objs \ {name}
  BY DEF TablesAgree, HalfDone, Stmt
<1>4. Fail(c) /\ TablesKnown' = DOMAIN objs' => TablesAgree(c)'
  BY <1>1, RestAfter, TablesRest DEF Fail
<1>5. ASSUME NEW step \in HalfSteps, Goto(c, step), ~ IsFunction(stmt),
             TablesKnown' \ {name} = DOMAIN objs' \ {name},
             step = "create" => stmt.mode = "replace" /\ name \notin DOMAIN objs',
             step = "register" => name \in DOMAIN objs',
             step \in {"read", "unregister", "forget"} => name \notin DOMAIN objs'
      PROVE  TablesAgree(c)'
  <2> DEFINE new == [call EXCEPT !.step = step]
  <2>1. /\ Set(c, new) /\ new.step = step /\ new.script = call.script /\ new.pc = call.pc
    BY <1>1, <1>5 DEF Goto, CallFields
  <2> HIDE DEF new
  <2>2. QED
    BY <1>1, <1>5, <2>1, TablesHalf
<1>6. CASE \/ Begin(c) \/ CollectFunctions(c) \/ Query(c) \/ BeginCommit(c) \/ SkipCleanup(c)
           \/ CleanupView(c) \/ EndCall(c) \/ CloseRows(c)
  <2>1. UNCHANGED <<cat, objs>> /\ Resting(call) /\ (\E new : Set(c, new) /\ Resting(new))
    BY <1>1, <1>6, RestingStep
  <2>2. TablesKnown' = DOMAIN objs'
    BY <1>2, <2>1 DEF TablesKnown
  <2>3. QED
    BY <1>1, <2>1, <2>2, TablesRest
<1>7. CASE Sync(c)
  <2>1. PICK order \in SetToSeqs(Fresh) : cat' = FoldLeft(LoadRow, cat, order)
    BY <1>7 DEF Sync, Fresh
  <2>2. LoadedCatalog(cat', Fresh, TableSpecs, FunctionSpecs)
    BY <2>1, SyncLoads, RowsWithinSpecs DEF IInv, RegistriesSound
  <2>3. TablesKnown' = TablesKnown
    BY <2>2 DEF LoadedCatalog, Loaded, RowsKnown, TablesKnown, Fresh
  <2>4. /\ UNCHANGED objs /\ Resting(call)
        /\ Set(c, [call EXCEPT !.step = "functions"])
    BY <1>7 DEF Sync, At, Goto, Resting, HalfSteps
  <2>5. Resting([call EXCEPT !.step = "functions"])
    BY <1>1 DEF Resting, HalfSteps, CallFields
  <2>6. QED
    BY <1>1, <1>2, <2>3, <2>4, <2>5, TablesRest
<1>8. CASE BuildDDL(c)
  <2> DEFINE step == FirstStep(stmt)
             on == [call EXCEPT !.step = step, !.built = call.pc]
  <2>1. /\ on.step = step /\ on.script = call.script /\ on.pc = call.pc /\ Set(c, on)
        /\ Resting(call) /\ UNCHANGED <<cat, objs>>
    BY <1>1, <1>8 DEF BuildDDL, CallFields, At, Resting, HalfSteps
  <2>2. TablesKnown' = DOMAIN objs'
    BY <1>2, <2>1 DEF TablesKnown
  <2>3. \/ step \notin HalfSteps \/ (step # "create" /\ IsFunction(stmt))
        \/ step = "create" /\ ~ IsFunction(stmt) /\ stmt.mode # "replace"
    BY DEF FirstStep, HalfSteps
  <2> HIDE DEF on, step
  <2>4. CASE step \notin HalfSteps \/ (step # "create" /\ IsFunction(stmt))
    BY <1>1, <2>1, <2>2, <2>4, TablesRest DEF Resting, Stmt
  <2>5. CASE step = "create" /\ ~ IsFunction(stmt) /\ stmt.mode # "replace"
    BY <1>1, <2>1, <2>2, <2>5, TablesHalf DEF HalfSteps
  <2>6. QED
    BY <2>3, <2>4, <2>5
<1>9. CASE DropOld(c)
  <2>1. Resting(call) /\ call.step = "dropOld" /\ UNCHANGED cat
    BY <1>9 DEF DropOld, Refused, Faulty, At, Resting, HalfSteps
  <2>2. ~ IsFunction(stmt) /\ stmt.mode = "replace"
    BY <1>1, <2>1, AtWork DEF StmtFits, Working
  <2>3. \/ Fail(c) /\ UNCHANGED objs
        \/ objs' = Minus(objs, name) /\ Goto(c, "create")
    BY <1>9 DEF DropOld, Refused, Faulty
  <2>4. QED
    BY <1>2, <1>4, <1>5, <2>1, <2>2, <2>3 DEF TablesKnown, Minus, HalfSteps
<1>10. CASE Create(c)
  <2>1. call.step = "create" /\ UNCHANGED cat /\ call.step \in HalfSteps
    BY <1>10 DEF Create, Refused, Faulty, At, HalfSteps
  <2>2. ~ IsFunction(stmt)
    BY <1>1, <2>1, AtWork DEF StmtFits, Working
  <2>3. IF stmt.mode = "replace" THEN name \notin DOMAIN objs
                                 ELSE name \in TablesKnown <=> name \in DOMAIN objs
    BY <2>1 DEF TablesAgree, At
  <2>4. CASE ~ CanCreate(stmt) /\ Refused(c)
    BY <1>3, <1>4, <2>1, <2>2, <2>3, <2>4 DEF CanCreate, Refused, TablesKnown
  <2>5. CASE objs' = CreateObject(stmt) /\ Goto(c, "register")
    <3>1. DOMAIN objs' = DOMAIN objs \cup {name}
      BY <2>5 DEF CreateObject, WithNew
    <3>2. QED
      BY <1>3, <1>5, <2>1, <2>2, <2>5, <3>1 DEF TablesKnown, HalfSteps
  <2>6. QED
    BY <1>10, <2>4, <2>5 DEF Create, Faulty
<1>11. CASE Register(c)
  <2>1. /\ call.step = "register" /\ call.step \in HalfSteps /\ UNCHANGED objs
        /\ cat' = CatalogWith(stmt.spec) /\ Set(c, NoteAdded(call, stmt.spec))
    BY <1>11 DEF Register, At, HalfSteps
  <2>2. stmt \in Created
    BY <1>1, <2>1, RegisterStmt
  <2>3. stmt.spec \in IF IsFunction(stmt) THEN FunctionSpecs ELSE TableSpecs
    BY <2>2, CreatedSpec
  <2>4. TablesKnown' = IF IsFunction(stmt) THEN TablesKnown ELSE TablesKnown \cup {name}
    BY <2>1, <2>3, CatalogWithAdds DEF IInv, RegistriesSound, TablesKnown
  <2>5. ~ IsFunction(stmt) => name \in DOMAIN objs
    BY <2>1 DEF TablesAgree, At
  <2>6. TablesKnown' = DOMAIN objs'
    BY <1>2, <1>3, <2>1, <2>4, <2>5
  <2>7. QED
    BY <1>1, <2>1, <2>6, RestAfterNotes, TablesRest
<1>12. CASE DropObject(c)
  <2>1. Resting(call) /\ call.step = "dropObject" /\ UNCHANGED cat
    BY <1>12 DEF DropObject, Refused, Faulty, At, Resting, HalfSteps
  <2>2. ~ IsFunction(stmt)
    BY <1>1, <2>1, AtWork DEF StmtFits, Working
  <2>3. \/ Fail(c) /\ UNCHANGED objs
        \/ objs' = Minus(objs, name) /\ Goto(c, "read")
    BY <1>12 DEF DropObject, Refused, Faulty
  <2>4. QED
    BY <1>2, <1>4, <1>5, <2>1, <2>2, <2>3 DEF TablesKnown, Minus, HalfSteps
<1>13. CASE ReadSpec(c)
  <2> DEFINE seen == IF name \in DOMAIN cat.tables.map THEN cat.tables.map[name] ELSE NoSpec
             new == [call EXCEPT !.step = "unregister", !.seen = seen]
  <2>1. /\ new.step = "unregister" /\ new.script = call.script /\ new.pc = call.pc
        /\ Set(c, new) /\ call.step = "read" /\ UNCHANGED <<cat, objs>>
    BY <1>1, <1>13 DEF ReadSpec, CallFields, At
  <2>2. ~ IsFunction(stmt)
    BY <1>1, <2>1, AtWork DEF StmtFits, Working
  <2>3. name \notin DOMAIN objs
    BY <2>1, <2>2 DEF TablesAgree
  <2> HIDE DEF new, seen
  <2>4. QED
    BY <1>1, <1>3, <2>1, <2>2, <2>3, TablesHalf DEF HalfSteps, TablesKnown
<1>14. CASE Unregister(c) \/ Forget(c)
  <2>1. ~ IsFunction(stmt) => call.step \in {"unregister", "forget"}
    BY <1>14 DEF Unregister, Forget, At
  <2>2. ~ IsFunction(stmt) => name \notin DOMAIN objs /\ TablesKnown \ {name} = DOMAIN objs
    BY <1>3, <2>1 DEF TablesAgree, HalfSteps
  <2>3. \/ ~ Known(stmt) /\ UNCHANGED cat
        \/ Known(stmt) /\ cat' = CatalogWithout(stmt)
    BY <1>14 DEF Unregister, Forget, Refused
  <2>4. TablesKnown' = TablesKnown \ IF IsFunction(stmt) THEN {} ELSE {name}
    <3>1. CASE ~ Known(stmt) /\ UNCHANGED cat
      BY <3>1 DEF Known, TablesKnown
    <3>2. CASE Known(stmt) /\ cat' = CatalogWithout(stmt)
      BY <3>2, CatalogWithoutRemoves DEF IInv, RegistriesSound, TablesKnown
    <3>3. QED
      BY <2>3, <3>1, <3>2
  <2>5. UNCHANGED objs
    BY <1>14 DEF Unregister, Forget, Refused
  <2>6. TablesKnown' = DOMAIN objs'
    BY <1>2, <2>2, <2>4, <2>5
  <2>7. \E new : Set(c, new) /\ Resting(new)
    <3>1. CASE Unregister(c)
      BY <1>1, <3>1, RestAfter, RestAfterNotes DEF Unregister, Refused, Fail
    <3>2. CASE Forget(c)
      <4>1. \/ Set(c, CleanupFailed(call))
            \/ \E funcMap : Set(c, Cleaned([call EXCEPT !.funcMap = funcMap]))
        BY <3>2 DEF Forget
      <4>2. \A funcMap : DOMAIN [call EXCEPT !.funcMap = funcMap] = CallFields
        BY <1>1
      <4>3. QED
        BY <1>1, <4>1, <4>2, RestAfter
    <3>3. QED
      BY <1>14, <3>1, <3>2
  <2>8. QED
    BY <1>1, <2>6, <2>7, TablesRest
<1>15. CASE CleanupObject(c)
  <2>1. /\ call.step = "cleanup" /\ Resting(call) /\ UNCHANGED cat /\ ~ IsFunction(stmt)
        /\ CanDrop(stmt, TRUE)
    BY <1>1, <1>15, CleanupCanDrop
       DEF CleanupObject, Cleaning, At, Resting, HalfSteps, IsTempObject
  <2>2. objs' = Minus(objs, name) /\ Goto(c, "forget")
    BY <1>15, <2>1 DEF CleanupObject
  <2>3. QED
    BY <1>2, <1>5, <2>1, <2>2 DEF TablesKnown, Minus, HalfSteps
<1>16. ~ SyncFails(c)
  BY DEF SyncFails
<1>17. QED
  BY <1>6, <1>7, <1>8, <1>9, <1>10, <1>11, <1>12, <1>13, <1>14, <1>15, <1>16 DEF Step

---------------------------------------------------------------------------
(* All of it, as long as nothing fails without a reason and the process    *)
(* does not die.                                                           *)
CleanupAlways ==
    faults = 0 /\ restarts = 0 =>
        CleanupInv /\ (OneConnection => \A c \in Conns : NoNil(c) /\ TablesAgree(c))

LEMMA NothingHappens ==
  ASSUME CleanupAlways, UNCHANGED vars
  PROVE  CleanupAlways'
<1>1. SpecsAccounted => SpecsAccounted'
  BY DEF vars, SpecsAccounted, AccountedTables, AccountedFunctions, Accounted, PendingNames,
         Pending, ToClean
<1>2. ExecCalls /\ RowsKnown => ExecCalls' /\ RowsKnown'
  BY DEF vars, ExecCalls, RowsKnown, FunctionRow, TablesKnown
<1>3. ObjectsAccounted => ObjectsAccounted'
  BY DEF vars, ObjectsAccounted, DropNames, PendingDrop, ToDrop, ToClean
<1>4. ASSUME NEW c \in Conns PROVE NoNil(c) /\ TablesAgree(c) => NoNil(c)' /\ TablesAgree(c)'
  BY DEF vars, NoNil, TablesDeleted, TablesAgree, HalfDone, At, Stmt, Known, TablesKnown
<1>5. CleanupInv => CleanupInv'
  BY <1>1, <1>2, <1>3 DEF CleanupInv
<1>6. UNCHANGED <<faults, restarts>>
  BY DEF vars
<1>7. QED
  BY <1>4, <1>5, <1>6 DEF CleanupAlways

LEMMA AlwaysCleaned ==
  ASSUME ExecOnly, TempKindsAgree, OneConnection \/ NoPermanentViews
  PROVE  Spec => []CleanupAlways
<1>1. Init => CleanupAlways
  BY CleanupStarts DEF CleanupAlways
<1>2. IInv /\ IInv' /\ CleanupAlways /\ [Next]_vars => CleanupAlways'
  <2> SUFFICES ASSUME IInv, IInv', CleanupAlways, [Next]_vars, faults' = 0, restarts' = 0
               PROVE  CleanupAlways'
    BY DEF CleanupAlways
  <2>1. faults \in Nat /\ restarts \in Nat
    BY BoundsType DEF IInv, CountersTyped
  <2>2. ~ Fault /\ faults = 0 /\ UNCHANGED restarts /\ restarts = 0
    BY <2>1, CountersStep DEF Fault
  <2>3. ~ Restart
    BY <2>1, <2>2 DEF Restart
  <2>4. CASE UNCHANGED vars
    BY <2>4, NothingHappens
  <2>5. ASSUME NEW c \in Conns, Begin(c) \/ Step(c) \/ CloseRows(c)
        PROVE  CleanupAlways'
    <3>1. CleanupInv /\ (OneConnection => NoNil(c) /\ TablesAgree(c))
      BY <2>2 DEF CleanupAlways
    <3>2. CleanupInv'
      BY <2>2, <2>5, <3>1, CleanupStep DEF IInv
    <3>3. OneConnection => NoNil(c)' /\ TablesAgree(c)'
      BY <2>2, <2>5, <3>1, NoNilKept, TablesAgreeKept DEF IInv, CleanupInv
    <3>4. OneConnection => \A d \in Conns : d = c
      BY DEF OneConnection
    <3>5. QED
      BY <3>2, <3>3, <3>4 DEF CleanupAlways
  <2>6. QED
    BY <2>3, <2>4, <2>5 DEF Next
<1>3. QED
  BY <1>1, <1>2, AlwaysTyped, PTL DEF Spec

---------------------------------------------------------------------------
(* What is left to clean up when no call is under way: nothing.            *)
LEMMA AtRest ==
  ASSUME CleanupInv, Quiet
  PROVE  /\ PendingNames = {} /\ DropNames = {}
         /\ \A n \in TablesKnown : ~ cat.tables.map[n].temp /\ n \in DOMAIN rows
         /\ \A n \in FunctionsKnown : ~ cat.functions.map[n].temp /\ n \in DOMAIN rows
<1>1. \A c \in Conns : ToClean(calls[c]) = {} /\ ToDrop(calls[c]) = {}
  BY DEF Quiet, At, ToClean, ToDrop
<1>2. PendingNames = {} /\ DropNames = {}
  BY <1>1 DEF PendingNames, DropNames, Pending, PendingDrop
<1>3. ASSUME NEW n \in TablesKnown
      PROVE  ~ cat.tables.map[n].temp /\ n \in DOMAIN rows
  <2>1. cat.tables.map[n] \in AccountedTables /\ SpecName(cat.tables.map[n]) = n
    BY DEF CleanupInv, SpecsAccounted, Sound, IsRegistry, Consistent, TablesKnown
  <2>2. QED
    BY <1>2, <2>1 DEF AccountedTables, Accounted
<1>4. ASSUME NEW n \in FunctionsKnown
      PROVE  ~ cat.functions.map[n].temp /\ n \in DOMAIN rows
  <2>1. /\ cat.functions.map[n] \in AccountedFunctions
        /\ SpecName(cat.functions.map[n]) = n /\ n \notin Names(MissingFunctions)
    BY DEF CleanupInv, SpecsAccounted, Sound, IsRegistry, Consistent, FunctionsKnown
  <2>2. cat.functions.map[n] \notin ToSet(MissingFunctions)
    BY <2>1 DEF Names, ToSet
  <2>3. QED
    BY <1>2, <2>1, <2>2 DEF AccountedFunctions, Accounted
<1>5. QED
  BY <1>2, <1>3, <1>4

(* An object of which scripts make only temporary ones is temporary.       *)
LEMMA TempNamesAreTemp ==
  ASSUME RegistriesSound, NEW n \in TempNames
  PROVE  /\ n \in TablesKnown => cat.tables.map[n].temp
         /\ n \in FunctionsKnown => cat.functions.map[n].temp
<1>1. ASSUME NEW s \in Created, StmtName(s) = n PROVE s.spec.temp
  <2>1. s.spec.temp = TRUE \/ s.spec.temp = FALSE
    BY StatementsWellFormed DEF Created
  <2>2. QED
    BY <1>1, <2>1 DEF TempNames, NamesCreated, Created
<1>2. ASSUME n \in TablesKnown PROVE cat.tables.map[n].temp
  <2>1. cat.tables.map[n] \in TableSpecs /\ SpecName(cat.tables.map[n]) = n
    BY <1>2 DEF RegistriesSound, Sound, IsRegistry, Consistent, TablesKnown
  <2>2. PICK s \in Created : s.spec = cat.tables.map[n]
    BY <2>1 DEF TableSpecs
  <2>3. QED
    BY <1>1, <2>1, <2>2 DEF StmtName
<1>3. ASSUME n \in FunctionsKnown PROVE cat.functions.map[n].temp
  <2>1. /\ cat.functions.map[n] \in FunctionSpecs
        /\ SpecName(cat.functions.map[n]) = n /\ n \notin Names(MissingFunctions)
    BY <1>3 DEF RegistriesSound, Sound, IsRegistry, Consistent, FunctionsKnown
  <2>2. cat.functions.map[n] \notin ToSet(MissingFunctions)
    BY <2>1 DEF Names, ToSet
  <2>3. PICK s \in Created : s.spec = cat.functions.map[n]
    BY <2>1, <2>2 DEF FunctionSpecs
  <2>4. QED
    BY <1>1, <2>1, <2>3 DEF StmtName
<1>4. QED
  BY <1>2, <1>3

(* Nothing temporary outlives its call, neither in the catalog nor in      *)
(* SQLite (driver.go:171-181): whatever statements of a script fail, and   *)
(* whatever other connections do in between, when the calls are            *)
(* ExecContexts, Cleanup drops the kind of thing that the name has, and no *)
(* Cleanup of a permanent view panics half way.                            *)
THEOREM NothingTemporaryStays ==
  ASSUME ExecOnly, TempKindsAgree, OneConnection \/ NoPermanentViews
  PROVE  Spec => [](faults = 0 /\ restarts = 0 => TempObjectsGone)
<1>1. IInv /\ CleanupAlways => (faults = 0 /\ restarts = 0 => TempObjectsGone)
  <2> SUFFICES ASSUME IInv, CleanupInv, Quiet,
                      NEW n \in TempNames, n \in TablesKnown \cup DOMAIN objs \cup FunctionsKnown
               PROVE  FALSE
    BY DEF CleanupAlways, TempObjectsGone
  <2>1. n \notin DOMAIN objs
    BY AtRest DEF CleanupInv, ObjectsAccounted
  <2>2. n \notin TablesKnown /\ n \notin FunctionsKnown
    BY AtRest, TempNamesAreTemp DEF IInv
  <2>3. QED
    BY <2>1, <2>2
<1>2. QED
  BY <1>1, AlwaysTyped, AlwaysCleaned, PTL

(* Between calls the rows are those of what the catalog knows, temporary   *)
(* or not, for any number of connections.                                  *)
LEMMA RowsAtRest ==
  ASSUME NoMissingFunctionCreated, IInv, CleanupInv, Quiet
  PROVE  DOMAIN rows = PermanentNames
<1>1. PermanentNames = TablesKnown \cup FunctionsKnown
  BY AtRest DEF PermanentNames
<1>2. PermanentNames \subseteq DOMAIN rows
  BY <1>1, AtRest
<1>3. ASSUME NEW n \in DOMAIN rows PROVE n \in TablesKnown \cup FunctionsKnown
  <2>1. n \in IF FunctionRow(n) THEN DOMAIN cat.functions.map ELSE TablesKnown
    BY DEF CleanupInv, RowsKnown
  <2>2. FunctionRow(n) => n \notin Names(MissingFunctions)
    BY RowNames DEF IInv
  <2>3. QED
    BY <2>1, <2>2 DEF FunctionsKnown
<1>4. QED
  BY <1>1, <1>2, <1>3

(* Between the calls of one connection the catalog in memory, the objects  *)
(* of SQLite and the rows of zetasqlite_catalog tell of the same objects   *)
(* (stmt_action.go:92-115, 138-153, 297-320; driver.go:171-181), whichever *)
(* statements of the scripts failed: as long as no SQL statement fails     *)
(* without a reason and the process does not die between two.              *)
THEOREM AgreementBetweenCalls ==
  ASSUME ExecOnly, TempKindsAgree, OneConnection, NoMissingFunctionCreated
  PROVE  Spec => [](faults = 0 /\ restarts = 0 => QuiescentAgreement)
<1>1. IInv /\ CleanupAlways => (faults = 0 /\ restarts = 0 => QuiescentAgreement)
  <2> SUFFICES ASSUME IInv, CleanupInv, \A c \in Conns : TablesAgree(c), Quiet
               PROVE  TablesKnown = DOMAIN objs /\ DOMAIN rows = PermanentNames
    BY DEF CleanupAlways, QuiescentAgreement
  <2>1. PICK c \in Conns : At(c, "idle")
    BY DEF OneConnection, Quiet
  <2>2. TablesKnown = DOMAIN objs
    BY <2>1 DEF TablesAgree, HalfDone, HalfSteps, At
  <2>3. QED
    BY <2>2, RowsAtRest
<1>2. QED
  BY <1>1, AlwaysTyped, AlwaysCleaned, PTL

(* The same of memory and rows (catalog.go:303-357) for any number of      *)
(* connections, temporary objects over permanent ones included.            *)
THEOREM RowsBetweenCalls ==
  ASSUME ExecOnly, TempKindsAgree, OneConnection \/ NoPermanentViews, NoMissingFunctionCreated
  PROVE  Spec => [](faults = 0 /\ restarts = 0 /\ Quiet => DOMAIN rows = PermanentNames)
<1>1. IInv /\ CleanupAlways =>
        (faults = 0 /\ restarts = 0 /\ Quiet => DOMAIN rows = PermanentNames)
  BY RowsAtRest DEF CleanupAlways
<1>2. QED
  BY <1>1, AlwaysTyped, AlwaysCleaned, PTL

---------------------------------------------------------------------------
(* How much faults and restarts tear, for one connection and without       *)
(* temporary objects, which have no rows.                                  *)
NoTemporaries == \A s \in Created : ~ s.spec.temp

(* The table of which a call has done one half only.                       *)
HalfTable(c) ==
    IF \/ At(c, "create") /\ Stmt(c).mode = "replace"
       \/ At(c, "register") /\ ~ IsFunction(Stmt(c))
       \/ calls[c].step \in {"read", "unregister"} /\ ~ IsFunction(Stmt(c)) /\ Known(Stmt(c))
    THEN {StmtName(Stmt(c))} ELSE {}

Torn == (TableRows \ DOMAIN objs) \cup (DOMAIN objs \ TableRows)

(* A table that has its row is known once the call is past its Sync, so    *)
(* that a DROP that SQLite grants never ends for want of a spec.           *)
RowsOfTablesKnown(c) ==
    \A n \in (TableRows \cap DOMAIN objs) \ HalfTable(c) :
        n \in TablesKnown \/ (rows[n].fresh /\ calls[c].step \in {"idle", "sync"})

HalfOfObject(c) ==
    LET name == StmtName(Stmt(c))
    IN  /\ At(c, "create") /\ Stmt(c).mode = "replace" => name \notin DOMAIN objs
        /\ At(c, "register") /\ ~ IsFunction(Stmt(c)) => name \in DOMAIN objs
        /\ calls[c].step \in {"read", "unregister"} /\ ~ IsFunction(Stmt(c)) =>
               name \notin DOMAIN objs

TornInv(c) ==
    /\ IsFiniteSet(DOMAIN objs)
    /\ Cardinality(Torn \ HalfTable(c)) <= faults + restarts
    /\ RowsOfTablesKnown(c) /\ HalfOfObject(c)

(* A step tears no table, or one and is a fault or a restart.              *)
LEMMA CountTorn ==
  ASSUME NEW D, IsFiniteSet(D), NEW E, NEW m \in Nat, NEW n \in Nat, Cardinality(D) <= m,
         \/ E \subseteq D /\ m <= n
         \/ m + 1 <= n /\ \E x : E \subseteq D \cup {x}
  PROVE  Cardinality(E) <= n
<1>1. Cardinality(D) \in Nat
  BY FS_CardinalityType
<1>2. CASE E \subseteq D /\ m <= n
  <2>1. IsFiniteSet(E) /\ Cardinality(E) <= Cardinality(D)
    BY <1>2, FS_Subset
  <2>2. Cardinality(E) \in Nat
    BY <2>1, FS_CardinalityType
  <2>3. QED
    BY <1>1, <1>2, <2>1, <2>2
<1>3. ASSUME m + 1 <= n, NEW x, E \subseteq D \cup {x} PROVE Cardinality(E) <= n
  <2>1. /\ IsFiniteSet(D \cup {x})
        /\ Cardinality(D \cup {x}) = IF x \in D THEN Cardinality(D) ELSE Cardinality(D) + 1
    BY FS_AddElement
  <2>2. IsFiniteSet(E) /\ Cardinality(E) <= Cardinality(D \cup {x})
    BY <1>3, <2>1, FS_Subset
  <2>3. Cardinality(E) \in Nat /\ Cardinality(D \cup {x}) \in Nat
    BY <2>1, <2>2, FS_CardinalityType
  <2>4. QED
    BY <1>1, <1>3, <2>1, <2>2, <2>3
<1>4. QED
  BY <1>2, <1>3

LEMMA TornFinite ==
  ASSUME RowsTyped, NEW c \in Conns, IsFiniteSet(DOMAIN objs)
  PROVE  IsFiniteSet(Torn \ HalfTable(c))
<1>1. IsFiniteSet(DOMAIN rows \cup DOMAIN objs)
  BY FS_Union DEF RowsTyped
<1>2. Torn \ HalfTable(c) \subseteq DOMAIN rows \cup DOMAIN objs
  BY DEF Torn, TableRows
<1>3. QED
  BY <1>1, <1>2, FS_Subset

(* A table or view is never filed under the row of a function.             *)
LEMMA TableRowSaved ==
  ASSUME RowsTyped, NEW s \in Created, rows' = SaveSpec(s.spec)
  PROVE  /\ TableRows' = TableRows \cup IF IsFunction(s) THEN {} ELSE {StmtName(s)}
         /\ \A n \in DOMAIN rows : n # StmtName(s) => rows'[n] = rows[n]
<1> DEFINE name == StmtName(s)
<1>1. /\ DOMAIN rows' = DOMAIN rows \cup {name}
      /\ \A n \in DOMAIN rows : n # name => rows'[n] = rows[n]
      /\ rows'[name].kind = IF name \in DOMAIN rows THEN rows[name].kind ELSE s.spec.kind
  BY DEF SaveSpec, Put, StmtName
<1>2. ASSUME name \in DOMAIN rows PROVE rows[name].kind = "function" <=> IsFunction(s)
  <2>1. IsRow(name, rows[name])
    BY <1>2 DEF RowsTyped
  <2>2. PICK t \in Created : t.spec = rows[name].spec
    BY <2>1 DEF IsRow, RowSpecs
  <2>3. QED
    BY <2>1, <2>2, SameNameSameRegistry DEF IsRow, StmtName, IsFunction
<1>3. rows'[name].kind = "function" <=> IsFunction(s)
  BY <1>1, <1>2 DEF IsFunction
<1> HIDE DEF name
<1>4. TableRows' = {n \in DOMAIN rows' : rows'[n].kind # "function"}
  BY DEF TableRows
<1>5. TableRows' = TableRows \cup IF IsFunction(s) THEN {} ELSE {name}
  <2>1. CASE IsFunction(s)
    BY <1>1, <1>2, <1>3, <1>4, <2>1 DEF TableRows
  <2>2. CASE ~ IsFunction(s)
    BY <1>1, <1>2, <1>3, <1>4, <2>2 DEF TableRows
  <2>3. QED
    BY <2>1, <2>2
<1>6. QED
  BY <1>1, <1>5 DEF name

(* What has to be shown of a step that leaves the call between two         *)
(* statements, and of one that leaves it half way in a table or view.      *)
LEMMA TornRests ==
  ASSUME CallsTyped, NEW c \in Conns, NEW new, Set(c, new),
         Resting(new) \/ (new.step # "create" /\ IsFunction(new.script[new.pc])),
         IsFiniteSet(DOMAIN objs'), Cardinality(Torn') <= faults' + restarts',
         \A n \in TableRows' \cap DOMAIN objs' :
            n \in TablesKnown' \/ (rows'[n].fresh /\ new.step \in {"idle", "sync"})
  PROVE  TornInv(c)'
<1>1. calls'[c] = new
  BY DEF Set, CallsTyped
<1>2. HalfTable(c)' = {}
  BY <1>1 DEF HalfTable, Resting, HalfSteps, At, Stmt
<1>3. HalfOfObject(c)'
  BY <1>1 DEF HalfOfObject, Resting, HalfSteps, At, Stmt
<1>4. RowsOfTablesKnown(c)'
  BY <1>1, <1>2 DEF RowsOfTablesKnown
<1>5. Torn' \ HalfTable(c)' = Torn'
  BY <1>2
<1>6. QED
  BY <1>3, <1>4, <1>5 DEF TornInv

LEMMA TornHalf ==
  ASSUME CallsTyped, NEW c \in Conns, NEW step \in {"create", "register", "read", "unregister"},
         NEW new, Set(c, new), new.step = step, ~ IsFunction(Stmt(c)),
         new.script = calls[c].script, new.pc = calls[c].pc, UNCHANGED <<cat, rows>>,
         NEW half, half = IF \/ step = "create" /\ Stmt(c).mode = "replace"
                             \/ step = "register"
                             \/ step \in {"read", "unregister"} /\ Known(Stmt(c))
                          THEN {StmtName(Stmt(c))} ELSE {},
         IsFiniteSet(DOMAIN objs'), Cardinality(Torn' \ half) <= faults' + restarts',
         (TableRows \cap DOMAIN objs') \ half \subseteq TablesKnown,
         step = "create" /\ Stmt(c).mode = "replace" => StmtName(Stmt(c)) \notin DOMAIN objs',
         step = "register" => StmtName(Stmt(c)) \in DOMAIN objs',
         step \in {"read", "unregister"} => StmtName(Stmt(c)) \notin DOMAIN objs'
  PROVE  TornInv(c)'
<1>1. calls'[c] = new
  BY DEF Set, CallsTyped
<1>2. Stmt(c)' = Stmt(c) /\ (Known(Stmt(c))' <=> Known(Stmt(c)))
  BY <1>1 DEF Stmt, Known
<1>3. HalfTable(c)' = half
  BY <1>1, <1>2 DEF HalfTable, At
<1>4. HalfOfObject(c)'
  BY <1>1, <1>2 DEF HalfOfObject, At
<1>5. RowsOfTablesKnown(c)'
  BY <1>3 DEF RowsOfTablesKnown, TableRows, TablesKnown
<1>6. QED
  BY <1>3, <1>4, <1>5 DEF TornInv

(* The row of a table or view has the name of one that a script creates.   *)
LEMMA TableRowNames ==
  ASSUME RowsTyped, NEW s \in Statements, IsFunction(s)
  PROVE  StmtName(s) \notin TableRows
<1> SUFFICES ASSUME StmtName(s) \in TableRows PROVE FALSE
  OBVIOUS
<1> DEFINE row == rows[StmtName(s)]
<1>1. IsRow(StmtName(s), row) /\ row.kind # "function"
  BY DEF RowsTyped, TableRows
<1>2. PICK t \in Created : t.spec = row.spec
  BY <1>1 DEF IsRow, RowSpecs
<1>3. StmtName(t) = StmtName(s) /\ ~ IsFunction(t)
  BY <1>1, <1>2 DEF IsRow, StmtName, IsFunction
<1>4. QED
  BY <1>3, KindsHaveTheirNames DEF Created

LEMMA NothingTemporary ==
  ASSUME CallsTyped, NoTemporaries, NEW c \in Conns
  PROVE  ~ CleanupObject(c) /\ ~ Forget(c)
<1>1. ASSUME Cleaning(c) \/ At(c, "forget") PROVE ~ Stmt(c).spec.temp
  BY <1>1, CleaningStmt DEF NoTemporaries
<1>2. At(c, "forget") => Stmt(c).spec.temp
  BY AtWork DEF At, StmtFits
<1>3. QED
  BY <1>1, <1>2 DEF CleanupObject, Forget, IsTempObject

LEMMA TornStep ==
  ASSUME IInv, NoTemporaries, [Next]_vars, NEW c \in Conns, TornInv(c),
         Begin(c) \/ Step(c) \/ CloseRows(c)
  PROVE  TornInv(c)'
<1> DEFINE call == calls[c]
           stmt == Stmt(c)
           name == StmtName(stmt)
           D == Torn \ HalfTable(c)
           Count(E) == E \subseteq D \/ (Fault /\ \E x : E \subseteq D \cup {x})
           Past == call.step \notin {"idle", "sync"}
<1>1. CallsTyped /\ IsCall(call) /\ DOMAIN call = CallFields /\ RowsTyped
  BY DEF IInv, CallsTyped, IsCall, HasFields
<1>2. IsFiniteSet(D) /\ IsFiniteSet(DOMAIN objs)
  BY <1>1, TornFinite DEF TornInv
<1>3. ASSUME NEW E, Count(E) PROVE Cardinality(E) <= faults' + restarts'
  <2>1. faults \in Nat /\ restarts \in Nat
    BY BoundsType DEF IInv, CountersTyped
  <2>2. /\ faults' + restarts' \in Nat /\ faults + restarts <= faults' + restarts'
        /\ Fault => faults + restarts + 1 <= faults' + restarts'
    BY <2>1, CountersStep DEF Fault
  <2>3. Cardinality(D) <= faults + restarts /\ faults + restarts \in Nat
    BY <2>1 DEF TornInv
  <2> HIDE DEF D
  <2>4. QED
    BY <1>2, <1>3, <2>2, <2>3, CountTorn
<1>4. Resting(call) \/ (IsFunction(stmt) /\ call.step # "create") => HalfTable(c) = {}
  BY DEF HalfTable, Resting, HalfSteps, At
<1>5. Past => (TableRows \cap DOMAIN objs) \ HalfTable(c) \subseteq TablesKnown
  BY DEF TornInv, RowsOfTablesKnown
<1>6. ASSUME NEW new, Set(c, new), Resting(new), IsFiniteSet(DOMAIN objs'), Count(Torn'),
             TableRows' \cap DOMAIN objs' \subseteq TablesKnown'
      PROVE  TornInv(c)'
  <2>1. Cardinality(Torn') <= faults' + restarts'
    BY <1>3, <1>6
  <2>2. QED
    BY <1>1, <1>6, <2>1, TornRests
<1>7. ASSUME Fail(c), IsFiniteSet(DOMAIN objs'), Count(Torn'),
             TableRows' \cap DOMAIN objs' \subseteq TablesKnown'
      PROVE  TornInv(c)'
  <2>1. Set(c, Failed(call)) /\ Resting(Failed(call))
    BY <1>1, <1>7, RestAfter DEF Fail
  <2> HIDE DEF Count
  <2>2. QED
    BY <1>6, <1>7, <2>1
<1>8. CASE \/ Begin(c) \/ SyncFails(c) \/ CollectFunctions(c) \/ Query(c) \/ BeginCommit(c)
           \/ SkipCleanup(c) \/ CleanupView(c) \/ EndCall(c) \/ CloseRows(c)
  <2>1. UNCHANGED <<cat, objs, rows>> /\ Resting(call)
    BY <1>1, <1>8, RestingStep
  <2>2. PICK new : /\ Set(c, new) /\ Resting(new)
                   /\ call.step \in {"idle", "sync"} => new.step \in {"idle", "sync"}
    BY <1>1, <1>8, RestingStep
  <2>3. Cardinality(Torn') <= faults' + restarts'
    <3>1. Torn' = D
      BY <1>4, <2>1 DEF Torn, TableRows
    <3>2. QED
      BY <1>3, <3>1
  <2>4. \A n \in TableRows' \cap DOMAIN objs' :
           n \in TablesKnown' \/ (rows'[n].fresh /\ new.step \in {"idle", "sync"})
    BY <1>4, <2>1, <2>2 DEF TornInv, RowsOfTablesKnown, TableRows, TablesKnown
  <2>5. IsFiniteSet(DOMAIN objs')
    BY <1>2, <2>1
  <2> HIDE DEF D
  <2>6. QED
    BY <1>1, <2>2, <2>3, <2>4, <2>5, TornRests
<1>9. CASE Sync(c)
  <2>1. PICK order \in SetToSeqs(Fresh) : cat' = FoldLeft(LoadRow, cat, order)
    BY <1>9 DEF Sync, Fresh
  <2>2. LoadedCatalog(cat', Fresh, TableSpecs, FunctionSpecs)
    BY <2>1, SyncLoads, RowsWithinSpecs DEF IInv, RegistriesSound
  <2>3. TablesKnown' = TablesKnown \cup {n \in Fresh : ~ FunctionRow(n)}
    BY <2>2 DEF LoadedCatalog, Loaded, TablesKnown
  <2>4. /\ UNCHANGED objs /\ Resting(call)
        /\ rows' = [n \in DOMAIN rows |-> [rows[n] EXCEPT !.fresh = FALSE]]
        /\ Set(c, [call EXCEPT !.step = "functions"])
    BY <1>9 DEF Sync, At, Goto, Resting, HalfSteps
  <2>5. TableRows' = TableRows
    BY <1>1, <2>4 DEF TableRows, RowsTyped, IsRow
  <2>6. TableRows' \cap DOMAIN objs' \subseteq TablesKnown'
    BY <1>4, <2>3, <2>4, <2>5 DEF TornInv, RowsOfTablesKnown, TableRows, Fresh, FunctionRow
  <2>7. Resting([call EXCEPT !.step = "functions"])
    BY <1>1 DEF Resting, HalfSteps, CallFields
  <2>8. Torn' \subseteq D
    BY <1>4, <2>4, <2>5 DEF Torn
  <2>9. QED
    BY <1>2, <1>6, <2>4, <2>6, <2>7, <2>8
<1>10. CASE BuildDDL(c)
  <2> DEFINE step == FirstStep(stmt)
             on == [call EXCEPT !.step = step, !.built = call.pc]
  <2>1. /\ on.step = step /\ on.script = call.script /\ on.pc = call.pc /\ Set(c, on)
        /\ Resting(call) /\ Past /\ UNCHANGED <<cat, objs, rows>>
    BY <1>1, <1>10 DEF BuildDDL, CallFields, At, Resting, HalfSteps
  <2>2. Torn' = D /\ Torn' \ {} = D
    BY <1>4, <2>1 DEF Torn, TableRows
  <2>3. \/ step \notin HalfSteps \/ (step # "create" /\ IsFunction(stmt))
        \/ step = "create" /\ ~ IsFunction(stmt) /\ stmt.mode # "replace"
    BY DEF FirstStep, HalfSteps
  <2>4. TableRows' \cap DOMAIN objs' \subseteq TablesKnown'
    BY <1>4, <1>5, <2>1 DEF TableRows, TablesKnown
  <2>5. Cardinality(Torn') <= faults' + restarts' /\ IsFiniteSet(DOMAIN objs')
    BY <1>2, <1>3, <2>1, <2>2
  <2> HIDE DEF on, step, D
  <2>6. CASE step \notin HalfSteps \/ (step # "create" /\ IsFunction(stmt))
    BY <1>1, <2>1, <2>4, <2>5, <2>6, TornRests DEF Resting, Stmt
  <2>7. CASE step = "create" /\ ~ IsFunction(stmt) /\ stmt.mode # "replace"
    <3>1. (TableRows \cap DOMAIN objs') \ {} \subseteq TablesKnown
      BY <2>1, <2>4 DEF TableRows, TablesKnown
    <3>2. Cardinality(Torn' \ {}) <= faults' + restarts'
      BY <2>2, <2>5
    <3>3. QED
      BY <1>1, <2>1, <2>5, <2>7, <3>1, <3>2, TornHalf
  <2>8. QED
    BY <2>3, <2>6, <2>7
<1>11. ~ CleanupObject(c) /\ ~ Forget(c)
  BY <1>1, NothingTemporary
<1>12. ASSUME NEW step \in {"create", "register", "read"}, Goto(c, step), ~ IsFunction(stmt),
              UNCHANGED <<cat, rows>>, NEW half,
              half = IF \/ step = "create" /\ stmt.mode = "replace"
                        \/ step = "register"
                        \/ step = "read" /\ Known(stmt)
                     THEN {name} ELSE {},
              IsFiniteSet(DOMAIN objs'), Torn' \ half \subseteq D,
              (TableRows \cap DOMAIN objs') \ half \subseteq TablesKnown,
              step = "create" /\ stmt.mode = "replace" => name \notin DOMAIN objs',
              step = "register" => name \in DOMAIN objs',
              step = "read" => name \notin DOMAIN objs'
       PROVE  TornInv(c)'
  <2> DEFINE new == [call EXCEPT !.step = step]
  <2>1. /\ Set(c, new) /\ new.step = step /\ new.script = call.script /\ new.pc = call.pc
    BY <1>1, <1>12 DEF Goto, CallFields
  <2>2. Cardinality(Torn' \ half) <= faults' + restarts'
    BY <1>3, <1>12
  <2> HIDE DEF new
  <2>3. QED
    BY <1>1, <1>12, <2>1, <2>2, TornHalf
<1>13. IsFiniteSet(DOMAIN objs \ {name}) /\ IsFiniteSet(DOMAIN objs \cup {name})
  BY <1>2, FS_RemoveElement, FS_AddElement
<1>14. CASE DropOld(c)
  <2>1. Resting(call) /\ call.step = "dropOld" /\ Past /\ UNCHANGED <<cat, rows>>
    BY <1>14 DEF DropOld, Refused, Faulty, At, Resting, HalfSteps
  <2>2. ~ IsFunction(stmt) /\ stmt.mode = "replace"
    BY <1>1, <2>1, AtWork DEF StmtFits, Working
  <2>3. D = Torn /\ TableRows \cap DOMAIN objs \subseteq TablesKnown
    BY <1>4, <1>5, <2>1
  <2>4. CASE Fail(c) /\ UNCHANGED objs
    BY <1>2, <1>7, <2>1, <2>3, <2>4 DEF Torn, TableRows, TablesKnown
  <2>5. CASE objs' = Minus(objs, name) /\ Goto(c, "create")
    <3>1. DOMAIN objs' = DOMAIN objs \ {name} /\ TableRows' = TableRows
      BY <2>1, <2>5 DEF Minus, TableRows
    <3>2. Torn' \ {name} \subseteq D
      BY <2>3, <3>1 DEF Torn
    <3>3. (TableRows \cap DOMAIN objs') \ {name} \subseteq TablesKnown
      BY <2>3, <3>1
    <3>4. name \notin DOMAIN objs' /\ IsFiniteSet(DOMAIN objs')
      BY <1>13, <3>1
    <3> HIDE DEF D
    <3>5. QED
      BY <1>12, <2>1, <2>2, <2>5, <3>2, <3>3, <3>4
  <2>6. QED
    BY <1>14, <2>4, <2>5 DEF DropOld, Refused, Faulty
<1>15. CASE Create(c)
  <2>1. call.step = "create" /\ Past /\ UNCHANGED <<cat, rows>>
    BY <1>15 DEF Create, Refused, Faulty, At
  <2>2. ~ IsFunction(stmt)
    BY <1>1, <2>1, AtWork DEF StmtFits, Working
  <2>3. HalfTable(c) = IF stmt.mode = "replace" THEN {name} ELSE {}
    BY <2>1 DEF HalfTable, At
  <2>4. stmt.mode = "replace" => name \notin DOMAIN objs
    BY <2>1 DEF TornInv, HalfOfObject, At
  <2>5. TableRows \cap DOMAIN objs \subseteq TablesKnown
    BY <1>5, <2>1, <2>3, <2>4
  <2>6. TableRows' = TableRows /\ TablesKnown' = TablesKnown
    BY <2>1 DEF TableRows, TablesKnown
  <2>7. CASE ~ CanCreate(stmt) /\ Refused(c)
    <3>1. HalfTable(c) = {}
      BY <2>3, <2>4, <2>7 DEF CanCreate
    <3>2. Fail(c) /\ UNCHANGED objs
      BY <2>7 DEF Refused
    <3>3. Torn' \subseteq D
      BY <2>6, <3>1, <3>2 DEF Torn
    <3>4. QED
      BY <1>2, <1>7, <2>5, <2>6, <3>2, <3>3
  <2>8. CASE Faulty(c)
    <3>1. Fail(c) /\ UNCHANGED objs /\ Fault
      BY <2>8 DEF Faulty
    <3>2. Torn' \subseteq D \cup {name}
      BY <2>3, <2>6, <3>1 DEF Torn
    <3>3. QED
      BY <1>2, <1>7, <2>5, <2>6, <3>1, <3>2
  <2>9. CASE objs' = CreateObject(stmt) /\ Goto(c, "register")
    <3>1. DOMAIN objs' = DOMAIN objs \cup {name}
      BY <2>9 DEF CreateObject, WithNew
    <3>2. Torn' \ {name} \subseteq D
      BY <2>3, <2>6, <3>1 DEF Torn
    <3>3. (TableRows \cap DOMAIN objs') \ {name} \subseteq TablesKnown
      BY <2>5, <3>1
    <3>4. name \in DOMAIN objs' /\ IsFiniteSet(DOMAIN objs')
      BY <1>13, <3>1
    <3> HIDE DEF D
    <3>5. QED
      BY <1>12, <2>1, <2>2, <2>9, <3>2, <3>3, <3>4
  <2>10. QED
    BY <1>15, <2>7, <2>8, <2>9 DEF Create
<1>16. CASE Register(c)
  <2>1. call.step = "register" /\ Past /\ UNCHANGED objs /\ cat' = CatalogWith(stmt.spec)
    BY <1>16 DEF Register, At
  <2>2. stmt \in Created /\ NeedsRow(stmt.spec)
    BY <1>1, <2>1, RegisterStmt DEF NoTemporaries, NeedsRow
  <2>3. stmt.spec \in IF IsFunction(stmt) THEN FunctionSpecs ELSE TableSpecs
    BY <2>2, CreatedSpec
  <2>4. TablesKnown' = IF IsFunction(stmt) THEN TablesKnown ELSE TablesKnown \cup {name}
    BY <2>1, <2>3, CatalogWithAdds DEF IInv, RegistriesSound, TablesKnown
  <2>5. HalfTable(c) = IF IsFunction(stmt) THEN {} ELSE {name}
    BY <2>1 DEF HalfTable, At
  <2>6. ~ IsFunction(stmt) => name \in DOMAIN objs
    BY <2>1 DEF TornInv, HalfOfObject, At
  <2>7. (TableRows \cap DOMAIN objs') \cup HalfTable(c) \subseteq TablesKnown'
    BY <1>5, <2>1, <2>4, <2>5
  <2>8. CASE rows' = SaveSpec(stmt.spec) /\ Set(c, NoteAdded(call, stmt.spec))
    <3>1. TableRows' = TableRows \cup IF IsFunction(stmt) THEN {} ELSE {name}
      BY <1>1, <2>2, <2>8, TableRowSaved
    <3>2. Torn' \subseteq D
      BY <2>1, <2>5, <2>6, <3>1 DEF Torn
    <3>3. TableRows' \cap DOMAIN objs' \subseteq TablesKnown'
      BY <2>5, <2>7, <3>1
    <3>4. Resting(NoteAdded(call, stmt.spec))
      BY <1>1, RestAfterNotes
    <3>5. QED
      BY <1>2, <1>6, <2>1, <2>8, <3>2, <3>3, <3>4
  <2>9. CASE UNCHANGED rows /\ Fault /\ Fail(c)
    <3>1. TableRows' = TableRows
      BY <2>9 DEF TableRows
    <3>2. Torn' \subseteq D \cup {name}
      BY <2>1, <2>5, <3>1 DEF Torn
    <3>3. TableRows' \cap DOMAIN objs' \subseteq TablesKnown'
      BY <2>7, <3>1
    <3>4. QED
      BY <1>2, <1>7, <2>1, <2>9, <3>2, <3>3
  <2>10. QED
    BY <1>16, <2>2, <2>8, <2>9 DEF Register
<1>17. CASE DropObject(c)
  <2>1. Resting(call) /\ call.step = "dropObject" /\ Past /\ UNCHANGED <<cat, rows>>
    BY <1>17 DEF DropObject, Refused, Faulty, At, Resting, HalfSteps
  <2>2. ~ IsFunction(stmt)
    BY <1>1, <2>1, AtWork DEF StmtFits, Working
  <2>3. D = Torn /\ TableRows \cap DOMAIN objs \subseteq TablesKnown
    BY <1>4, <1>5, <2>1
  <2>4. CASE Fail(c) /\ UNCHANGED objs
    BY <1>2, <1>7, <2>1, <2>3, <2>4 DEF Torn, TableRows, TablesKnown
  <2>5. CASE objs' = Minus(objs, name) /\ Goto(c, "read")
    <3> DEFINE half == IF Known(stmt) THEN {name} ELSE {}
    <3>1. DOMAIN objs' = DOMAIN objs \ {name} /\ TableRows' = TableRows
      BY <2>1, <2>5 DEF Minus, TableRows
    <3>2. Known(stmt) <=> name \in TablesKnown
      BY <2>2 DEF Known, TablesKnown
    <3>3. Torn' \ half \subseteq D
      BY <2>3, <3>1, <3>2 DEF Torn
    <3>4. (TableRows \cap DOMAIN objs') \ half \subseteq TablesKnown
      BY <2>3, <3>1
    <3>5. name \notin DOMAIN objs' /\ IsFiniteSet(DOMAIN objs')
      BY <1>13, <3>1
    <3>6. half = IF Known(stmt) THEN {name} ELSE {}
      OBVIOUS
    <3> HIDE DEF D, half
    <3>7. QED
      BY <1>12, <2>1, <2>2, <2>5, <3>3, <3>4, <3>5, <3>6
  <2>6. QED
    BY <1>17, <2>4, <2>5 DEF DropObject, Refused, Faulty
<1>18. CASE ReadSpec(c)
  <2> DEFINE seen == IF name \in DOMAIN cat.tables.map THEN cat.tables.map[name] ELSE NoSpec
             new == [call EXCEPT !.step = "unregister", !.seen = seen]
             half == IF Known(stmt) THEN {name} ELSE {}
  <2>1. /\ new.step = "unregister" /\ new.script = call.script /\ new.pc = call.pc
        /\ Set(c, new) /\ call.step = "read" /\ Past /\ UNCHANGED <<cat, objs, rows>>
    BY <1>1, <1>18 DEF ReadSpec, CallFields, At
  <2>2. ~ IsFunction(stmt)
    BY <1>1, <2>1, AtWork DEF StmtFits, Working
  <2>3. HalfTable(c) = half
    BY <2>1, <2>2 DEF HalfTable, At
  <2>4. name \notin DOMAIN objs' /\ IsFiniteSet(DOMAIN objs')
    BY <1>2, <2>1, <2>2 DEF TornInv, HalfOfObject
  <2>5. Torn' \ half \subseteq D
    BY <2>1, <2>3 DEF Torn, TableRows
  <2>6. Cardinality(Torn' \ half) <= faults' + restarts'
    BY <1>3, <2>5
  <2>7. (TableRows \cap DOMAIN objs') \ half \subseteq TablesKnown
    BY <1>5, <2>1, <2>3
  <2>8. half = IF Known(stmt) THEN {name} ELSE {}
    OBVIOUS
  <2> HIDE DEF new, seen, half, D
  <2>9. QED
    BY <1>1, <2>1, <2>2, <2>4, <2>6, <2>7, <2>8, TornHalf
<1>19. CASE Unregister(c)
  <2>1. call.step = "unregister" /\ Past /\ UNCHANGED objs
    BY <1>19 DEF Unregister, Refused, At
  <2>2. stmt \in Statements
    BY <1>1, <2>1, AtWork DEF Working
  <2>3. HalfTable(c) = IF ~ IsFunction(stmt) /\ Known(stmt) THEN {name} ELSE {}
    BY <2>1 DEF HalfTable, At
  <2>4. ~ IsFunction(stmt) => name \notin DOMAIN objs
    BY <2>1 DEF TornInv, HalfOfObject
  <2>5. CASE ~ Known(stmt) /\ Refused(c)
    <3>1. UNCHANGED <<cat, rows>> /\ Fail(c) /\ HalfTable(c) = {}
      BY <2>3, <2>5 DEF Refused
    <3>2. Torn' \subseteq D /\ TableRows' \cap DOMAIN objs' \subseteq TablesKnown'
      BY <1>5, <2>1, <3>1 DEF Torn, TableRows, TablesKnown
    <3>3. QED
      BY <1>2, <1>7, <2>1, <3>1, <3>2
  <2>6. CASE Known(stmt) /\ cat' = CatalogWithout(stmt)
    <3>1. TablesKnown' = TablesKnown \ HalfTable(c)
      BY <2>3, <2>6, CatalogWithoutRemoves DEF IInv, RegistriesSound, TablesKnown
    <3>2. (TableRows \cap DOMAIN objs') \subseteq TablesKnown'
      BY <1>5, <2>1, <2>3, <2>4, <3>1
    <3>3. CASE rows' = DeleteRow(name) /\ Set(c, NoteDeleted(call, stmt))
      <4>1. TableRows' = TableRows \ {name}
        BY <3>3 DEF TableRows, DeleteRow, Minus
      <4>2. IsFunction(stmt) => name \notin TableRows
        BY <1>1, <2>2, TableRowNames
      <4>3. Torn' \subseteq D
        BY <2>1, <2>3, <2>4, <2>6, <4>1, <4>2 DEF Torn
      <4>4. Resting(NoteDeleted(call, stmt))
        BY <1>1, RestAfterNotes
      <4>5. QED
        BY <1>2, <1>6, <2>1, <3>2, <3>3, <4>1, <4>3, <4>4
    <3>4. CASE UNCHANGED rows /\ Fault /\ Fail(c)
      <4>1. TableRows' = TableRows
        BY <3>4 DEF TableRows
      <4>2. Torn' \subseteq D \cup {name}
        BY <2>1, <2>3, <4>1 DEF Torn
      <4>3. QED
        BY <1>2, <1>7, <2>1, <3>2, <3>4, <4>1, <4>2
    <3>5. QED
      BY <1>19, <2>6, <3>3, <3>4 DEF Unregister
  <2>7. QED
    BY <1>19, <2>5, <2>6 DEF Unregister
<1>20. QED
  BY <1>8, <1>9, <1>10, <1>11, <1>14, <1>15, <1>16, <1>17, <1>18, <1>19 DEF Step

(* A restart forgets what the call was about: its table stays torn.        *)
LEMMA TornRestart ==
  ASSUME IInv, [Next]_vars, NEW c \in Conns, TornInv(c), Restart
  PROVE  TornInv(c)'
<1> DEFINE name == StmtName(Stmt(c))
           new == NoCall(calls[c].n)
<1>1. CallsTyped /\ RowsTyped /\ IsFiniteSet(Torn \ HalfTable(c))
  BY TornFinite DEF IInv, TornInv
<1>2. UNCHANGED <<objs, faults>> /\ restarts' = restarts + 1
      /\ rows' = [n \in DOMAIN rows |-> [rows[n] EXCEPT !.fresh = TRUE]]
      /\ calls' = [d \in Conns |-> NoCall(calls[d].n)]
  BY DEF Restart
<1>3. TableRows' = TableRows /\ \A n \in TableRows' : rows'[n].fresh
  BY <1>1, <1>2 DEF TableRows, RowsTyped, IsRow
<1>4. calls'[c].step = "idle"
  BY <1>2 DEF NoCall, NewCall
<1>5. HalfTable(c)' = {} /\ HalfTable(c) \subseteq {name}
  BY <1>4 DEF HalfTable, At
<1>6. Torn' \ HalfTable(c)' \subseteq (Torn \ HalfTable(c)) \cup {name}
  BY <1>2, <1>3, <1>5 DEF Torn
<1>7. Cardinality(Torn' \ HalfTable(c)') <= faults' + restarts'
  <2>1. faults \in Nat /\ restarts \in Nat
    BY BoundsType DEF IInv, CountersTyped
  <2>2. faults + restarts \in Nat /\ faults' + restarts' \in Nat
        /\ faults + restarts + 1 <= faults' + restarts'
    BY <1>2, <2>1
  <2>3. Cardinality(Torn \ HalfTable(c)) <= faults + restarts
    BY DEF TornInv
  <2>4. QED
    BY <1>1, <1>6, <2>2, <2>3, CountTorn
<1>8. RowsOfTablesKnown(c)' /\ HalfOfObject(c)'
  BY <1>3, <1>4 DEF RowsOfTablesKnown, HalfOfObject, At
<1>9. QED
  BY <1>2, <1>7, <1>8 DEF TornInv

LEMMA TornStarts ==
  ASSUME Init, NEW c \in Conns
  PROVE  TornInv(c)
<1>1. DOMAIN objs = {} /\ DOMAIN rows = {} /\ faults + restarts = 0
  BY DEF Init
<1>2. calls[c].step = "idle"
  BY DEF Init, NoCall, NewCall
<1>3. Torn \ HalfTable(c) = {} /\ TableRows = {}
  BY <1>1 DEF Torn, TableRows
<1>4. RowsOfTablesKnown(c) /\ HalfOfObject(c)
  BY <1>2, <1>3 DEF RowsOfTablesKnown, HalfOfObject, At
<1>5. IsFiniteSet({}) /\ Cardinality({}) = 0 /\ 0 <= 0
  BY FS_EmptySet
<1>6. IsFiniteSet(DOMAIN objs) /\ Cardinality(Torn \ HalfTable(c)) <= faults + restarts
  BY <1>1, <1>3, <1>5, Zenon
<1>7. QED
  BY <1>4, <1>6 DEF TornInv

(* With one connection and no temporary objects the rows and SQLite        *)
(* disagree about no more tables than the call is between its two halves,  *)
(* SQL statements failed without a reason and the process died             *)
(* (stmt_action.go:92-115, 297-312): no later statement, refused or not,   *)
(* tears another.                                                          *)
THEOREM TornTables ==
  ASSUME OneConnection, NoTemporaries
  PROVE  Spec => []TornTablesBounded
<1>1. PICK c \in Conns : Conns = {c}
  BY DEF OneConnection
<1>2. Init => TornInv(c)
  BY TornStarts
<1>3. IInv /\ TornInv(c) /\ [Next]_vars => TornInv(c)'
  <2> SUFFICES ASSUME IInv, TornInv(c), [Next]_vars PROVE TornInv(c)'
    OBVIOUS
  <2>1. CASE UNCHANGED vars
    BY <2>1 DEF vars, TornInv, RowsOfTablesKnown, HalfOfObject, HalfTable, Torn, TableRows,
                TablesKnown, At, Stmt, Known
  <2>2. CASE Restart
    BY <2>2, TornRestart
  <2>3. CASE Begin(c) \/ Step(c) \/ CloseRows(c)
    BY <2>3, TornStep
  <2>4. QED
    BY <1>1, <2>1, <2>2, <2>3 DEF Next
<1>4. IInv /\ TornInv(c) => TornTablesBounded
  <2> SUFFICES ASSUME IInv, TornInv(c) PROVE TornTablesBounded
    OBVIOUS
  <2> DEFINE name == StmtName(Stmt(c))
             half == {d \in Conns : Halfway(d)}
             D == Torn \ HalfTable(c)
  <2>1. faults \in Nat /\ restarts \in Nat
    BY BoundsType DEF IInv, CountersTyped
  <2>2. IsFiniteSet(D) /\ Cardinality(D) <= faults + restarts
    BY TornFinite DEF IInv, TornInv
  <2>3. Cardinality(Torn) <= Cardinality(half) + faults + restarts
    <3>1. CASE HalfTable(c) = {}
      <4>1. half \subseteq {c} /\ IsFiniteSet({c})
        BY <1>1, FS_Singleton
      <4>2. Cardinality(half) \in Nat /\ Torn = D
        BY <3>1, <4>1, FS_Subset, FS_CardinalityType
      <4>3. Cardinality(D) \in Nat
        BY <2>2, FS_CardinalityType
      <4>4. QED
        BY <2>1, <2>2, <4>2, <4>3
    <3>2. CASE HalfTable(c) # {}
      <4>1. Halfway(c) /\ HalfTable(c) \subseteq {name}
        BY <3>2 DEF HalfTable, Halfway, At
      <4>2. Cardinality(half) = 1
        <5>1. half = {c}
          BY <1>1, <4>1
        <5>2. QED
          BY <5>1, FS_Singleton
      <4>3. \E x : Torn \subseteq D \cup {x}
        BY <4>1
      <4>4. Cardinality(Torn) <= faults + restarts + 1
        <5>1. faults + restarts \in Nat /\ faults + restarts + 1 \in Nat
          BY <2>1
        <5> HIDE DEF D
        <5>2. QED
          BY <2>2, <4>3, <5>1, CountTorn
      <4> HIDE DEF half
      <4>5. QED
        BY <2>1, <4>2, <4>4
    <3>3. QED
      BY <3>1, <3>2
  <2>4. QED
    BY <2>3 DEF TornTablesBounded, Torn
<1>5. QED
  BY <1>2, <1>3, <1>4, AlwaysTyped, PTL DEF Spec

---------------------------------------------------------------------------
(* What a call reports, for one connection: in every state of a call, not  *)
(* only when it is over, its ChangedCatalog is the net effect so far.      *)
IsChanges(changes, S) ==
    /\ DOMAIN changes = {"added", "deleted"}
    /\ changes.added \in Seq(S) /\ changes.deleted \in Seq(S)

ChangesTyped(call) ==
    /\ DOMAIN call.cc = {"tables", "functions"}
    /\ IsChanges(call.cc.tables, TableSpecs) /\ IsChanges(call.cc.functions, FunctionSpecs)

(* The functions that the call knows are those of the catalog, and the     *)
(* spec that a DROP read is that of its table.                             *)
Early == {"idle", "sync", "functions"}
FunctionsAgree(call, functions) ==
    /\ DOMAIN call.funcMap = functions
    /\ \A n \in functions : call.funcMap[n] \in FunctionSpecs /\ SpecName(call.funcMap[n]) = n

SeenAgrees(call, tables) ==
    LET stmt == call.script[call.pc]
    IN  call.step = "unregister" /\ ~ IsFunction(stmt) /\ StmtName(stmt) \in tables =>
            call.seen \in TableSpecs /\ SpecName(call.seen) = StmtName(stmt)

NetEffects(call, tables, functions) ==
    LET except == CreatedAs(call.script, ViewOrTemp)
    IN  /\ NetEffect(call.cc.tables, call.before.tables, tables, except)
        /\ NetEffect(call.cc.functions, call.before.functions \ Names(MissingFunctions),
                     functions \ Names(MissingFunctions), except)

(* A call, and the names of the tables and functions of the catalog.       *)
Notes(call, tables, functions) == ChangesTyped(call) /\ NetEffects(call, tables, functions)

Reports(call, tables, functions) ==
    /\ Notes(call, tables, functions) /\ SeenAgrees(call, tables)
    /\ call.step \notin Early => FunctionsAgree(call, functions)

ReportInv(c) == Reports(calls[c], TablesKnown, DOMAIN cat.functions.map)

(* The names of a list that loses or gets a spec.                          *)
LEMMA ListNames ==
  ASSUME NEW S, NoSpec \notin S, NEW list \in Seq(S), NEW spec \in S
  PROVE  /\ WithoutName(list, spec) \in Seq(S)
         /\ NamesOf(WithoutName(list, spec)) = NamesOf(list) \ {SpecName(spec)}
         /\ Append(list, spec) \in Seq(S)
         /\ NamesOf(Append(list, spec)) = NamesOf(list) \cup {SpecName(spec)}
         /\ Dereferenceable(list, spec)
<1> DEFINE kept == WithoutName(list, spec)
           longer == Append(list, spec)
<1>1. kept \in Seq(S) /\ ToSet(kept) = {s \in ToSet(list) : SpecName(s) # SpecName(spec)}
  BY KeepOthersKeeps DEF WithoutName
<1>2. ToSet(list) \subseteq S /\ longer \in Seq(S)
  BY DEF ToSet
<1>3. ToSet(longer) = ToSet(list) \cup {spec}
  <2>1. DOMAIN longer = 1..(Len(list) + 1) /\ DOMAIN list = 1..Len(list)
        /\ longer[Len(list) + 1] = spec /\ \A i \in 1..Len(list) : longer[i] = list[i]
    OBVIOUS
  <2> HIDE DEF longer
  <2>2. QED
    BY <2>1 DEF ToSet
<1>4. NoSpec \notin ToSet(longer)
  BY <1>2, <1>3
<1> HIDE DEF kept, longer
<1>5. /\ NamesOf(list) = {SpecName(s) : s \in ToSet(list)}
      /\ NamesOf(kept) = {SpecName(s) : s \in ToSet(kept)}
      /\ NamesOf(longer) = {SpecName(s) : s \in ToSet(longer)}
  BY <1>1, <1>2, <1>4 DEF NamesOf
<1>6. NamesOf(kept) = NamesOf(list) \ {SpecName(spec)} /\ NamesOf(longer) = NamesOf(list) \cup {SpecName(spec)}
  BY <1>1, <1>3, <1>5
<1>7. QED
  BY <1>1, <1>2, <1>4, <1>6 DEF kept, longer, Dereferenceable

(* What a call notes of a spec, in names.                                  *)
LEMMA NotesAdded ==
  ASSUME NEW S, NoSpec \notin S, NEW changes, IsChanges(changes, S), NEW spec \in S
  PROVE  /\ CanAdd(changes, spec) /\ IsChanges(Add(changes, spec), S)
         /\ NamesOf(Add(changes, spec).added) = NamesOf(changes.added) \cup {SpecName(spec)}
         /\ NamesOf(Add(changes, spec).deleted) = NamesOf(changes.deleted) \ {SpecName(spec)}
<1>1. changes.added \in Seq(S) /\ changes.deleted \in Seq(S)
  BY DEF IsChanges
<1>2. Dereferenceable(changes.deleted, spec)
  BY <1>1, ListNames
<1>3. /\ WithoutName(changes.deleted, spec) \in Seq(S)
      /\ NamesOf(WithoutName(changes.deleted, spec)) = NamesOf(changes.deleted) \ {SpecName(spec)}
  BY <1>1, ListNames
<1>4. /\ Append(changes.added, spec) \in Seq(S)
      /\ NamesOf(Append(changes.added, spec)) = NamesOf(changes.added) \cup {SpecName(spec)}
  BY <1>1, ListNames
<1>5. QED
  BY <1>2, <1>3, <1>4 DEF CanAdd, Add, IsChanges

LEMMA NotesDropped ==
  ASSUME NEW S, NoSpec \notin S, NEW changes, IsChanges(changes, S), NEW spec \in S
  PROVE  /\ CanDelete(changes, spec) /\ IsChanges(Delete(changes, spec), S)
         /\ NamesOf(Delete(changes, spec).added) = NamesOf(changes.added) \ {SpecName(spec)}
         /\ NamesOf(Delete(changes, spec).deleted) = NamesOf(changes.deleted) \cup {SpecName(spec)}
<1>1. changes.added \in Seq(S) /\ changes.deleted \in Seq(S)
  BY DEF IsChanges
<1>2. Dereferenceable(changes.added, spec)
  BY <1>1, ListNames
<1>3. /\ WithoutName(changes.added, spec) \in Seq(S)
      /\ NamesOf(WithoutName(changes.added, spec)) = NamesOf(changes.added) \ {SpecName(spec)}
  BY <1>1, ListNames
<1>4. /\ Append(changes.deleted, spec) \in Seq(S)
      /\ NamesOf(Append(changes.deleted, spec)) = NamesOf(changes.deleted) \cup {SpecName(spec)}
  BY <1>1, ListNames
<1>5. QED
  BY <1>2, <1>3, <1>4 DEF CanDelete, Delete, IsChanges

LEMMA NoNilSpecs == NoSpec \notin TableSpecs /\ NoSpec \notin FunctionSpecs
<1>1. NoSpec.kind = "nil"
  BY DEF NoSpec
<1>2. \A s \in Created : IsFunction(s) => s.spec.kind = "function"
  BY DEF IsFunction
<1>3. \A f \in FunctionSpecs : f.kind = "function"
  BY <1>2, MissingFunctionsType DEF FunctionSpecs
<1>4. QED
  BY <1>1, <1>3, NotNil

(* A net effect stays one when what is noted is what happened.             *)
LEMMA NetOfAdd ==
  ASSUME NEW S, NoSpec \notin S, NEW changes, IsChanges(changes, S), NEW spec \in S,
         NEW before, NEW now, NEW except, NetEffect(changes, before, now, except),
         NEW then, then \ {SpecName(spec)} = now \ {SpecName(spec)},
         SpecName(spec) \in except \cup then
  PROVE  NetEffect(Add(changes, spec), before, then, except)
<1> DEFINE name == SpecName(spec)
           new == Add(changes, spec)
<1>1. /\ NamesOf(new.added) = NamesOf(changes.added) \cup {name}
      /\ NamesOf(new.deleted) = NamesOf(changes.deleted) \ {name}
  BY NotesAdded
<1>2. /\ name \in except \cup then /\ NetEffect(changes, before, now, except)
      /\ \A n : n # name => (n \in then <=> n \in now)
  <2>1. \A n : n # name => (n \in then \ {name} <=> n \in now \ {name})
    OBVIOUS
  <2>2. QED
    BY <2>1
<1> HIDE DEF new, name
<1>3. NetEffect(new, before, then, except)
  BY <1>1, <1>2 DEF NetEffect
<1>4. QED
  BY <1>3 DEF new

LEMMA NetOfDelete ==
  ASSUME NEW S, NoSpec \notin S, NEW changes, IsChanges(changes, S), NEW spec \in S,
         NEW before, NEW now, NEW except, NetEffect(changes, before, now, except),
         NEW then, then \ {SpecName(spec)} = now \ {SpecName(spec)},
         SpecName(spec) \notin then
  PROVE  NetEffect(Delete(changes, spec), before, then, except)
<1> DEFINE name == SpecName(spec)
           new == Delete(changes, spec)
<1>1. /\ NamesOf(new.added) = NamesOf(changes.added) \ {name}
      /\ NamesOf(new.deleted) = NamesOf(changes.deleted) \cup {name}
  BY NotesDropped
<1>2. /\ name \notin then /\ NetEffect(changes, before, now, except)
      /\ \A n : n # name => (n \in then <=> n \in now)
  <2>1. \A n : n # name => (n \in then \ {name} <=> n \in now \ {name})
    OBVIOUS
  <2>2. QED
    BY <2>1
<1> HIDE DEF new, name
<1>3. NetEffect(new, before, then, except)
  BY <1>1, <1>2 DEF NetEffect
<1>4. QED
  BY <1>3 DEF new

LEMMA NetOfExcept ==
  ASSUME NEW changes, NEW before, NEW now, NEW except, NetEffect(changes, before, now, except),
         NEW then, then \ except = now \ except
  PROVE  NetEffect(changes, before, then, except)
BY DEF NetEffect

(* A call reports the same while it keeps what it knows and has noted.     *)
LEMMA SameReport ==
  ASSUME NEW call, NEW new, NEW tables, NEW functions,
         \A f \in {"script", "cc", "before", "funcMap"} : new[f] = call[f],
         Notes(call, tables, functions), SeenAgrees(new, tables),
         new.step \notin Early => FunctionsAgree(call, functions)
  PROVE  Reports(new, tables, functions)
<1>1. /\ new.script = call.script /\ new.cc = call.cc /\ new.before = call.before
      /\ new.funcMap = call.funcMap
  OBVIOUS
<1>2. Notes(new, tables, functions)
  BY <1>1 DEF Notes, ChangesTyped, NetEffects
<1>3. new.step \notin Early => FunctionsAgree(new, functions)
  BY <1>1 DEF FunctionsAgree
<1>4. QED
  BY <1>2, <1>3 DEF Reports

LEMMA ReportAfter ==
  ASSUME NEW call, DOMAIN call = CallFields, NEW tables, NEW functions,
         Notes(call, tables, functions), FunctionsAgree(call, functions)
  PROVE  /\ Reports(Done(call), tables, functions)
         /\ Reports(Failed(call), tables, functions)
         /\ Reports(Panicked(call), tables, functions)
         /\ Reports(Cleaned(call), tables, functions)
         /\ Reports(CleanupFailed(call), tables, functions)
<1> DEFINE done == Done(call)
           failed == Failed(call)
           cleaned == Cleaned(call)
           Kept(new) ==
               /\ DOMAIN new = CallFields /\ new.step # "unregister"
               /\ \A f \in {"script", "cc", "before", "funcMap"} : new[f] = call[f]
<1>1. Kept(done) /\ Kept(failed) /\ Kept(cleaned)
  BY DEF Done, Failed, Cleaned, CallFields
<1> HIDE DEF done, failed, cleaned
<1>2. Kept([failed EXCEPT !.panicked = TRUE]) /\ Kept([cleaned EXCEPT !.err = TRUE])
  BY <1>1 DEF CallFields
<1>3. \A new : Kept(new) => Reports(new, tables, functions)
  <2>1. \A new : Kept(new) => SeenAgrees(new, tables)
    BY DEF SeenAgrees
  <2>2. QED
    BY <2>1, SameReport
<1> HIDE DEF Kept
<1>4. QED
  BY <1>1, <1>2, <1>3 DEF Panicked, CleanupFailed, done, failed, cleaned

(* The steps that leave the catalog alone, but for the note of a view.     *)
LEMMA ReportsKept ==
  ASSUME CallsTyped, RegistriesSound, ~ Fault, NEW c \in Conns, ReportInv(c), UNCHANGED cat,
         \/ CollectFunctions(c) \/ BuildDDL(c) \/ Query(c) \/ BeginCommit(c) \/ DropOld(c)
         \/ Create(c) \/ DropObject(c) \/ ReadSpec(c) \/ SkipCleanup(c) \/ CleanupObject(c)
         \/ EndCall(c) \/ CloseRows(c)
  PROVE  \E new : Set(c, new) /\ Reports(new, TablesKnown, DOMAIN cat.functions.map)
<1> DEFINE call == calls[c]
           stmt == Stmt(c)
           F == DOMAIN cat.functions.map
           Like(new) ==
               /\ DOMAIN new = CallFields
               /\ \A f \in {"script", "cc", "before", "funcMap"} : new[f] = call[f]
<1>1. /\ DOMAIN call = CallFields /\ Notes(call, TablesKnown, F)
      /\ call.step \notin Early => FunctionsAgree(call, F)
  BY DEF CallsTyped, IsCall, HasFields, ReportInv, Reports
<1>2. ~ CollectFunctions(c) => call.step \notin Early
  BY DEF BuildDDL, Query, BeginCommit, DropOld, Create, DropObject, ReadSpec, SkipCleanup,
         CleanupObject, EndCall, CloseRows, Cleaning, At, Early
<1>3. ASSUME NEW new, Like(new), new.step # "unregister", call.step \notin Early
      PROVE  Reports(new, TablesKnown, F)
  <2>1. SeenAgrees(new, TablesKnown)
    BY <1>3 DEF SeenAgrees
  <2> HIDE DEF call
  <2>2. QED
    BY <1>1, <1>3, <2>1, SameReport
<1>4. call.step \notin Early =>
        \A step \in Steps \ {"unregister"} :
            Reports([call EXCEPT !.step = step], TablesKnown, F)
  <2>1. \A step : LET new == [call EXCEPT !.step = step] IN Like(new) /\ new.step = step
    BY <1>1 DEF CallFields
  <2> HIDE DEF Like, call
  <2>2. QED
    BY <1>3, <2>1
<1>5. call.step \notin Early =>
        /\ Reports(Failed(call), TablesKnown, F)
        /\ Reports(Cleaned(call), TablesKnown, F) /\ Reports(CleanupFailed(call), TablesKnown, F)
  BY <1>1, ReportAfter
<1>6. CASE CollectFunctions(c)
  <2> DEFINE new == [call EXCEPT !.step = "stmt", !.funcMap = Rebuild(cat.functions.list).map]
             known == [call EXCEPT !.funcMap = Rebuild(cat.functions.list).map]
  <2>1. Sound(Rebuild(cat.functions.list), FunctionSpecs) /\ DOMAIN Rebuild(cat.functions.list).map = F
    BY RebuildMap DEF RegistriesSound
  <2>2. /\ new.funcMap = Rebuild(cat.functions.list).map /\ new.step = "stmt"
        /\ new.script = call.script /\ new.cc = call.cc /\ new.before = call.before
    BY <1>1 DEF CallFields
  <2>3. Set(c, new)
    BY <1>6 DEF CollectFunctions
  <2> HIDE DEF new, call
  <2>4. FunctionsAgree(new, F)
    BY <2>1, <2>2 DEF FunctionsAgree, Sound, IsRegistry, Consistent
  <2>5. Notes(new, TablesKnown, F)
    BY <1>1, <2>2 DEF Notes, ChangesTyped, NetEffects
  <2>6. SeenAgrees(new, TablesKnown)
    BY <2>2 DEF SeenAgrees
  <2>7. QED
    BY <2>3, <2>4, <2>5, <2>6 DEF Reports
<1>7. CASE BuildDDL(c)
  <2> DEFINE new == [call EXCEPT !.step = FirstStep(stmt), !.built = call.pc]
  <2>1. Like(new) /\ new.step = FirstStep(stmt) /\ new.pc = call.pc
    BY <1>1 DEF CallFields
  <2>2. Set(c, new)
    BY <1>7 DEF BuildDDL
  <2> HIDE DEF new
  <2>3. SeenAgrees(new, TablesKnown)
    <3>1. new.script[new.pc] = stmt
      BY <2>1 DEF Stmt
    <3>2. new.step = "unregister" => IsFunction(stmt)
      BY <2>1 DEF FirstStep
    <3> HIDE DEF stmt
    <3>3. QED
      BY <3>1, <3>2 DEF SeenAgrees
  <2> HIDE DEF call
  <2>4. Reports(new, TablesKnown, F)
    BY <1>1, <1>2, <1>7, <2>1, <2>3, SameReport DEF CollectFunctions, BuildDDL, At
  <2>5. QED
    BY <2>2, <2>4
<1>8. CASE Query(c) \/ BeginCommit(c)
  <2> DEFINE at == [call EXCEPT !.built = call.pc]
  <2>1. Like(at) /\ at.step = call.step /\ call.step = "stmt"
    BY <1>1, <1>8 DEF CallFields, Query, BeginCommit, At
  <2>2. Fail(c) \/ Set(c, Done(at)) \/ Set(c, Failed(at))
    BY <1>8 DEF Query, BeginCommit
  <2> HIDE DEF at, call
  <2>3. call.step \notin Early
    BY <2>1 DEF Early
  <2>4. Reports(at, TablesKnown, F)
    BY <1>3, <2>1, <2>3
  <2>5. Reports(Done(at), TablesKnown, F) /\ Reports(Failed(at), TablesKnown, F)
    BY <2>1, <2>3, <2>4, ReportAfter DEF Reports
  <2>6. QED
    BY <1>5, <2>2, <2>3, <2>5 DEF Fail, call
<1>9. CASE ReadSpec(c)
  <2> DEFINE seen == IF StmtName(stmt) \in DOMAIN cat.tables.map
                     THEN cat.tables.map[StmtName(stmt)] ELSE NoSpec
             new == [call EXCEPT !.step = "unregister", !.seen = seen]
  <2>1. Like(new) /\ new.step = "unregister" /\ new.pc = call.pc /\ new.seen = seen
    BY <1>1 DEF CallFields
  <2>2. Set(c, new)
    BY <1>9 DEF ReadSpec
  <2> HIDE DEF new
  <2>3. SeenAgrees(new, TablesKnown)
    <3>1. new.script[new.pc] = stmt
      BY <2>1 DEF Stmt
    <3>2. \A n \in TablesKnown : cat.tables.map[n] \in TableSpecs /\ SpecName(cat.tables.map[n]) = n
      BY DEF TablesKnown, RegistriesSound, Sound, IsRegistry, Consistent
    <3> HIDE DEF stmt
    <3>3. QED
      BY <2>1, <3>1, <3>2 DEF SeenAgrees, TablesKnown
  <2>4. call.step \notin Early
    BY <1>9 DEF ReadSpec, At, Early
  <2> HIDE DEF call
  <2>5. Reports(new, TablesKnown, F)
    BY <1>1, <2>1, <2>3, <2>4, SameReport
  <2>6. QED
    BY <2>2, <2>5
<1>10. CASE CloseRows(c)
  <2> DEFINE new == [call EXCEPT !.step = "cleanup", !.pc = 1]
  <2>1. Like(new) /\ new.step = "cleanup"
    BY <1>1 DEF CallFields
  <2>2. Set(c, new) /\ call.step \notin Early
    BY <1>10 DEF CloseRows, At, Early
  <2> HIDE DEF new, call
  <2>3. QED
    BY <1>3, <2>1, <2>2
<1>11. CASE SkipCleanup(c) \/ CleanupObject(c) \/ EndCall(c)
  <2>1. call.step \notin Early
    BY <1>11 DEF SkipCleanup, CleanupObject, EndCall, Cleaning, At, Early
  <2>2. \/ Goto(c, "forget") \/ Goto(c, "idle")
        \/ Set(c, Cleaned(call)) \/ Set(c, CleanupFailed(call))
    BY <1>11 DEF SkipCleanup, CleanupObject, EndCall
  <2>3. QED
    BY <1>4, <1>5, <2>1, <2>2 DEF Goto, Steps
<1>12. CASE DropOld(c) \/ Create(c) \/ DropObject(c)
  <2>1. call.step \notin Early
    BY <1>12 DEF DropOld, Create, DropObject, At, Early
  <2>2. Goto(c, "create") \/ Goto(c, "register") \/ Goto(c, "read") \/ Fail(c)
    BY <1>12 DEF DropOld, Create, DropObject, Refused, Faulty
  <2>3. QED
    BY <1>4, <1>5, <2>1, <2>2 DEF Goto, Fail, Steps
<1>13. QED
  BY <1>6, <1>7, <1>8, <1>9, <1>10, <1>11, <1>12

(* What a call notes in its ChangedCatalog is what became of the catalog.  *)
LEMMA NotedTable ==
  ASSUME NEW call, DOMAIN call = CallFields, NEW T, NEW U, NEW F, Notes(call, T, F),
         FunctionsAgree(call, F), NEW spec \in TableSpecs,
         U \ {SpecName(spec)} = T \ {SpecName(spec)},
         NEW changes,
         \/ changes = Add(call.cc.tables, spec) /\
                SpecName(spec) \in CreatedAs(call.script, ViewOrTemp) \cup U
         \/ changes = Delete(call.cc.tables, spec) /\ SpecName(spec) \notin U
  PROVE  LET new == [call EXCEPT !.cc.tables = changes]
         IN  DOMAIN new = CallFields /\ Notes(new, U, F) /\ FunctionsAgree(new, F)
<1> DEFINE new == [call EXCEPT !.cc.tables = changes]
           except == CreatedAs(call.script, ViewOrTemp)
<1>1. /\ DOMAIN new = CallFields /\ new.cc.tables = changes /\ DOMAIN new.cc = DOMAIN call.cc
      /\ new.cc.functions = call.cc.functions /\ new.funcMap = call.funcMap
      /\ new.before = call.before /\ new.script = call.script
  BY DEF CallFields, Notes, ChangesTyped
<1>2. /\ IsChanges(call.cc.tables, TableSpecs)
      /\ NetEffect(call.cc.tables, call.before.tables, T, except)
  BY DEF Notes, ChangesTyped, NetEffects
<1> HIDE DEF new, except
<1>3. IsChanges(changes, TableSpecs) /\ NetEffect(changes, call.before.tables, U, except)
  <2>1. CASE changes = Add(call.cc.tables, spec) /\ SpecName(spec) \in except \cup U
    BY <1>2, <2>1, NoNilSpecs, NotesAdded, NetOfAdd
  <2>2. CASE changes = Delete(call.cc.tables, spec) /\ SpecName(spec) \notin U
    BY <1>2, <2>2, NoNilSpecs, NotesDropped, NetOfDelete
  <2>3. QED
    BY <2>1, <2>2 DEF except
<1>4. Notes(new, U, F)
  BY <1>1, <1>3 DEF Notes, ChangesTyped, NetEffects, except
<1>5. FunctionsAgree(new, F)
  BY <1>1 DEF FunctionsAgree
<1>6. QED
  BY <1>1, <1>4, <1>5 DEF new

FunctionNoted(call, spec, changes, known, F, G) ==
    /\ (G \ Names(MissingFunctions)) \ {SpecName(spec)} =
            (F \ Names(MissingFunctions)) \ {SpecName(spec)}
    /\ \/ /\ changes = Add(call.cc.functions, spec)
          /\ SpecName(spec) \in
                CreatedAs(call.script, ViewOrTemp) \cup (G \ Names(MissingFunctions))
       \/ changes = Delete(call.cc.functions, spec) /\ SpecName(spec) \notin G
    /\ DOMAIN known = G
    /\ \A n \in G : known[n] \in FunctionSpecs /\ SpecName(known[n]) = n

LEMMA NotedFunction ==
  ASSUME NEW call, DOMAIN call = CallFields, NEW T, NEW F, NEW G, Notes(call, T, F),
         NEW spec \in FunctionSpecs, NEW changes, NEW known,
         FunctionNoted(call, spec, changes, known, F, G)
  PROVE  LET new == [call EXCEPT !.cc.functions = changes, !.funcMap = known]
         IN  DOMAIN new = CallFields /\ Notes(new, T, G) /\ FunctionsAgree(new, G)
<1> DEFINE new == [call EXCEPT !.cc.functions = changes, !.funcMap = known]
<1> USE DEF FunctionNoted
<1> DEFINE except == CreatedAs(call.script, ViewOrTemp)
           before == call.before.functions \ Names(MissingFunctions)
           now == F \ Names(MissingFunctions)
           then == G \ Names(MissingFunctions)
<1>1. /\ DOMAIN new = CallFields /\ new.cc.functions = changes /\ DOMAIN new.cc = DOMAIN call.cc
      /\ new.cc.tables = call.cc.tables /\ new.funcMap = known
      /\ new.before = call.before /\ new.script = call.script
  BY DEF CallFields, Notes, ChangesTyped
<1>2. /\ IsChanges(call.cc.functions, FunctionSpecs)
      /\ NetEffect(call.cc.functions, before, now, except)
  BY DEF Notes, ChangesTyped, NetEffects
<1> HIDE DEF new
<1>3. IsChanges(changes, FunctionSpecs) /\ NetEffect(changes, before, then, except)
  <2>1. then \ {SpecName(spec)} = now \ {SpecName(spec)}
    OBVIOUS
  <2> HIDE DEF except, before, now
  <2>2. CASE changes = Add(call.cc.functions, spec) /\ SpecName(spec) \in except \cup then
    <3> HIDE DEF then
    <3>1. QED
      BY <1>2, <2>1, <2>2, NoNilSpecs, NotesAdded, NetOfAdd
  <2>3. CASE changes = Delete(call.cc.functions, spec) /\ SpecName(spec) \notin then
    <3> HIDE DEF then
    <3>1. QED
      BY <1>2, <2>1, <2>3, NoNilSpecs, NotesDropped, NetOfDelete
  <2>4. QED
    BY <2>2, <2>3 DEF except
<1>4. Notes(new, T, G)
  BY <1>1, <1>3 DEF Notes, ChangesTyped, NetEffects
<1>5. FunctionsAgree(new, G)
  BY <1>1 DEF FunctionsAgree
<1>6. QED
  BY <1>1, <1>4, <1>5 DEF new

(* A statement of a script that makes a temporary object or a view.        *)
LEMMA LeftOut ==
  ASSUME NEW call, NEW i \in DOMAIN call.script, call.script[i].op = "create",
         ViewOrTemp(call.script[i].spec)
  PROVE  StmtName(call.script[i]) \in CreatedAs(call.script, ViewOrTemp)
BY DEF CreatedAs, ToSet

(* A change of the names left out changes no report.                       *)
LEMMA NotedOtherwise ==
  ASSUME NEW call, NEW T, NEW U, NEW F, NEW G, Notes(call, T, F),
         T \ CreatedAs(call.script, ViewOrTemp) = U \ CreatedAs(call.script, ViewOrTemp),
         F \ CreatedAs(call.script, ViewOrTemp) = G \ CreatedAs(call.script, ViewOrTemp)
  PROVE  Notes(call, U, G)
<1> DEFINE except == CreatedAs(call.script, ViewOrTemp)
<1>1. NetEffect(call.cc.tables, call.before.tables, U, except)
  BY NetOfExcept DEF Notes, NetEffects
<1>2. (F \ Names(MissingFunctions)) \ except = (G \ Names(MissingFunctions)) \ except
  OBVIOUS
<1>3. NetEffect(call.cc.functions, call.before.functions \ Names(MissingFunctions),
                F \ Names(MissingFunctions), except)
  BY DEF Notes, NetEffects
<1> HIDE DEF except
<1>4. NetEffect(call.cc.functions, call.before.functions \ Names(MissingFunctions),
                G \ Names(MissingFunctions), except)
  BY <1>2, <1>3, NetOfExcept
<1>5. QED
  BY <1>1, <1>4 DEF Notes, NetEffects, except

(* A statement that a call is at, and what is left out if it makes it.     *)
LEMMA AtCreated ==
  ASSUME CallsTyped, NEW c \in Conns, calls[c].pc \in DOMAIN calls[c].script,
         Stmt(c) \in Created, ViewOrTemp(Stmt(c).spec)
  PROVE  SpecName(Stmt(c).spec) \in CreatedAs(calls[c].script, ViewOrTemp)
<1>1. calls[c].script[calls[c].pc].op = "create"
      /\ ViewOrTemp(calls[c].script[calls[c].pc].spec)
  BY DEF Created, Stmt
<1>2. QED
  BY <1>1, LeftOut DEF Stmt, StmtName

LEMMA ReportsRegister ==
  ASSUME NoMissingFunctionCreated, CallsTyped, RegistriesSound, ~ Fault, NEW c \in Conns,
         ReportInv(c), Register(c)
  PROVE  \E new : Set(c, new) /\ Reports(new, TablesKnown', DOMAIN cat'.functions.map)
<1> DEFINE call == calls[c]
           stmt == Stmt(c)
           spec == stmt.spec
           name == SpecName(spec)
           T == TablesKnown
           F == DOMAIN cat.functions.map
           U == TablesKnown'
           G == DOMAIN cat'.functions.map
           except == CreatedAs(call.script, ViewOrTemp)
<1>1. /\ stmt \in Created /\ call.pc \in DOMAIN call.script /\ DOMAIN call = CallFields
      /\ call.step = "register"
  BY RegisterStmt, AtWork DEF Register, At, Working, IsCall, HasFields
<1>2. Notes(call, T, F) /\ FunctionsAgree(call, F)
  BY <1>1 DEF ReportInv, Reports, Early
<1>3. cat' = CatalogWith(spec) /\ Set(c, NoteAdded(call, spec))
  BY DEF Register
<1>4. spec \in IF IsFunction(stmt) THEN FunctionSpecs ELSE TableSpecs
  BY <1>1, CreatedSpec
<1>5. IF IsFunction(stmt) THEN U = T /\ G = F \cup {name} ELSE U = T \cup {name} /\ G = F
  BY <1>3, <1>4, CatalogWithAdds DEF RegistriesSound, TablesKnown, StmtName
<1>6. IsFunction(stmt) <=> spec.kind = "function"
  BY DEF IsFunction
<1>7. ViewOrTemp(spec) => name \in except
  BY <1>1, AtCreated
<1>8. IsFunction(stmt) /\ ~ spec.temp => name \notin Names(MissingFunctions)
  BY <1>1 DEF NoMissingFunctionCreated, StmtName
<1> HIDE DEF call, stmt, spec, T, F, U, G
<1>9. CASE IsFunction(stmt)
  <2> DEFINE changes == Add(call.cc.functions, spec)
             known == Put(call.funcMap, name, spec)
             new == [call EXCEPT !.cc.functions = changes, !.funcMap = known]
  <2>1. IsChanges(call.cc.functions, FunctionSpecs)
    BY <1>2 DEF Notes, ChangesTyped
  <2>2. CanAdd(call.cc.functions, spec)
    BY <1>4, <1>9, <2>1, NoNilSpecs, NotesAdded
  <2>3. NoteAdded(call, spec) = Done(new)
    BY <1>6, <1>9, <2>2 DEF NoteAdded
  <2>4. /\ DOMAIN known = G
        /\ \A n \in G : known[n] \in FunctionSpecs /\ SpecName(known[n]) = n
    BY <1>2, <1>4, <1>5, <1>9 DEF FunctionsAgree, Put
  <2>5. (G \ Names(MissingFunctions)) \ {name} = (F \ Names(MissingFunctions)) \ {name}
    BY <1>5, <1>9
  <2>6. name \in except \cup (G \ Names(MissingFunctions))
    BY <1>5, <1>7, <1>8, <1>9 DEF ViewOrTemp
  <2>7. /\ changes = Add(call.cc.functions, spec)
        /\ SpecName(spec) \in
             CreatedAs(call.script, ViewOrTemp) \cup (G \ Names(MissingFunctions))
    BY <2>6
  <2> HIDE DEF changes, known, except
  <2>8. spec \in FunctionSpecs
    BY <1>4, <1>9
  <2>9. FunctionNoted(call, spec, changes, known, F, G)
    BY <2>4, <2>5, <2>7 DEF FunctionNoted, name
  <2>10. DOMAIN new = CallFields /\ Notes(new, T, G) /\ FunctionsAgree(new, G)
    BY <1>1, <1>2, <2>8, <2>9, NotedFunction
  <2> HIDE DEF new
  <2>11. Reports(Done(new), T, G)
    BY <2>10, ReportAfter
  <2>12. QED
    BY <1>3, <1>5, <1>9, <2>3, <2>11 DEF call, spec, U, G
<1>10. CASE ~ IsFunction(stmt) /\ ViewOrTemp(spec)
  <2>1. NoteAdded(call, spec) = Done(call)
    BY <1>6, <1>10 DEF NoteAdded, ViewOrTemp
  <2>2. T \ except = U \ except /\ F \ except = G \ except
    BY <1>5, <1>7, <1>10
  <2>3. Notes(call, U, G) /\ FunctionsAgree(call, G)
    BY <1>2, <1>5, <1>10, <2>2, NotedOtherwise
  <2>4. Reports(Done(call), U, G)
    BY <1>1, <2>3, ReportAfter
  <2>5. QED
    BY <1>3, <2>1, <2>4 DEF call, spec, U, G
<1>11. CASE ~ IsFunction(stmt) /\ ~ ViewOrTemp(spec)
  <2> DEFINE changes == Add(call.cc.tables, spec)
             new == [call EXCEPT !.cc.tables = changes]
  <2>1. IsChanges(call.cc.tables, TableSpecs)
    BY <1>2 DEF Notes, ChangesTyped
  <2>2. CanAdd(call.cc.tables, spec)
    BY <1>4, <1>11, <2>1, NoNilSpecs, NotesAdded
  <2>3. NoteAdded(call, spec) = Done(new)
    BY <1>6, <1>11, <2>2 DEF NoteAdded, ViewOrTemp
  <2>4. U \ {name} = T \ {name} /\ name \in U /\ G = F
    BY <1>5, <1>11
  <2> HIDE DEF changes
  <2>5. DOMAIN new = CallFields /\ Notes(new, U, F) /\ FunctionsAgree(new, F)
    BY <1>1, <1>2, <1>4, <1>11, <2>4, NotedTable DEF changes
  <2> HIDE DEF new
  <2>6. Reports(Done(new), U, G)
    BY <2>4, <2>5, ReportAfter
  <2>7. QED
    BY <1>3, <2>3, <2>6 DEF call, spec, U, G
<1>12. QED
  BY <1>9, <1>10, <1>11

LEMMA ReportsUnregister ==
  ASSUME CallsTyped, RegistriesSound, ~ Fault, NEW c \in Conns, ReportInv(c), Unregister(c)
  PROVE  \E new : Set(c, new) /\ Reports(new, TablesKnown', DOMAIN cat'.functions.map)
<1> DEFINE call == calls[c]
           stmt == Stmt(c)
           name == StmtName(stmt)
           T == TablesKnown
           F == DOMAIN cat.functions.map
           U == TablesKnown'
           G == DOMAIN cat'.functions.map
<1>1. DOMAIN call = CallFields /\ call.step = "unregister" /\ stmt \in Statements
  BY AtWork DEF Unregister, At, Working, IsCall, HasFields
<1>2. Notes(call, T, F) /\ FunctionsAgree(call, F) /\ SeenAgrees(call, T)
  BY <1>1 DEF ReportInv, Reports, Early
<1>3. CASE ~ Known(stmt)
  <2>1. Fail(c) /\ U = T /\ G = F
    BY <1>3 DEF Unregister, Refused, TablesKnown
  <2> HIDE DEF call, T, F, U, G
  <2>2. Reports(Failed(call), U, G)
    BY <1>1, <1>2, <2>1, ReportAfter
  <2>3. QED
    BY <2>1, <2>2 DEF Fail, call, U, G
<1>4. CASE Known(stmt)
  <2>1. cat' = CatalogWithout(stmt) /\ Set(c, NoteDeleted(call, stmt))
    BY <1>4 DEF Unregister
  <2>2. /\ U = T \ IF IsFunction(stmt) THEN {} ELSE {name}
        /\ G = F \ IF IsFunction(stmt) THEN {name} ELSE {}
    BY <1>4, <2>1, CatalogWithoutRemoves DEF RegistriesSound, TablesKnown
  <2>3. name \in IF IsFunction(stmt) THEN F ELSE T
    BY <1>4 DEF Known, TablesKnown
  <2>4. stmt = call.script[call.pc]
    BY DEF Stmt
  <2> HIDE DEF call, stmt, name, T, F, U, G
  <2>5. CASE IsFunction(stmt)
    <3> DEFINE spec == call.funcMap[name]
               changes == Delete(call.cc.functions, spec)
               known == Minus(call.funcMap, name)
               new == [call EXCEPT !.cc.functions = changes, !.funcMap = known]
    <3>1. IsChanges(call.cc.functions, FunctionSpecs)
      BY <1>2 DEF Notes, ChangesTyped
    <3>2. spec \in FunctionSpecs /\ SpecName(spec) = name /\ name \in DOMAIN call.funcMap
      BY <1>2, <2>3, <2>5 DEF FunctionsAgree
    <3>3. CanDelete(call.cc.functions, spec)
      BY <3>1, <3>2, NoNilSpecs, NotesDropped
    <3>4. NoteDeleted(call, stmt) = Done(new)
      BY <2>5, <3>2, <3>3 DEF NoteDeleted, name
    <3>5. /\ DOMAIN known = G
          /\ \A n \in G : known[n] \in FunctionSpecs /\ SpecName(known[n]) = n
      BY <1>2, <2>2, <2>5 DEF FunctionsAgree, Minus
    <3>6. /\ (G \ Names(MissingFunctions)) \ {SpecName(spec)} =
                (F \ Names(MissingFunctions)) \ {SpecName(spec)}
          /\ changes = Delete(call.cc.functions, spec) /\ SpecName(spec) \notin G /\ U = T
      BY <2>2, <2>5, <3>2
    <3> HIDE DEF spec, known, changes
    <3>7. DOMAIN new = CallFields /\ Notes(new, T, G) /\ FunctionsAgree(new, G)
      <4>1. FunctionNoted(call, spec, changes, known, F, G)
        BY <3>5, <3>6 DEF FunctionNoted
      <4>2. QED
        BY <1>1, <1>2, <3>2, <4>1, NotedFunction
    <3> HIDE DEF new
    <3>8. Reports(Done(new), U, G)
      BY <3>6, <3>7, ReportAfter
    <3>9. QED
      BY <2>1, <3>4, <3>8 DEF call, stmt, U, G
  <2>6. CASE ~ IsFunction(stmt)
    <3> DEFINE spec == call.seen
               changes == Delete(call.cc.tables, spec)
               new == [call EXCEPT !.cc.tables = changes]
    <3>1. IsChanges(call.cc.tables, TableSpecs)
      BY <1>2 DEF Notes, ChangesTyped
    <3>2. spec \in TableSpecs /\ SpecName(spec) = name
      BY <1>1, <1>2, <2>3, <2>4, <2>6 DEF SeenAgrees, name
    <3>3. CanDelete(call.cc.tables, spec)
      BY <3>1, <3>2, NoNilSpecs, NotesDropped
    <3>4. NoteDeleted(call, stmt) = Done(new)
      BY <2>6, <3>3 DEF NoteDeleted
    <3>5. U \ {name} = T \ {name} /\ name \notin U /\ G = F
      BY <2>2, <2>6
    <3> HIDE DEF spec, changes
    <3>6. DOMAIN new = CallFields /\ Notes(new, U, F) /\ FunctionsAgree(new, F)
      <4>1. /\ U \ {SpecName(spec)} = T \ {SpecName(spec)}
            /\ changes = Delete(call.cc.tables, spec) /\ SpecName(spec) \notin U
        BY <3>2, <3>5 DEF changes
      <4>2. QED
        BY <1>1, <1>2, <3>2, <4>1, NotedTable
    <3> HIDE DEF new
    <3>7. Reports(Done(new), U, G)
      BY <3>5, <3>6, ReportAfter
    <3>8. QED
      BY <2>1, <3>4, <3>7 DEF call, stmt, U, G
  <2>7. QED
    BY <2>5, <2>6
<1>5. QED
  BY <1>3, <1>4

LEMMA ReportsCleanup ==
  ASSUME CallsTyped, RegistriesSound, ~ Fault, NEW c \in Conns, ReportInv(c),
         CleanupView(c) \/ Forget(c)
  PROVE  \E new : Set(c, new) /\ Reports(new, TablesKnown', DOMAIN cat'.functions.map)
<1> DEFINE call == calls[c]
           stmt == Stmt(c)
           name == StmtName(stmt)
           T == TablesKnown
           F == DOMAIN cat.functions.map
           U == TablesKnown'
           G == DOMAIN cat'.functions.map
           except == CreatedAs(call.script, ViewOrTemp)
<1>1. /\ DOMAIN call = CallFields /\ call.step \in {"cleanup", "forget"}
      /\ stmt \in Statements /\ call.pc \in DOMAIN call.script
  BY CleaningStmt DEF CleanupView, Forget, Cleaning, At, CallsTyped, IsCall, HasFields
<1>2. Notes(call, T, F) /\ FunctionsAgree(call, F)
  BY <1>1 DEF ReportInv, Reports, Early
<1>3. stmt \in Created /\ name \in except
  <2>1. stmt \in Created /\ ViewOrTemp(stmt.spec)
    <3>1. CASE CleanupView(c)
      BY <1>1, <3>1 DEF CleanupView, Created, ViewOrTemp
    <3>2. CASE Forget(c)
      <4>1. stmt.spec.temp
        BY <3>2, AtWork DEF Forget, At, StmtFits
      <4>2. QED
        BY <1>1, <4>1, StatementsWellFormed DEF Created, ViewOrTemp
    <3>3. QED
      BY <3>1, <3>2
  <2>2. QED
    BY <1>1, <2>1, AtCreated DEF StmtName
<1>4. CASE CleanupView(c)
  <2> DEFINE spec == stmt.spec
             changes == Add(call.cc.tables, spec)
             new == [call EXCEPT !.cc.tables = changes]
  <2>1. spec \in TableSpecs /\ U = T /\ G = F
    BY <1>3, <1>4 DEF TableSpecs, IsFunction, CleanupView, TablesKnown
  <2>2. IsChanges(call.cc.tables, TableSpecs)
    BY <1>2 DEF Notes, ChangesTyped
  <2>3. CanAdd(call.cc.tables, spec)
    BY <2>1, <2>2, NoNilSpecs, NotesAdded
  <2>4. Set(c, Cleaned(new))
    BY <1>4, <2>3 DEF CleanupView
  <2>5. changes = Add(call.cc.tables, spec)
        /\ SpecName(spec) \in CreatedAs(call.script, ViewOrTemp) \cup T
    BY <1>3 DEF StmtName
  <2>6. T \ {SpecName(spec)} = T \ {SpecName(spec)}
    OBVIOUS
  <2> HIDE DEF call, stmt, name, T, F, U, G, spec, changes
  <2>7. DOMAIN new = CallFields /\ Notes(new, T, F) /\ FunctionsAgree(new, F)
    BY <1>1, <1>2, <2>1, <2>5, <2>6, NotedTable
  <2> HIDE DEF new
  <2>8. Reports(Cleaned(new), U, G)
    BY <2>1, <2>7, ReportAfter
  <2>9. QED
    BY <2>4, <2>8 DEF U, G
<1>5. CASE Forget(c) /\ ~ Known(stmt)
  <2>1. Set(c, CleanupFailed(call)) /\ U = T /\ G = F
    BY <1>5 DEF Forget, TablesKnown
  <2> HIDE DEF call, T, F, U, G
  <2>2. Reports(CleanupFailed(call), U, G)
    BY <1>1, <1>2, <2>1, ReportAfter
  <2>3. QED
    BY <2>1, <2>2 DEF U, G
<1>6. CASE Forget(c) /\ Known(stmt)
  <2> DEFINE known == IF IsFunction(stmt) THEN Minus(call.funcMap, name) ELSE call.funcMap
             new == [call EXCEPT !.funcMap = known]
  <2>1. cat' = CatalogWithout(stmt) /\ Set(c, Cleaned(new))
    BY <1>6 DEF Forget
  <2>2. /\ U = T \ IF IsFunction(stmt) THEN {} ELSE {name}
        /\ G = F \ IF IsFunction(stmt) THEN {name} ELSE {}
    BY <1>6, <2>1, CatalogWithoutRemoves DEF RegistriesSound, TablesKnown
  <2>3. /\ DOMAIN new = CallFields /\ new.funcMap = known /\ new.cc = call.cc
        /\ new.script = call.script /\ new.before = call.before
    BY <1>1 DEF CallFields
  <2>4. T \ except = U \ except /\ F \ except = G \ except
    BY <1>3, <2>2
  <2> HIDE DEF call, stmt, name, T, F, U, G, new, except
  <2>5. Notes(call, U, G)
    BY <1>2, <2>4, NotedOtherwise DEF except
  <2>6. Notes(new, U, G)
    BY <2>3, <2>5 DEF Notes, ChangesTyped, NetEffects
  <2>7. FunctionsAgree(new, G)
    BY <1>2, <2>2, <2>3 DEF FunctionsAgree, Minus
  <2>8. Reports(Cleaned(new), U, G)
    BY <2>3, <2>6, <2>7, ReportAfter
  <2>9. QED
    BY <2>1, <2>8 DEF U, G
<1>7. QED
  BY <1>4, <1>5, <1>6

(* A call that has noted nothing, and has not begun to work.               *)
LEMMA NothingNoted ==
  ASSUME NEW new, NEW T, NEW F, new.step \in {"idle", "sync"}, new.cc = newChangedCatalog,
         new.before.tables = T, new.before.functions = F
  PROVE  Reports(new, T, F)
<1>1. << >> \in Seq(TableSpecs) /\ << >> \in Seq(FunctionSpecs) /\ NamesOf(<< >>) = {}
  BY DEF NamesOf, ToSet
<1>2. ChangesTyped(new)
  <2>1. IsChanges(NoChanges, TableSpecs) /\ IsChanges(NoChanges, FunctionSpecs)
    BY <1>1 DEF IsChanges, NoChanges
  <2>2. /\ DOMAIN new.cc = {"tables", "functions"}
        /\ new.cc.tables = NoChanges /\ new.cc.functions = NoChanges
    BY DEF newChangedCatalog
  <2>3. QED
    BY <2>1, <2>2 DEF ChangesTyped
<1>3. \A before, except : NetEffect(NoChanges, before, before, except)
  BY <1>1 DEF NetEffect, NoChanges
<1>4. NetEffects(new, T, F)
  BY <1>3 DEF NetEffects, newChangedCatalog
<1>5. QED
  BY <1>2, <1>4 DEF Reports, Notes, SeenAgrees, Early

(* A call begins with nothing to report, and Sync tells it nothing new     *)
(* where every row is already known.                                       *)
LEMMA ReportsBegin ==
  ASSUME CallsTyped, RegistriesSound, RowsTyped, RowsKnown, NEW c \in Conns, ReportInv(c),
         Begin(c) \/ Sync(c)
  PROVE  \E new : Set(c, new) /\ Reports(new, TablesKnown', DOMAIN cat'.functions.map)
<1> DEFINE T == TablesKnown
           F == DOMAIN cat.functions.map
<1>1. CASE Begin(c)
  <2>1. PICK p \in Programs[c] : Set(c, NewCall(p.script, p.mode, calls[c].n + 1))
    BY <1>1 DEF Begin
  <2> DEFINE new == NewCall(p.script, p.mode, calls[c].n + 1)
  <2>2. UNCHANGED cat
    BY <1>1 DEF Begin
  <2>3. /\ new.step = "sync" /\ new.cc = newChangedCatalog
        /\ new.before.tables = T /\ new.before.functions = F
    BY DEF NewCall, TablesKnown
  <2> HIDE DEF new, T, F
  <2>4. Reports(new, T, F)
    BY <2>3, NothingNoted
  <2>5. QED
    BY <2>1, <2>2, <2>4 DEF new, T, F, TablesKnown
<1>2. CASE Sync(c)
  <2> DEFINE call == calls[c]
             new == [call EXCEPT !.step = "functions"]
             Like == \A f \in {"script", "cc", "before", "funcMap"} : new[f] = call[f]
  <2>1. PICK order \in SetToSeqs(Fresh) : cat' = FoldLeft(LoadRow, cat, order)
    BY <1>2 DEF Sync, Fresh
  <2>2. LoadedCatalog(cat', Fresh, TableSpecs, FunctionSpecs)
    BY <2>1, SyncLoads, RowsWithinSpecs DEF RegistriesSound
  <2>3. TablesKnown' = T /\ DOMAIN cat'.functions.map = F
    <3>1. {n \in Fresh : ~ FunctionRow(n)} \subseteq T /\ {n \in Fresh : FunctionRow(n)} \subseteq F
      BY DEF RowsKnown, Fresh
    <3>2. /\ DOMAIN cat'.tables.map = T \cup {n \in Fresh : ~ FunctionRow(n)}
          /\ DOMAIN cat'.functions.map = F \cup {n \in Fresh : FunctionRow(n)}
      BY <2>2 DEF LoadedCatalog, Loaded, TablesKnown
    <3>3. QED
      BY <3>1, <3>2 DEF TablesKnown
  <2>4. Set(c, new) /\ Like /\ new.step = "functions"
    BY <1>2 DEF Sync, Goto, CallsTyped, IsCall, HasFields, CallFields
  <2>5. Notes(call, T, F)
    BY DEF ReportInv, Reports
  <2> HIDE DEF new, call, T, F
  <2>6. SeenAgrees(new, T) /\ new.step \in Early
    BY <2>4 DEF SeenAgrees, Early
  <2>7. Reports(new, T, F)
    BY <2>4, <2>5, <2>6, SameReport
  <2>8. QED
    BY <2>3, <2>4, <2>7
<1>3. QED
  BY <1>1, <1>2

LEMMA ReportsStep ==
  ASSUME NoMissingFunctionCreated, IInv, RowsKnown, ~ Fault, NEW c \in Conns, ReportInv(c),
         Begin(c) \/ Step(c) \/ CloseRows(c)
  PROVE  ReportInv(c)'
<1> USE DEF IInv
<1>1. SUFFICES \E new : Set(c, new) /\ Reports(new, TablesKnown', DOMAIN cat'.functions.map)
  BY DEF Set, CallsTyped, ReportInv
<1>2. CASE Begin(c) \/ Sync(c)
  BY <1>2, ReportsBegin
<1>3. CASE Register(c)
  BY <1>3, ReportsRegister
<1>4. CASE Unregister(c)
  BY <1>4, ReportsUnregister
<1>5. CASE CleanupView(c) \/ Forget(c)
  BY <1>5, ReportsCleanup
<1>6. CASE \/ CollectFunctions(c) \/ BuildDDL(c) \/ Query(c) \/ BeginCommit(c) \/ DropOld(c)
           \/ Create(c) \/ DropObject(c) \/ ReadSpec(c) \/ SkipCleanup(c) \/ CleanupObject(c)
           \/ EndCall(c) \/ CloseRows(c)
  <2>1. UNCHANGED cat
    BY <1>6 DEF CollectFunctions, BuildDDL, Query, BeginCommit, DropOld, Create, DropObject,
           ReadSpec, SkipCleanup, CleanupObject, EndCall, CloseRows, Refused, Faulty
  <2>2. \E new : Set(c, new) /\ Reports(new, TablesKnown, DOMAIN cat.functions.map)
    BY <1>6, <2>1, ReportsKept
  <2>3. QED
    BY <2>1, <2>2 DEF TablesKnown
<1>7. ~ SyncFails(c)
  BY DEF SyncFails
<1>8. QED
  BY <1>2, <1>3, <1>4, <1>5, <1>6, <1>7 DEF Step

(* Whatever the calls are, memory knows what the rows tell of.             *)
LEMMA RowsKnownStep ==
  ASSUME IInv, RowsTyped', RowsKnown, [Next]_vars, ~ Restart, UNCHANGED faults
  PROVE  RowsKnown'
<1> USE DEF IInv
<1>1. SUFFICES \A n \in DOMAIN rows' :
                 n \in IF FunctionRow(n)' THEN DOMAIN cat'.functions.map ELSE DOMAIN cat'.tables.map
  BY DEF RowsKnown, TablesKnown
<1>2. CASE UNCHANGED <<cat, rows>>
  BY <1>2 DEF RowsKnown, TablesKnown, FunctionRow
<1>3. ASSUME NEW c \in Conns, Sync(c) PROVE RowsKnown'
  <2>1. PICK order \in SetToSeqs(Fresh) : cat' = FoldLeft(LoadRow, cat, order)
    BY <1>3 DEF Sync, Fresh
  <2>2. LoadedCatalog(cat', Fresh, TableSpecs, FunctionSpecs)
    BY <2>1, SyncLoads, RowsWithinSpecs DEF RegistriesSound
  <2>3. DOMAIN cat.tables.map \subseteq DOMAIN cat'.tables.map
        /\ DOMAIN cat.functions.map \subseteq DOMAIN cat'.functions.map
    BY <2>2 DEF LoadedCatalog, Loaded
  <2>4. rows' = [n \in DOMAIN rows |-> [rows[n] EXCEPT !.fresh = FALSE]]
    BY <1>3 DEF Sync
  <2>5. DOMAIN rows' = DOMAIN rows /\ \A n \in DOMAIN rows : FunctionRow(n)' <=> FunctionRow(n)
    BY <2>4 DEF FunctionRow, RowsTyped, IsRow
  <2>6. QED
    BY <2>3, <2>5 DEF RowsKnown, TablesKnown
<1>4. ASSUME NEW s \in Created, Adds(s) PROVE RowsKnown'
  <2> DEFINE name == StmtName(s)
  <2>1. s.spec \in IF IsFunction(s) THEN FunctionSpecs ELSE TableSpecs
    BY CreatedSpec
  <2>2. /\ DOMAIN cat'.tables.map = DOMAIN cat.tables.map \cup IF IsFunction(s) THEN {} ELSE {name}
        /\ DOMAIN cat'.functions.map =
              DOMAIN cat.functions.map \cup IF IsFunction(s) THEN {name} ELSE {}
    BY <1>4, <2>1, CatalogWithAdds DEF RegistriesSound, Adds
  <2>3. CASE s.spec.temp
    <3>1. rows' = rows
      BY <1>4, <2>3 DEF Adds
    <3>2. QED
      BY <2>2, <3>1 DEF RowsKnown, TablesKnown, FunctionRow
  <2>4. CASE ~ s.spec.temp
    <3>1. /\ DOMAIN rows' = DOMAIN rows \cup {name} /\ rows'[name].spec = s.spec
          /\ \A n \in DOMAIN rows : n # name => rows'[n] = rows[n]
      BY <1>4, <2>4 DEF Adds, SaveSpec, Put, StmtName
    <3>2. FunctionRow(name)' <=> IsFunction(s)
      BY <3>1 DEF RowsTyped, IsRow, FunctionRow, IsFunction
    <3>3. \A n \in DOMAIN rows : n # name => (FunctionRow(n)' <=> FunctionRow(n))
      BY <3>1 DEF FunctionRow
    <3> HIDE DEF name
    <3>4. QED
      BY <2>2, <3>1, <3>2, <3>3 DEF RowsKnown, TablesKnown
  <2>5. QED
    BY <2>3, <2>4
<1>5. ASSUME NEW s \in Statements, Removes(s) PROVE RowsKnown'
  <2>1. /\ DOMAIN cat.tables.map \ {StmtName(s)} \subseteq DOMAIN cat'.tables.map
        /\ DOMAIN cat.functions.map \ {StmtName(s)} \subseteq DOMAIN cat'.functions.map
    BY <1>5, CatalogWithoutRemoves DEF RegistriesSound, Removes
  <2>2. /\ DOMAIN rows' = DOMAIN rows \ {StmtName(s)}
        /\ \A n \in DOMAIN rows' : rows'[n] = rows[n]
    BY <1>5 DEF Removes, DeleteRow, Minus
  <2>3. \A n \in DOMAIN rows' : FunctionRow(n)' <=> FunctionRow(n)
    BY <2>2 DEF FunctionRow
  <2>4. QED
    BY <2>1, <2>2, <2>3 DEF RowsKnown, TablesKnown
<1>6. QED
  BY <1>2, <1>3, <1>4, <1>5, CatalogAndRows DEF RowsKnown, TablesKnown

ReportsAlways ==
    faults = 0 /\ restarts = 0 => RowsKnown /\ \A c \in Conns : ReportInv(c)

LEMMA ReportsStart ==
  ASSUME Init
  PROVE  RowsKnown /\ \A c \in Conns : ReportInv(c)
<1>1. RowsKnown
  BY DEF Init, RowsKnown
<1>2. DOMAIN cat.tables.map = {} /\ DOMAIN cat.functions.map = Names(MissingFunctions)
  BY MissingFunctionsType, NewCatalogSound DEF Init
<1>3. ASSUME NEW c \in Conns PROVE ReportInv(c)
  <2> DEFINE call == calls[c]
  <2>1. /\ call.step = "idle" /\ call.cc = newChangedCatalog
        /\ call.before.tables = TablesKnown
        /\ call.before.functions = DOMAIN cat.functions.map
    BY DEF Init, NoCall, NewCall, TablesKnown
  <2> HIDE DEF call
  <2>2. Reports(call, TablesKnown, DOMAIN cat.functions.map)
    BY <2>1, NothingNoted
  <2>3. QED
    BY <2>2 DEF ReportInv, call
<1>4. QED
  BY <1>1, <1>3

(* ChangesReported, for one connection whose statements do not fail        *)
(* without a reason and a process that does not die, in any sequence of    *)
(* scripts, ExecContexts or QueryContexts: what a call reports is the net  *)
(* effect of its script (conn.go:78-145), also when the script fails half  *)
(* way, as no script makes a function that go-zetasql lacks.               *)
THEOREM ReportsAreNetEffects ==
  ASSUME OneConnection, NoMissingFunctionCreated
  PROVE  Spec => [](faults = 0 /\ restarts = 0 => ChangesReported)
<1>1. Init => ReportsAlways
  BY ReportsStart DEF ReportsAlways
<1>2. IInv /\ IInv' /\ ReportsAlways /\ [Next]_vars => ReportsAlways'
  <2> SUFFICES ASSUME IInv, IInv', ReportsAlways, [Next]_vars, faults' = 0, restarts' = 0
               PROVE  RowsKnown' /\ \A c \in Conns : ReportInv(c)'
    BY DEF ReportsAlways
  <2>1. faults \in Nat /\ restarts \in Nat
    BY BoundsType DEF IInv, CountersTyped
  <2>2. ~ Fault /\ faults = 0 /\ UNCHANGED <<faults, restarts>> /\ restarts = 0
    BY <2>1, CountersStep DEF Fault
  <2>3. ~ Restart
    BY <2>1, <2>2 DEF Restart
  <2>4. RowsKnown /\ \A c \in Conns : ReportInv(c)
    BY <2>2 DEF ReportsAlways
  <2>5. RowsKnown'
    BY <2>2, <2>3, <2>4, RowsKnownStep DEF IInv
  <2>6. CASE UNCHANGED vars
    BY <2>4, <2>5, <2>6 DEF vars, ReportInv, TablesKnown
  <2>7. ASSUME NEW c \in Conns, Begin(c) \/ Step(c) \/ CloseRows(c)
        PROVE  \A d \in Conns : ReportInv(d)'
    <3>1. ReportInv(c)'
      BY <2>2, <2>4, <2>7, ReportsStep
    <3>2. \A d \in Conns : d = c
      BY DEF OneConnection
    <3>3. QED
      BY <3>1, <3>2
  <2>8. QED
    BY <2>3, <2>5, <2>6, <2>7 DEF Next
<1>3. ReportsAlways => (faults = 0 /\ restarts = 0 => ChangesReported)
  BY DEF ReportsAlways, ReportInv, Reports, Notes, NetEffects, ChangesReported, FunctionsKnown
<1>4. QED
  BY <1>1, <1>2, <1>3, AlwaysTyped, PTL DEF Spec
=============================================================================
