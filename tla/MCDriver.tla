-------------------------------- MODULE MCDriver --------------------------------
(* Instances of Driver: the statements that scripts are made of and the    *)
(* sets of scripts of the runs.                                            *)
EXTENDS Driver

Obj(kind, word, ver, temp) ==
    [kind |-> kind, path |-> << <<word>> >>, ver |-> ver, temp |-> temp]

CreateStmt(kind, word, ver, mode) ==
    [op |-> "create", spec |-> Obj(kind, word, ver, FALSE), mode |-> mode]
CreateTemp(kind, word) ==
    [op |-> "create", spec |-> Obj(kind, word, 1, TRUE), mode |-> "default"]
DropStmt(kind, word, mode) ==
    [op |-> "drop", spec |-> Obj(kind, word, 0, FALSE), mode |-> mode]
QueryStmt(word) ==
    [op |-> "query", spec |-> Obj("table", word, 0, FALSE), mode |-> "default"]
BlockStmt(op) ==
    [op   |-> op, mode |-> "default",
     spec |-> [kind |-> "none", path |-> <<>>, ver |-> 0, temp |-> FALSE]]

(* One permanent function every catalog starts with.                       *)
MCMissingFunctions == << Obj("function", "corr", 1, FALSE) >>

TableStmts ==
    {CreateStmt("table", "t", 1, "default"), CreateStmt("table", "t", 2, "replace"),
     CreateStmt("table", "t", 3, "ifNotExists"),
     DropStmt("table", "t", "default"), DropStmt("table", "t", "ifExists")}

ViewStmts ==
    {CreateStmt("view", "v", 1, "default"), CreateStmt("view", "v", 2, "replace"),
     DropStmt("view", "v", "default")}

FunctionStmts ==
    {CreateStmt("function", "f", 1, "default"), CreateStmt("function", "f", 2, "replace"),
     DropStmt("function", "f", "default")}

TempStmts ==
    {CreateTemp("table", "tmp"), CreateTemp("view", "tmpv"), CreateTemp("function", "tmpf"),
     DropStmt("table", "tmp", "default")}

Scripts(stmts) == {<<s>> : s \in stmts} \cup {<<s, t>> : s, t \in stmts}

EachConn(scripts, mode) ==
    [c \in Conns |-> {[script |-> s, mode |-> mode] : s \in scripts}]

(* Every script of one or two statements, among them temporary objects     *)
(* with the names of permanent ones, and transaction blocks.               *)
ClashStmts == {CreateTemp("table", "t"), CreateTemp("function", "f"), QueryStmt("t")}
ExecPrograms ==
    EachConn(Scripts(TableStmts \cup ViewStmts \cup FunctionStmts \cup TempStmts
                     \cup ClashStmts)
             \cup {<<BlockStmt("begin"), s, BlockStmt("commit")>> : s \in TableStmts},
             "exec")

(* Connections work on the same table or view and the same function.       *)
RacePrograms ==
    EachConn({<<CreateStmt("table", "t", 1, "default")>>,
              <<CreateStmt("table", "t", 2, "replace")>>,
              <<CreateStmt("function", "f", 1, "default")>>,
              <<DropStmt("table", "t", "ifExists"), CreateStmt("view", "t", 1, "default")>>,
              <<CreateStmt("table", "t", 3, "ifNotExists"), DropStmt("table", "t", "default")>>,
              <<CreateStmt("function", "f", 2, "default"), DropStmt("function", "f", "default")>>},
             "exec")

(* One connection runs a script that fails half way, or because a name is  *)
(* taken, the other queries its own temporary objects.                     *)
LivePrograms ==
    [c \in Conns |->
        IF c = "c1"
        THEN {[mode   |-> "exec",
               script |-> <<CreateTemp("table", "tmp"), CreateTemp("function", "tmpf"),
                            QueryStmt("none"), CreateTemp("view", "tmpv")>>],
              [mode   |-> "exec",
               script |-> <<CreateTemp("table", "tmp"), CreateTemp("table", "tmp")>>]}
        ELSE {[mode   |-> "query",
               script |-> <<CreateTemp("table", "rows"), CreateTemp("function", "rowsf"),
                            CreateTemp("view", "rowsv"), QueryStmt("rows")>>]}]

(* Tables and views for faults and restarts.                               *)
TornPrograms ==
    EachConn({<<s>> : s \in TableStmts \cup ViewStmts} \cup
             {<<CreateStmt("table", "t", 2, "replace"), CreateStmt("view", "v", 1, "default")>>,
              <<DropStmt("view", "v", "ifExists"), DropStmt("table", "t", "default")>>},
             "exec")

(* The scripts of what the repository says and the code does not do.       *)
ViewPrograms ==
    EachConn({<<CreateStmt("view", "v", 1, "default"), DropStmt("view", "v", "default")>>}, "exec")
LeakPrograms ==
    EachConn({<<CreateTemp("table", "tmp"), QueryStmt("t")>>}, "query")
=============================================================================
