------------------------------- MODULE CatalogSync -------------------------------
(***************************************************************************)
(* Several catalogs over one SQLite database: a file opened by several     *)
(* processes, or by one under several data source names, each with its own *)
(* Catalog.  They learn of each other's objects from the time stamps of    *)
(* the rows of zetasqlite_catalog alone (Sync, internal/catalog.go:260),   *)
(* and a connection may write its rows in a transaction (driver.go:239)    *)
(* that commits long after they were stamped, or never.                    *)
(*                                                                         *)
(* SQLite is taken in its default rollback journal mode: a transaction     *)
(* keeps every other connection from committing once it has read.          *)
(***************************************************************************)
EXTENDS Naturals, FiniteSets, Functions

CONSTANTS
    Conns,        \* the connections
    CatalogOf,    \* the catalog each of them works on
    Objects,      \* names of objects
    MaxClock,     \* bound: the latest time
    MaxSetBacks   \* bound: how often the clock is set back

VARIABLES
    clock,        \* the wall clock of the machine
    setBacks,     \* the number of times it was set back
    rows,         \* the committed rows: their updatedAt by name
    tx,           \* the transaction of each connection: the rows it sees and
                  \* whether it has written any, or NoTx
    known,        \* by catalog, the names in its memory
    lastSyncedAt, \* by catalog
    work,         \* what each connection does while it holds c.mu
    late,         \* history: by catalog, the rows committed with a stamp older
                  \* than a Sync of the catalog that did not see them
    skipped,      \* history: by catalog, the rows that a Sync whose reading
                  \* ended early has left, and no other has read since
    undone        \* history: by catalog, the names whose DROP took place in
                  \* memory and failed or was rolled back in SQLite

vars == <<clock, setBacks, rows, tx, known, lastSyncedAt, work, late, skipped, undone>>

Catalogs == Range(CatalogOf)
NoTx == [open |-> FALSE]
Idle == [step |-> "idle"]

ASSUME ConstantsType ==
    /\ DOMAIN CatalogOf = Conns
    /\ MaxClock \in Nat /\ MaxSetBacks \in Nat

---------------------------------------------------------------------------
(* What c reads.                                                           *)
View(c) == IF tx[c].open THEN tx[c].view ELSE rows

(* It may write when no other transaction writes, and without a            *)
(* transaction of its own commits at once, which needs that none is open.  *)
CanWrite(c) ==
    \A d \in Conns \ {c} : tx[d].open => tx[c].open /\ ~ tx[d].wrote

CanCommit(c) == \A d \in Conns \ {c} : ~ tx[d].open

(* Mutant: the sections do not take c.mu.                                  *)
Unlocked_NoMutex(c) == work[c] = Idle

(* No connection of the catalog of c is in a section under c.mu.           *)
Unlocked(c) ==
    \A d \in Conns : CatalogOf[d] = CatalogOf[c] => work[d] = Idle

(* Mutant: > for >=.                                                       *)
Fresh_Strict(stamp, since) == stamp > since

(* WHERE updatedAt >= @lastUpdatedAt                                       *)
Fresh(stamp, since) == stamp >= since

(* The rows a catalog will not read again: those stamped before its last   *)
(* Sync, and before the one whose query has already run.                   *)
Past(catalog, stamp) ==
    \/ ~ Fresh(stamp, lastSyncedAt[catalog])
    \/ \E c \in Conns : /\ CatalogOf[c] = catalog
                        /\ work[c].step = "synced"
                        /\ ~ Fresh(stamp, work[c].now)

(* newRows are committed: those that changed are late for a catalog that   *)
(* has passed them, and are no longer the rows it left unread; those that  *)
(* are gone are neither.                                                   *)
CommitRows(newRows) ==
    LET changed == {n \in DOMAIN newRows : n \notin DOMAIN rows \/ newRows[n] # rows[n]}
    IN  /\ rows' = newRows
        /\ late' = [g \in Catalogs |->
                       ((late[g] \cap DOMAIN newRows) \ changed) \cup {n \in changed : Past(g, newRows[n])}]
        /\ skipped' = [g \in Catalogs |-> (skipped[g] \cap DOMAIN newRows) \ changed]

WriteRows(c, newRows) ==
    /\ CanWrite(c)
    /\ IF tx[c].open
       THEN /\ tx' = [tx EXCEPT ![c] = [open |-> TRUE, view |-> newRows, wrote |-> TRUE]]
            /\ UNCHANGED <<rows, late, skipped>>
       ELSE CommitRows(newRows) /\ UNCHANGED tx

Upsert(f, name, stamp) == [n \in DOMAIN f \cup {name} |-> IF n = name THEN stamp ELSE f[n]]
DeleteName(f, name) == Restrict(f, DOMAIN f \ {name})

---------------------------------------------------------------------------
Init ==
    /\ clock = 1
    /\ setBacks = 0
    /\ rows = <<>>
    /\ tx = [c \in Conns |-> NoTx]
    /\ known = [g \in Catalogs |-> {}]
    /\ lastSyncedAt = [g \in Catalogs |-> 0]
    /\ work = [c \in Conns |-> Idle]
    /\ late = [g \in Catalogs |-> {}]
    /\ skipped = [g \in Catalogs |-> {}]
    /\ undone = [g \in Catalogs |-> {}]

(* Sync: now is read first, then the rows are queried and loaded, then     *)
(* lastSyncedAt is set, all under c.mu.                                    *)
SyncBegin(c) ==
    /\ Unlocked(c)
    /\ work' = [work EXCEPT ![c] = [step |-> "sync", now |-> clock]]
    /\ UNCHANGED <<clock, setBacks, rows, tx, known, lastSyncedAt, late, skipped, undone>>

Unread(c) == {n \in DOMAIN View(c) : Fresh(View(c)[n], lastSyncedAt[CatalogOf[c]])}

(* The loop over the rows ends with the last of them, or before it: when   *)
(* ctx is cancelled or SQLite fails inside rows.Next(), which rows.Err()    *)
(* would tell, but Sync does not ask it.                                   *)
SyncRead(c) ==
    LET g == CatalogOf[c] IN
    /\ work[c].step = "sync"
    /\ \E loaded \in SUBSET Unread(c) :
        /\ known' = [known EXCEPT ![g] = @ \cup loaded]
        /\ skipped' = [skipped EXCEPT ![g] =
                         (@ \ loaded) \cup (Unread(c) \ (loaded \cup known[g]))]
    /\ work' = [work EXCEPT ![c] = [step |-> "synced", now |-> work[c].now]]
    /\ UNCHANGED <<clock, setBacks, rows, tx, lastSyncedAt, late, undone>>

(* The query fails, or a row cannot be scanned or loaded: Sync returns the *)
(* error, what is loaded stays, and the next Sync reads the rest.          *)
SyncFails(c) ==
    LET g == CatalogOf[c] IN
    /\ work[c].step = "sync"
    /\ \E loaded \in SUBSET Unread(c) :
        /\ known' = [known EXCEPT ![g] = @ \cup loaded]
        /\ skipped' = [skipped EXCEPT ![g] = @ \ loaded]
    /\ work' = [work EXCEPT ![c] = Idle]
    /\ UNCHANGED <<clock, setBacks, rows, tx, lastSyncedAt, late, undone>>

(* Mutant: c.lastSyncedAt = time.Now() once the rows are loaded.           *)
SyncedAt_End(c) == clock

(* c.lastSyncedAt = now                                                    *)
SyncedAt(c) == work[c].now

SyncEnd(c) ==
    /\ work[c].step = "synced"
    /\ lastSyncedAt' = [lastSyncedAt EXCEPT ![CatalogOf[c]] = SyncedAt(c)]
    /\ work' = [work EXCEPT ![c] = Idle]
    /\ UNCHANGED <<clock, setBacks, rows, tx, known, late, skipped, undone>>

(* AddNew...Spec: the name in memory and the time stamp of the row, then   *)
(* the row.                                                                *)
SaveBegin(c, name) ==
    LET g == CatalogOf[c] IN
    /\ Unlocked(c)
    /\ known' = [known EXCEPT ![g] = @ \cup {name}]
    /\ undone' = [undone EXCEPT ![g] = @ \ {name}]
    /\ skipped' = [skipped EXCEPT ![g] = @ \ {name}]
    /\ work' = [work EXCEPT ![c] = [step |-> "save", name |-> name, now |-> clock]]
    /\ UNCHANGED <<clock, setBacks, rows, tx, lastSyncedAt, late>>

SaveEnd(c) ==
    /\ work[c].step = "save"
    /\ \/ WriteRows(c, Upsert(View(c), work[c].name, work[c].now))
       \/ UNCHANGED <<rows, tx, late, skipped>>  \* SQLite fails
    /\ work' = [work EXCEPT ![c] = Idle]
    /\ UNCHANGED <<clock, setBacks, known, lastSyncedAt, undone>>

(* Delete...Spec: nothing happens for a name that is not in memory.        *)
Delete(c, name) ==
    LET g == CatalogOf[c] IN
    /\ Unlocked(c) /\ name \in known[g]
    /\ known' = [known EXCEPT ![g] = @ \ {name}]
    /\ \/ WriteRows(c, DeleteName(View(c), name)) /\ UNCHANGED undone
       \/ /\ undone' = [undone EXCEPT ![g] = @ \cup {name}]  \* SQLite fails
          /\ UNCHANGED <<rows, tx, late, skipped>>
    /\ UNCHANGED <<clock, setBacks, lastSyncedAt, work>>

---------------------------------------------------------------------------
(* BeginTx; the transaction reads with its first statement, and until then *)
(* it is as good as not begun.                                             *)
BeginTx(c) ==
    /\ work[c] = Idle /\ ~ tx[c].open
    /\ tx' = [tx EXCEPT ![c] = [open |-> TRUE, view |-> rows, wrote |-> FALSE]]
    /\ UNCHANGED <<clock, setBacks, rows, known, lastSyncedAt, work, late, skipped, undone>>

Commit(c) ==
    /\ work[c] = Idle /\ tx[c].open /\ CanCommit(c)
    /\ CommitRows(tx[c].view)
    /\ tx' = [tx EXCEPT ![c] = NoTx]
    /\ UNCHANGED <<clock, setBacks, known, lastSyncedAt, work, undone>>

(* Rollback undoes the rows, not what the catalog has in memory.           *)
DroppedInTx(c) == DOMAIN rows \ DOMAIN View(c)

Rollback(c) ==
    /\ work[c] = Idle /\ tx[c].open
    /\ undone' = [undone EXCEPT ![CatalogOf[c]] = @ \cup DroppedInTx(c)]
    /\ tx' = [tx EXCEPT ![c] = NoTx]
    /\ UNCHANGED <<clock, setBacks, rows, known, lastSyncedAt, work, late, skipped>>

(* The process of a catalog ends and is started again.                     *)
Restart(g) ==
    /\ known' = [known EXCEPT ![g] = {}]
    /\ lastSyncedAt' = [lastSyncedAt EXCEPT ![g] = 0]
    /\ late' = [late EXCEPT ![g] = {}]
    /\ skipped' = [skipped EXCEPT ![g] = {}]
    /\ undone' = [undone EXCEPT ![g] = {}]
    /\ work' = [c \in Conns |-> IF CatalogOf[c] = g THEN Idle ELSE work[c]]
    /\ tx' = [c \in Conns |-> IF CatalogOf[c] = g THEN NoTx ELSE tx[c]]
    /\ UNCHANGED <<clock, setBacks, rows>>

Tick ==
    /\ clock < MaxClock
    /\ clock' = clock + 1
    /\ UNCHANGED <<setBacks, rows, tx, known, lastSyncedAt, work, late, skipped, undone>>

SetBack ==
    /\ setBacks < MaxSetBacks
    /\ setBacks' = setBacks + 1
    /\ clock' \in 1..(clock - 1)
    /\ UNCHANGED <<rows, tx, known, lastSyncedAt, work, late, skipped, undone>>

Next ==
    \/ \E c \in Conns :
        \/ SyncBegin(c) \/ SyncRead(c) \/ SyncFails(c) \/ SyncEnd(c)
        \/ SaveEnd(c) \/ BeginTx(c) \/ Commit(c) \/ Rollback(c)
        \/ \E name \in Objects : SaveBegin(c, name) \/ Delete(c, name)
    \/ \E g \in Catalogs : Restart(g)
    \/ Tick \/ SetBack

Spec == Init /\ [][Next]_vars

---------------------------------------------------------------------------
IsRows(f) == f \in [DOMAIN f -> Nat] /\ DOMAIN f \subseteq Objects

IsTransaction(t) ==
    \/ t = NoTx
    \/ /\ t = [open |-> TRUE, view |-> t.view, wrote |-> t.wrote]
       /\ IsRows(t.view) /\ t.wrote \in BOOLEAN

TxType == tx = [c \in Conns |-> tx[c]] /\ \A c \in Conns : IsTransaction(tx[c])

Works ==
    {Idle} \cup [step : {"sync", "synced"}, now : Nat]
           \cup [step : {"save"}, name : Objects, now : Nat]

(* c.mu lets one connection of a catalog at a time into a section.         *)
OneHolder ==
    \A c, d \in Conns :
        CatalogOf[c] = CatalogOf[d] /\ work[c] # Idle /\ work[d] # Idle => c = d

(* Types, and the exclusion c.mu provides (catalog.go:261-262, 304-305).    *)
TypeOK ==
    /\ clock \in Nat /\ setBacks \in Nat
    /\ IsRows(rows)
    /\ TxType
    /\ known \in [Catalogs -> SUBSET Objects]
    /\ lastSyncedAt \in [Catalogs -> Nat]
    /\ work \in [Conns -> Works]
    /\ late \in [Catalogs -> SUBSET Objects]
    /\ skipped \in [Catalogs -> SUBSET Objects]
    /\ undone \in [Catalogs -> SUBSET Objects]
    /\ OneHolder

(* A committed row that a catalog does not know has a reason               *)
(* (catalog.go:260-301): its next Sync reads it; or it was committed after *)
(* a Sync that was already past its stamp; or the catalog itself dropped   *)
(* the object and SQLite did not, or not yet; or the reading of a Sync     *)
(* ended early without an error (no rows.Err() after catalog.go:277-298),  *)
(* and lastSyncedAt moved past the rows it had left.  In the last case the *)
(* catalog never learns of the row, unless it is written again.            *)
DropPending(g) ==
    {n \in DOMAIN rows : \E c \in Conns : CatalogOf[c] = g /\ n \notin DOMAIN View(c)}

Explained(g, n) ==
    \/ n \in known[g]
    \/ ~ Past(g, rows[n])
    \/ n \in late[g] \cup skipped[g] \cup undone[g] \cup DropPending(g)

UnknownRowsExplained == \A g \in Catalogs : \A n \in DOMAIN rows : Explained(g, n)

(* A clock that is never set back, and rows that are committed at the time *)
(* they are stamped, leave nothing late: every Sync that reads to the end  *)
(* finds them.  What makes a row late is always a Sync between its stamp   *)
(* and its commit.                                                         *)
Overtaken(n) == clock > rows'[n] \/ setBacks > 0

LateMeansOvertaken == [][\A g \in Catalogs : \A n \in late'[g] \ late[g] : Overtaken(n)]_vars

---------------------------------------------------------------------------
(* Why UnknownRowsExplained holds: a transaction that has written nothing  *)
(* sees the committed rows, at most one has written, and the rows that     *)
(* only it sees are known to its catalog, as is the name being saved.      *)
Snapshots == \A c \in Conns : tx[c].open /\ ~ tx[c].wrote => tx[c].view = rows

OneWriter ==
    \A c, d \in Conns :
        tx[c].open /\ tx[d].open /\ tx[c].wrote /\ tx[d].wrote => c = d

OwnRowsKnown ==
    \A c \in Conns : tx[c].open =>
        \A n \in DOMAIN tx[c].view :
            n \notin DOMAIN rows \/ tx[c].view[n] # rows[n] =>
                n \in known[CatalogOf[c]] \cup undone[CatalogOf[c]]

SavedNameKnown ==
    \A c \in Conns : work[c].step = "save" => work[c].name \in known[CatalogOf[c]]

IInv ==
    /\ TypeOK /\ Snapshots /\ OneWriter /\ OwnRowsKnown /\ SavedNameKnown
    /\ UnknownRowsExplained

(* Why LateMeansOvertaken holds: what was read from a clock that is never  *)
(* set back is not in the future.                                          *)
TimesInOrder ==
    setBacks = 0 =>
        /\ \A g \in Catalogs : lastSyncedAt[g] <= clock
        /\ \A c \in Conns : work[c] # Idle => work[c].now <= clock
=============================================================================
