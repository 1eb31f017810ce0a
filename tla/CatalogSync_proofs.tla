--------------------------- MODULE CatalogSync_proofs ---------------------------
(***************************************************************************)
(* Proofs about CatalogSync, for any number of connections, catalogs and   *)
(* objects and without a bound on the clock.                               *)
(***************************************************************************)
EXTENDS CatalogSync, TLAPS

LEMMA CatalogOfType == \A c \in Conns : CatalogOf[c] \in Catalogs
BY ConstantsType DEF Catalogs, Range

(* What a connection sees are rows.                                        *)
LEMMA ViewType ==
  ASSUME TypeOK, NEW c \in Conns
  PROVE  IsRows(View(c))
<1>1. IsTransaction(tx[c]) /\ IsRows(rows)
  BY DEF TypeOK, TxType
<1>2. QED
  BY <1>1 DEF View, IsTransaction, NoTx

LEMMA UpsertType ==
  ASSUME NEW f, IsRows(f), NEW name \in Objects, NEW stamp \in Nat
  PROVE  IsRows(Upsert(f, name, stamp))
BY DEF IsRows, Upsert

LEMMA DeleteNameType ==
  ASSUME NEW f, IsRows(f), NEW name
  PROVE  IsRows(DeleteName(f, name))
BY DEF IsRows, DeleteName, Restrict

(* Committing rows keeps their types.                                      *)
LEMMA CommitRowsType ==
  ASSUME TypeOK, NEW newRows, IsRows(newRows), CommitRows(newRows)
  PROVE  /\ IsRows(rows)'
         /\ late' \in [Catalogs -> SUBSET Objects]
         /\ skipped' \in [Catalogs -> SUBSET Objects]
<1>1. DOMAIN newRows \subseteq Objects
  BY DEF IsRows
<1>2. rows' = newRows
  BY DEF CommitRows
<1>3. /\ late' \in [Catalogs -> SUBSET Objects]
      /\ skipped' \in [Catalogs -> SUBSET Objects]
  BY <1>1 DEF CommitRows, TypeOK
<1>4. QED
  BY <1>2, <1>3

LEMMA WriteRowsType ==
  ASSUME TypeOK, NEW c \in Conns, NEW newRows, IsRows(newRows), WriteRows(c, newRows)
  PROVE  /\ IsRows(rows)'
         /\ TxType'
         /\ late' \in [Catalogs -> SUBSET Objects]
         /\ skipped' \in [Catalogs -> SUBSET Objects]
<1>1. CASE tx[c].open
  <2>1. /\ tx' = [tx EXCEPT ![c] = [open |-> TRUE, view |-> newRows, wrote |-> TRUE]]
        /\ UNCHANGED <<rows, late, skipped>>
    BY <1>1 DEF WriteRows
  <2>2. IsTransaction([open |-> TRUE, view |-> newRows, wrote |-> TRUE])
    BY DEF IsTransaction
  <2>3. TxType'
    BY <2>1, <2>2 DEF TypeOK, TxType
  <2>4. QED
    BY <2>1, <2>3 DEF TypeOK
<1>2. CASE ~ tx[c].open
  <2>1. CommitRows(newRows) /\ tx' = tx
    BY <1>2 DEF WriteRows
  <2>2. QED
    BY <2>1, CommitRowsType DEF TypeOK, TxType
<1>3. QED
  BY <1>1, <1>2

---------------------------------------------------------------------------
LEMMA InitType == Init => TypeOK
<1> SUFFICES ASSUME Init PROVE TypeOK
  OBVIOUS
<1>1. IsRows(rows)
  BY DEF IsRows, Init
<1>2. OneHolder
  BY DEF Init, OneHolder
<1>3. QED
  BY <1>1, <1>2 DEF Init, TypeOK, TxType, IsTransaction, Works

LEMMA NextType ==
  ASSUME TypeOK, [Next]_vars
  PROVE  TypeOK'
<1> USE CatalogOfType
<1>1. ASSUME NEW c \in Conns, SyncBegin(c) PROVE TypeOK'
  <2>1. work' \in [Conns -> Works]
    BY <1>1 DEF SyncBegin, TypeOK, Works
  <2>2. OneHolder'
    BY <1>1 DEF SyncBegin, TypeOK, OneHolder, Unlocked
  <2>3. QED
    BY <1>1, <2>1, <2>2 DEF SyncBegin, TypeOK, TxType
<1>2. ASSUME NEW c \in Conns, SyncRead(c) PROVE TypeOK'
  <2>1. work[c].now \in Nat /\ work[c] # Idle
    BY <1>2 DEF SyncRead, TypeOK, Works, Idle
  <2>2. work' \in [Conns -> Works]
    BY <1>2, <2>1 DEF SyncRead, TypeOK, Works
  <2>3. OneHolder'
    BY <1>2, <2>1 DEF SyncRead, TypeOK, OneHolder
  <2>4. Unread(c) \subseteq Objects
    BY ViewType DEF IsRows, Unread
  <2>5. /\ known' \in [Catalogs -> SUBSET Objects]
        /\ skipped' \in [Catalogs -> SUBSET Objects]
    BY <1>2, <2>4 DEF SyncRead, TypeOK
  <2>6. QED
    BY <1>2, <2>2, <2>3, <2>5 DEF SyncRead, TypeOK, TxType
<1>3. ASSUME NEW c \in Conns, SyncFails(c) PROVE TypeOK'
  <2>1. work' \in [Conns -> Works]
    BY <1>3 DEF SyncFails, TypeOK, Works
  <2>2. OneHolder'
    BY <1>3 DEF SyncFails, TypeOK, OneHolder
  <2>3. Unread(c) \subseteq Objects
    BY ViewType DEF IsRows, Unread
  <2>4. /\ known' \in [Catalogs -> SUBSET Objects]
        /\ skipped' \in [Catalogs -> SUBSET Objects]
    BY <1>3, <2>3 DEF SyncFails, TypeOK
  <2>5. QED
    BY <1>3, <2>1, <2>2, <2>4 DEF SyncFails, TypeOK, TxType
<1>4. ASSUME NEW c \in Conns, SyncEnd(c) PROVE TypeOK'
  <2>1. SyncedAt(c) \in Nat
    BY <1>4 DEF SyncEnd, SyncedAt, TypeOK, Works, Idle
  <2>2. work' \in [Conns -> Works]
    BY <1>4 DEF SyncEnd, TypeOK, Works
  <2>3. OneHolder'
    BY <1>4 DEF SyncEnd, TypeOK, OneHolder
  <2>4. lastSyncedAt' \in [Catalogs -> Nat]
    BY <1>4, <2>1 DEF SyncEnd, TypeOK
  <2>5. QED
    BY <1>4, <2>2, <2>3, <2>4 DEF SyncEnd, TypeOK, TxType
<1>5. ASSUME NEW c \in Conns, SaveEnd(c) PROVE TypeOK'
  <2>1. work[c].name \in Objects /\ work[c].now \in Nat
    BY <1>5 DEF SaveEnd, TypeOK, Works, Idle
  <2>2. IsRows(Upsert(View(c), work[c].name, work[c].now))
    BY <2>1, ViewType, UpsertType
  <2>3. /\ IsRows(rows)'
        /\ TxType'
        /\ late' \in [Catalogs -> SUBSET Objects]
        /\ skipped' \in [Catalogs -> SUBSET Objects]
    BY <1>5, <2>2, WriteRowsType DEF SaveEnd, TypeOK, TxType
  <2>4. work' \in [Conns -> Works]
    BY <1>5 DEF SaveEnd, TypeOK, Works
  <2>5. OneHolder'
    BY <1>5 DEF SaveEnd, TypeOK, OneHolder
  <2>6. QED
    BY <1>5, <2>3, <2>4, <2>5 DEF SaveEnd, TypeOK
<1>6. ASSUME NEW c \in Conns, BeginTx(c) PROVE TypeOK'
  <2>1. TxType'
    BY <1>6 DEF BeginTx, TypeOK, TxType, IsTransaction
  <2>2. QED
    BY <1>6, <2>1 DEF BeginTx, TypeOK, OneHolder
<1>7. ASSUME NEW c \in Conns, Commit(c) PROVE TypeOK'
  <2>1. IsRows(tx[c].view)
    BY <1>7 DEF Commit, TypeOK, IsTransaction, NoTx, TxType
  <2>2. /\ IsRows(rows)'
        /\ late' \in [Catalogs -> SUBSET Objects]
        /\ skipped' \in [Catalogs -> SUBSET Objects]
    BY <1>7, <2>1, CommitRowsType DEF Commit
  <2>3. TxType'
    BY <1>7 DEF Commit, TypeOK, TxType, IsTransaction
  <2>4. QED
    BY <1>7, <2>2, <2>3 DEF Commit, TypeOK, OneHolder
<1>8. ASSUME NEW c \in Conns, Rollback(c) PROVE TypeOK'
  <2>1. DroppedInTx(c) \subseteq Objects
    BY DEF IsRows, DroppedInTx, TypeOK
  <2>2. undone' \in [Catalogs -> SUBSET Objects]
    BY <1>8, <2>1 DEF Rollback, TypeOK
  <2>3. TxType'
    BY <1>8 DEF Rollback, TypeOK, TxType, IsTransaction
  <2>4. QED
    BY <1>8, <2>2, <2>3 DEF Rollback, TypeOK, OneHolder
<1>9. ASSUME NEW c \in Conns, NEW name \in Objects, SaveBegin(c, name) PROVE TypeOK'
  <2>1. work' \in [Conns -> Works]
    BY <1>9 DEF SaveBegin, TypeOK, Works
  <2>2. OneHolder'
    BY <1>9 DEF SaveBegin, TypeOK, OneHolder, Unlocked
  <2>3. /\ known' \in [Catalogs -> SUBSET Objects]
        /\ undone' \in [Catalogs -> SUBSET Objects]
        /\ skipped' \in [Catalogs -> SUBSET Objects]
    BY <1>9 DEF SaveBegin, TypeOK
  <2>4. QED
    BY <1>9, <2>1, <2>2, <2>3 DEF SaveBegin, TypeOK, TxType
<1>10. ASSUME NEW c \in Conns, NEW name \in Objects, Delete(c, name) PROVE TypeOK'
  <2>1. IsRows(DeleteName(View(c), name))
    BY ViewType, DeleteNameType
  <2>2. /\ IsRows(rows)'
        /\ TxType'
        /\ late' \in [Catalogs -> SUBSET Objects]
        /\ skipped' \in [Catalogs -> SUBSET Objects]
    BY <1>10, <2>1, WriteRowsType DEF Delete, TypeOK, TxType
  <2>3. known' \in [Catalogs -> SUBSET Objects] /\ undone' \in [Catalogs -> SUBSET Objects]
    BY <1>10 DEF Delete, TypeOK
  <2>4. QED
    BY <1>10, <2>2, <2>3 DEF Delete, TypeOK, OneHolder
<1>11. ASSUME NEW g \in Catalogs, Restart(g) PROVE TypeOK'
  <2>1. TxType' /\ work' \in [Conns -> Works]
    BY <1>11 DEF Restart, TypeOK, TxType, IsTransaction, Works
  <2>2. OneHolder'
    BY <1>11 DEF Restart, TypeOK, OneHolder
  <2>3. QED
    BY <1>11, <2>1, <2>2 DEF Restart, TypeOK
<1>12. CASE Tick
  BY <1>12 DEF Tick, TypeOK, OneHolder, TxType
<1>13. CASE SetBack
  BY <1>13 DEF SetBack, TypeOK, OneHolder, TxType
<1>14. CASE UNCHANGED vars
  BY <1>14 DEF vars, TypeOK, OneHolder, TxType
<1>15. QED
  BY <1>1, <1>2, <1>3, <1>4, <1>5, <1>6, <1>7, <1>8, <1>9, <1>10, <1>11, <1>12,
     <1>13, <1>14 DEF Next

(* Types are right and c.mu excludes (TypeOK), in every behaviour.         *)
THEOREM SyncTypeCorrect == Spec => []TypeOK
<1>1. Init => TypeOK
  BY InitType
<1>2. TypeOK /\ [Next]_vars => TypeOK'
  BY NextType
<1>3. QED
  BY <1>1, <1>2, PTL DEF Spec

---------------------------------------------------------------------------
(* What one connection writes leaves the snapshots of the others valid.    *)
LEMMA WriteRowsSnapshots ==
  ASSUME TypeOK, Snapshots, OneWriter, NEW c \in Conns, NEW newRows, WriteRows(c, newRows)
  PROVE  Snapshots' /\ OneWriter'
<1>1. CASE tx[c].open
  <2>1. /\ tx' = [tx EXCEPT ![c] = [open |-> TRUE, view |-> newRows, wrote |-> TRUE]]
        /\ rows' = rows
        /\ \A d \in Conns \ {c} : tx[d].open => ~ tx[d].wrote
    BY <1>1 DEF WriteRows, CanWrite
  <2>2. DOMAIN tx = Conns
    BY DEF TypeOK, TxType
  <2>3. QED
    BY <2>1, <2>2 DEF Snapshots, OneWriter
<1>2. CASE ~ tx[c].open
  <2>1. tx' = tx /\ \A d \in Conns : ~ tx[d].open
    BY <1>2 DEF WriteRows, CanWrite
  <2>2. QED
    BY <2>1 DEF Snapshots, OneWriter
<1>3. QED
  BY <1>1, <1>2

LEMMA NextSnapshots ==
  ASSUME TypeOK, Snapshots, OneWriter, [Next]_vars
  PROVE  Snapshots' /\ OneWriter'
<1>1. CASE UNCHANGED <<tx, rows>>
  BY <1>1 DEF Snapshots, OneWriter
<1>2. DOMAIN tx = Conns
  BY DEF TypeOK, TxType
<1>3. ASSUME NEW c \in Conns, SaveEnd(c) PROVE Snapshots' /\ OneWriter'
  BY <1>1, <1>3, WriteRowsSnapshots DEF SaveEnd
<1>4. ASSUME NEW c \in Conns, NEW name \in Objects, Delete(c, name)
      PROVE  Snapshots' /\ OneWriter'
  BY <1>1, <1>4, WriteRowsSnapshots DEF Delete
<1>5. ASSUME NEW c \in Conns, BeginTx(c) PROVE Snapshots' /\ OneWriter'
  BY <1>2, <1>5 DEF BeginTx, Snapshots, OneWriter
<1>6. ASSUME NEW c \in Conns, Commit(c) PROVE Snapshots' /\ OneWriter'
  BY <1>2, <1>6 DEF Commit, CanCommit, Snapshots, OneWriter, NoTx
<1>7. ASSUME NEW c \in Conns, Rollback(c) PROVE Snapshots' /\ OneWriter'
  BY <1>2, <1>7 DEF Rollback, Snapshots, OneWriter, NoTx
<1>8. ASSUME NEW g \in Catalogs, Restart(g) PROVE Snapshots' /\ OneWriter'
  BY <1>8 DEF Restart, Snapshots, OneWriter, NoTx
<1>9. CASE \/ \E c \in Conns :
                \/ SyncBegin(c) \/ SyncRead(c) \/ SyncFails(c) \/ SyncEnd(c)
                \/ \E name \in Objects : SaveBegin(c, name)
           \/ Tick \/ SetBack \/ UNCHANGED vars
  BY <1>1, <1>9 DEF SyncBegin, SyncRead, SyncFails, SyncEnd, SaveBegin, Tick, SetBack, vars
<1>10. QED
  BY <1>3, <1>4, <1>5, <1>6, <1>7, <1>8, <1>9 DEF Next

---------------------------------------------------------------------------
(* The name being saved is known until it is written: c.mu keeps the       *)
(* others from dropping it.                                                *)
LEMMA NextSavedName ==
  ASSUME TypeOK, SavedNameKnown, [Next]_vars
  PROVE  SavedNameKnown'
<1> USE CatalogOfType
<1>1. /\ DOMAIN work = Conns /\ DOMAIN known = Catalogs
      /\ Idle.step # "save"
  BY DEF TypeOK, Idle
<1>2. CASE UNCHANGED <<work, known>>
  BY <1>2 DEF SavedNameKnown
<1>3. ASSUME NEW c \in Conns, SyncBegin(c) PROVE SavedNameKnown'
  BY <1>1, <1>3 DEF SyncBegin, SavedNameKnown
<1>4. ASSUME NEW c \in Conns, SyncRead(c) PROVE SavedNameKnown'
  BY <1>1, <1>4 DEF SyncRead, SavedNameKnown
<1>5. ASSUME NEW c \in Conns, SyncFails(c) PROVE SavedNameKnown'
  BY <1>1, <1>5 DEF SyncFails, SavedNameKnown
<1>6. ASSUME NEW c \in Conns, SyncEnd(c) \/ SaveEnd(c) PROVE SavedNameKnown'
  BY <1>1, <1>6 DEF SyncEnd, SaveEnd, SavedNameKnown
<1>7. ASSUME NEW c \in Conns, NEW name \in Objects, SaveBegin(c, name)
      PROVE  SavedNameKnown'
  BY <1>1, <1>7 DEF SaveBegin, SavedNameKnown
<1>8. ASSUME NEW c \in Conns, NEW name \in Objects, Delete(c, name)
      PROVE  SavedNameKnown'
  BY <1>1, <1>8 DEF Delete, Unlocked, SavedNameKnown
<1>9. ASSUME NEW g \in Catalogs, Restart(g) PROVE SavedNameKnown'
  BY <1>1, <1>9 DEF Restart, SavedNameKnown
<1>10. CASE \/ \E c \in Conns : BeginTx(c) \/ Commit(c) \/ Rollback(c)
            \/ Tick \/ SetBack \/ UNCHANGED vars
  BY <1>2, <1>10 DEF BeginTx, Commit, Rollback, Tick, SetBack, vars
<1>11. QED
  BY <1>3, <1>4, <1>5, <1>6, <1>7, <1>8, <1>9, <1>10 DEF Next

(* A row that only a transaction sees is known to its catalog, or was      *)
(* dropped by it in vain.                                                  *)
LEMMA NextOwnRows ==
  ASSUME TypeOK, Snapshots, SavedNameKnown, OwnRowsKnown, [Next]_vars
  PROVE  OwnRowsKnown'
<1> USE CatalogOfType
<1>1. /\ DOMAIN tx = Conns /\ DOMAIN known = Catalogs /\ DOMAIN undone = Catalogs
      /\ \A c \in Conns : tx[c].open => IsRows(tx[c].view)
  BY DEF TypeOK, TxType, IsTransaction, NoTx
<1>2. CASE UNCHANGED <<tx, rows, known, undone>>
  BY <1>2 DEF OwnRowsKnown
<1>3. ASSUME NEW c \in Conns, SyncRead(c) PROVE OwnRowsKnown'
  BY <1>1, <1>3 DEF SyncRead, OwnRowsKnown
<1>4. ASSUME NEW c \in Conns, SyncFails(c) PROVE OwnRowsKnown'
  BY <1>1, <1>4 DEF SyncFails, OwnRowsKnown
<1>5. ASSUME NEW c \in Conns, SaveEnd(c) PROVE OwnRowsKnown'
  <2>1. CASE UNCHANGED <<rows, tx, late, skipped>>
    BY <1>2, <1>5, <2>1 DEF SaveEnd
  <2>2. CASE WriteRows(c, Upsert(View(c), work[c].name, work[c].now))
    <3>1. CASE tx[c].open
      <4>1. /\ tx' = [tx EXCEPT ![c] =
                        [open  |-> TRUE,
                         view  |-> Upsert(tx[c].view, work[c].name, work[c].now),
                         wrote |-> TRUE]]
            /\ UNCHANGED <<rows, known, undone>>
        BY <1>5, <2>2, <3>1 DEF WriteRows, SaveEnd, View
      <4>2. work[c].name \in known[CatalogOf[c]]
        BY <1>5 DEF SaveEnd, SavedNameKnown
      <4>3. QED
        BY <1>1, <3>1, <4>1, <4>2 DEF OwnRowsKnown, Upsert
    <3>2. CASE ~ tx[c].open
      BY <2>2, <3>2 DEF WriteRows, CanWrite, OwnRowsKnown
    <3>3. QED
      BY <3>1, <3>2
  <2>3. QED
    BY <1>5, <2>1, <2>2 DEF SaveEnd
<1>6. ASSUME NEW c \in Conns, NEW name \in Objects, Delete(c, name)
      PROVE  OwnRowsKnown'
  <2> DEFINE g == CatalogOf[c]
  <2>1. known' = [known EXCEPT ![g] = @ \ {name}]
    BY <1>6 DEF Delete
  <2>2. CASE undone' = [undone EXCEPT ![g] = @ \cup {name}] /\ UNCHANGED <<rows, tx, late, skipped>>
    BY <1>1, <2>1, <2>2 DEF OwnRowsKnown
  <2>3. CASE WriteRows(c, DeleteName(View(c), name)) /\ UNCHANGED undone
    <3>1. CASE tx[c].open
      <4>1. /\ tx' = [tx EXCEPT ![c] = [open  |-> TRUE,
                                        view  |-> DeleteName(tx[c].view, name),
                                        wrote |-> TRUE]]
            /\ UNCHANGED <<rows, undone>>
            /\ \A d \in Conns \ {c} : tx[d].open => tx[d].view = rows
        BY <2>3, <3>1 DEF WriteRows, View, CanWrite, Snapshots
      <4>2. QED
        BY <1>1, <2>1, <3>1, <4>1 DEF OwnRowsKnown, DeleteName, Restrict
    <3>2. CASE ~ tx[c].open
      BY <2>3, <3>2 DEF WriteRows, CanWrite, OwnRowsKnown
    <3>3. QED
      BY <3>1, <3>2
  <2>4. QED
    BY <1>6, <2>2, <2>3 DEF Delete
<1>7. ASSUME NEW c \in Conns, NEW name \in Objects, SaveBegin(c, name)
      PROVE  OwnRowsKnown'
  BY <1>1, <1>7 DEF SaveBegin, OwnRowsKnown
<1>8. ASSUME NEW c \in Conns, BeginTx(c) PROVE OwnRowsKnown'
  BY <1>1, <1>8 DEF BeginTx, OwnRowsKnown
<1>9. ASSUME NEW c \in Conns, Commit(c) PROVE OwnRowsKnown'
  BY <1>1, <1>9 DEF Commit, CanCommit, OwnRowsKnown, NoTx
<1>10. ASSUME NEW c \in Conns, Rollback(c) PROVE OwnRowsKnown'
  BY <1>1, <1>10 DEF Rollback, OwnRowsKnown, NoTx
<1>11. ASSUME NEW g \in Catalogs, Restart(g) PROVE OwnRowsKnown'
  BY <1>1, <1>11 DEF Restart, OwnRowsKnown, NoTx
<1>12. CASE \/ \E c \in Conns : SyncBegin(c) \/ SyncEnd(c)
            \/ Tick \/ SetBack \/ UNCHANGED vars
  BY <1>2, <1>12 DEF SyncBegin, SyncEnd, Tick, SetBack, vars
<1>13. QED
  BY <1>3, <1>4, <1>5, <1>6, <1>7, <1>8, <1>9, <1>10, <1>11, <1>12 DEF Next

---------------------------------------------------------------------------
(* A row that has just been committed is late, still to be read, or was    *)
(* there before.                                                           *)
LEMMA CommitRowsExplains ==
  ASSUME NEW newRows, CommitRows(newRows), NEW g \in Catalogs, NEW n \in DOMAIN newRows
  PROVE  \/ n \in late'[g]
         \/ ~ Past(g, newRows[n])
         \/ /\ n \in DOMAIN rows /\ rows[n] = newRows[n]
            /\ n \in late[g] \cup skipped[g] => n \in late'[g] \cup skipped'[g]
<1> DEFINE changed == {m \in DOMAIN newRows : m \notin DOMAIN rows \/ newRows[m] # rows[m]}
<1>1. /\ late'[g] = ((late[g] \cap DOMAIN newRows) \ changed) \cup {m \in changed : Past(g, newRows[m])}
      /\ skipped'[g] = (skipped[g] \cap DOMAIN newRows) \ changed
  BY DEF CommitRows
<1>2. QED
  BY <1>1

(* Nothing is pending while no transaction is open.                        *)
LEMMA NothingPending ==
  ASSUME \A c \in Conns : ~ tx[c].open, NEW g
  PROVE  DropPending(g) = {}
BY DEF DropPending, View

(* A step that moves no row past a catalog, and forgets no reason, leaves  *)
(* every row explained.                                                    *)
LEMMA StillExplained ==
  ASSUME UnknownRowsExplained, NEW g \in Catalogs, NEW n \in DOMAIN rows,
         UNCHANGED rows,
         Past(g, rows[n])' => Past(g, rows[n]),
         n \in known[g] => n \in known'[g] \cup undone'[g] \cup DropPending(g)',
         n \in late[g] \cup skipped[g] => n \in late'[g] \cup skipped'[g] \cup known'[g],
         n \in undone[g] \cup DropPending(g) =>
             n \in known'[g] \cup undone'[g] \cup DropPending(g)'
  PROVE  Explained(g, n)'
<1>1. Explained(g, n)
  BY DEF UnknownRowsExplained
<1>2. QED
  BY <1>1 DEF Explained

LEMMA NextExplained ==
  ASSUME IInv, [Next]_vars
  PROVE  UnknownRowsExplained'
<1> USE CatalogOfType
<1>1. /\ TypeOK /\ Snapshots /\ OneWriter /\ OwnRowsKnown /\ SavedNameKnown
      /\ UnknownRowsExplained
  BY DEF IInv
<1>2. /\ DOMAIN tx = Conns /\ DOMAIN known = Catalogs /\ DOMAIN undone = Catalogs
      /\ DOMAIN work = Conns /\ DOMAIN lastSyncedAt = Catalogs /\ DOMAIN late = Catalogs
      /\ DOMAIN skipped = Catalogs
  BY <1>1 DEF TypeOK, TxType
<1>3. Idle.step = "idle"
  BY DEF Idle
<1>4. CASE UNCHANGED <<rows, tx, known, lastSyncedAt, work, late, skipped, undone>>
  <2> SUFFICES ASSUME NEW g \in Catalogs, NEW n \in DOMAIN rows PROVE Explained(g, n)'
    BY <1>4 DEF UnknownRowsExplained
  <2>1. Explained(g, n)
    BY <1>1 DEF UnknownRowsExplained
  <2>2. QED
    BY <1>4, <2>1 DEF Explained, Past, DropPending, View
<1>5. ASSUME NEW c \in Conns, SyncBegin(c) PROVE UnknownRowsExplained'
  <2> SUFFICES ASSUME NEW g \in Catalogs, NEW n \in DOMAIN rows PROVE Explained(g, n)'
    BY <1>5 DEF UnknownRowsExplained, SyncBegin
  <2>1. Past(g, rows[n])' => Past(g, rows[n])
    BY <1>2, <1>5 DEF SyncBegin, Past
  <2>2. DropPending(g)' = DropPending(g)
    BY <1>5 DEF SyncBegin, DropPending, View
  <2>3. QED
    BY <1>1, <1>5, <2>1, <2>2, StillExplained DEF SyncBegin
<1>6. ASSUME NEW c \in Conns, SyncRead(c) PROVE UnknownRowsExplained'
  <2> SUFFICES ASSUME NEW g \in Catalogs, NEW n \in DOMAIN rows PROVE Explained(g, n)'
    BY <1>6 DEF UnknownRowsExplained, SyncRead
  <2>1. DropPending(g)' = DropPending(g) /\ UNCHANGED <<rows, late, undone, lastSyncedAt>>
    BY <1>6 DEF SyncRead, DropPending, View
  <2>2. /\ known[g] \subseteq known'[g]
        /\ skipped[g] \subseteq skipped'[g] \cup known'[g]
    BY <1>2, <1>6 DEF SyncRead
  <2>3. CASE g # CatalogOf[c]
    <3>1. Past(g, rows[n])' => Past(g, rows[n])
      BY <1>2, <1>6, <2>3 DEF SyncRead, Past
    <3>2. QED
      BY <1>1, <2>1, <2>2, <3>1, StillExplained
  <2>4. CASE g = CatalogOf[c]
    <3>1. CASE n \in Unread(c)
      BY <1>2, <1>6, <2>4, <3>1 DEF SyncRead, Explained
    <3>2. CASE n \notin DOMAIN View(c)
      BY <2>1, <2>4, <3>2 DEF DropPending, Explained
    <3>3. CASE n \in DOMAIN View(c) /\ View(c)[n] # rows[n]
      <4>1. tx[c].open /\ tx[c].view = View(c)
        BY <3>3 DEF View
      <4>2. n \in known[g] \cup undone[g]
        BY <1>1, <2>4, <3>3, <4>1 DEF OwnRowsKnown
      <4>3. QED
        BY <2>1, <2>2, <4>2 DEF Explained
    <3>4. CASE n \in DOMAIN View(c) /\ View(c)[n] = rows[n] /\ n \notin Unread(c)
      <4>1. Past(g, rows[n])
        BY <2>4, <3>4 DEF Unread, Past
      <4>2. QED
        BY <1>1, <2>1, <2>2, <4>1, StillExplained
    <3>5. QED
      BY <3>1, <3>2, <3>3, <3>4
  <2>5. QED
    BY <2>3, <2>4
<1>7. ASSUME NEW c \in Conns, SyncFails(c) PROVE UnknownRowsExplained'
  <2> SUFFICES ASSUME NEW g \in Catalogs, NEW n \in DOMAIN rows PROVE Explained(g, n)'
    BY <1>7 DEF UnknownRowsExplained, SyncFails
  <2>1. Past(g, rows[n])' => Past(g, rows[n])
    BY <1>2, <1>3, <1>7 DEF SyncFails, Past
  <2>2. /\ DropPending(g)' = DropPending(g) /\ known[g] \subseteq known'[g]
        /\ skipped[g] \subseteq skipped'[g] \cup known'[g]
    BY <1>2, <1>7 DEF SyncFails, DropPending, View
  <2>3. QED
    BY <1>1, <1>7, <2>1, <2>2, StillExplained DEF SyncFails
<1>8. ASSUME NEW c \in Conns, SyncEnd(c) PROVE UnknownRowsExplained'
  <2> SUFFICES ASSUME NEW g \in Catalogs, NEW n \in DOMAIN rows PROVE Explained(g, n)'
    BY <1>8 DEF UnknownRowsExplained, SyncEnd
  <2>1. Past(g, rows[n])' => Past(g, rows[n])
    BY <1>2, <1>3, <1>8 DEF SyncEnd, SyncedAt, Past
  <2>2. DropPending(g)' = DropPending(g)
    BY <1>8 DEF SyncEnd, DropPending, View
  <2>3. QED
    BY <1>1, <1>8, <2>1, <2>2, StillExplained DEF SyncEnd
<1>9. ASSUME NEW c \in Conns, NEW name \in Objects, SaveBegin(c, name)
      PROVE  UnknownRowsExplained'
  <2> SUFFICES ASSUME NEW g \in Catalogs, NEW n \in DOMAIN rows PROVE Explained(g, n)'
    BY <1>9 DEF UnknownRowsExplained, SaveBegin
  <2>1. Past(g, rows[n])' => Past(g, rows[n])
    BY <1>2, <1>9 DEF SaveBegin, Past
  <2>2. DropPending(g)' = DropPending(g)
    BY <1>9 DEF SaveBegin, DropPending, View
  <2>3. /\ known[g] \subseteq known'[g]
        /\ undone[g] \subseteq undone'[g] \cup known'[g]
        /\ skipped[g] \subseteq skipped'[g] \cup known'[g]
    BY <1>2, <1>9 DEF SaveBegin
  <2>4. QED
    BY <1>1, <1>9, <2>1, <2>2, <2>3, StillExplained DEF SaveBegin
<1>10. ASSUME NEW c \in Conns, SaveEnd(c) PROVE UnknownRowsExplained'
  <2> DEFINE name == work[c].name
             newRows == Upsert(View(c), name, work[c].now)
  <2>1. /\ UNCHANGED <<known, lastSyncedAt, undone>>
        /\ work' = [work EXCEPT ![c] = Idle]
        /\ work[c].step = "save"
    BY <1>10 DEF SaveEnd
  <2>2. \A g, stamp : Past(g, stamp)' <=> Past(g, stamp)
    BY <1>2, <1>3, <2>1 DEF Past, Fresh
  <2>3. name \in known[CatalogOf[c]]
    BY <1>1, <2>1 DEF SavedNameKnown
  <2>4. CASE UNCHANGED <<rows, tx, late, skipped>>
    <3>1. \A g : DropPending(g)' = DropPending(g)
      BY <2>4 DEF DropPending, View
    <3>2. ASSUME NEW g \in Catalogs, NEW n \in DOMAIN rows PROVE Explained(g, n)'
      BY <1>1, <2>1, <2>2, <2>4, <3>1, StillExplained
    <3>3. QED
      BY <2>4, <3>2 DEF UnknownRowsExplained
  <2>5. CASE WriteRows(c, newRows) /\ tx[c].open
    <3>1. /\ UNCHANGED <<rows, late, skipped>>
          /\ tx' = [tx EXCEPT ![c] = [open |-> TRUE, view |-> newRows, wrote |-> TRUE]]
      BY <2>5 DEF WriteRows
    <3>2. ASSUME NEW g \in Catalogs, NEW n \in DOMAIN rows PROVE Explained(g, n)'
      <4>1. n \in DropPending(g) => n \in DropPending(g)' \cup known[g]
        <5> SUFFICES ASSUME n \in DropPending(g) PROVE n \in DropPending(g)' \cup known[g]
          OBVIOUS
        <5>1. PICK d \in Conns : CatalogOf[d] = g /\ n \notin DOMAIN View(d)
          BY DEF DropPending
        <5>2. CASE d # c
          <6>1. View(d)' = View(d)
            BY <1>2, <3>1, <5>2 DEF View
          <6>2. QED
            BY <3>1, <5>1, <6>1 DEF DropPending
        <5>3. CASE d = c /\ n # name
          <6>1. DOMAIN View(c)' = DOMAIN View(c) \cup {name}
            BY <1>2, <3>1 DEF View, Upsert
          <6>2. QED
            BY <3>1, <5>1, <5>3, <6>1 DEF DropPending
        <5>4. CASE d = c /\ n = name
          BY <2>3, <5>1, <5>4
        <5>5. QED
          BY <5>2, <5>3, <5>4
      <4>2. QED
        BY <1>1, <2>1, <2>2, <3>1, <4>1, StillExplained
    <3>3. QED
      BY <3>1, <3>2 DEF UnknownRowsExplained
  <2>6. CASE WriteRows(c, newRows) /\ ~ tx[c].open
    <3>1. CommitRows(newRows) /\ rows' = newRows /\ \A d \in Conns : ~ tx[d].open
      BY <2>6 DEF WriteRows, CommitRows, CanWrite
    <3>2. ASSUME NEW g \in Catalogs, NEW n \in DOMAIN newRows PROVE Explained(g, n)'
      <4>1. CASE n \in late'[g] \/ ~ Past(g, newRows[n])
        <5>1. Past(g, rows[n])' <=> Past(g, newRows[n])
          BY <1>2, <1>3, <2>1, <3>1 DEF Past, Fresh
        <5>2. QED
          BY <4>1, <5>1 DEF Explained
      <4>2. CASE /\ n \in DOMAIN rows /\ rows[n] = newRows[n]
                 /\ n \in late[g] \cup skipped[g] => n \in late'[g] \cup skipped'[g]
        <5>1. Explained(g, n) /\ DropPending(g) = {}
          BY <1>1, <3>1, <4>2, NothingPending DEF UnknownRowsExplained
        <5>2. QED
          BY <2>1, <2>2, <3>1, <4>2, <5>1 DEF Explained, Past, Fresh
      <4>3. QED
        BY <3>1, <4>1, <4>2, CommitRowsExplains
    <3>3. QED
      BY <3>1, <3>2 DEF UnknownRowsExplained
  <2>7. QED
    BY <1>10, <2>4, <2>5, <2>6 DEF SaveEnd
<1>11. ASSUME NEW c \in Conns, NEW name \in Objects, Delete(c, name)
       PROVE  UnknownRowsExplained'
  <2> DEFINE newRows == DeleteName(View(c), name)
  <2>1. /\ UNCHANGED <<lastSyncedAt, work>>
        /\ known' = [known EXCEPT ![CatalogOf[c]] = @ \ {name}]
    BY <1>11 DEF Delete
  <2>2. \A g, stamp : Past(g, stamp)' <=> Past(g, stamp)
    BY <2>1 DEF Past, Fresh
  <2>3. \A g \in Catalogs : \A n : n \in known[g] /\ ~ (g = CatalogOf[c] /\ n = name) => n \in known'[g]
    BY <1>2, <2>1
  <2>4. CASE /\ undone' = [undone EXCEPT ![CatalogOf[c]] = @ \cup {name}]
             /\ UNCHANGED <<rows, tx, late, skipped>>
    <3>1. \A g : DropPending(g)' = DropPending(g)
      BY <2>4 DEF DropPending, View
    <3>2. ASSUME NEW g \in Catalogs, NEW n \in DOMAIN rows PROVE Explained(g, n)'
      <4>1. n \in known[g] => n \in known'[g] \cup undone'[g]
        BY <1>2, <2>3, <2>4
      <4>2. n \in undone[g] => n \in undone'[g]
        BY <1>2, <2>4
      <4>3. QED
        BY <1>1, <2>2, <2>4, <3>1, <4>1, <4>2, StillExplained
    <3>3. QED
      BY <2>4, <3>2 DEF UnknownRowsExplained
  <2>5. CASE WriteRows(c, newRows) /\ UNCHANGED undone /\ tx[c].open
    <3>1. /\ UNCHANGED <<rows, late, skipped>>
          /\ tx' = [tx EXCEPT ![c] = [open |-> TRUE, view |-> newRows, wrote |-> TRUE]]
      BY <2>5 DEF WriteRows
    <3>2. /\ DOMAIN View(c)' = DOMAIN View(c) \ {name}
          /\ \A d \in Conns \ {c} : View(d)' = View(d)
      BY <1>2, <3>1 DEF View, DeleteName, Restrict
    <3>3. ASSUME NEW g \in Catalogs, NEW n \in DOMAIN rows PROVE Explained(g, n)'
      <4>1. n \in DropPending(g) => n \in DropPending(g)'
        BY <3>1, <3>2 DEF DropPending
      <4>2. n \in known[g] => n \in known'[g] \cup DropPending(g)'
        BY <2>3, <3>1, <3>2 DEF DropPending
      <4>3. QED
        BY <1>1, <2>2, <2>5, <3>1, <4>1, <4>2, StillExplained
    <3>4. QED
      BY <3>1, <3>3 DEF UnknownRowsExplained
  <2>6. CASE WriteRows(c, newRows) /\ UNCHANGED undone /\ ~ tx[c].open
    <3>1. CommitRows(newRows) /\ rows' = newRows /\ \A d \in Conns : ~ tx[d].open
      BY <2>6 DEF WriteRows, CommitRows, CanWrite
    <3>2. newRows = DeleteName(rows, name)
      BY <2>6 DEF View
    <3>3. ASSUME NEW g \in Catalogs, NEW n \in DOMAIN newRows PROVE Explained(g, n)'
      <4>1. n \in DOMAIN rows /\ rows[n] = newRows[n] /\ n # name
        BY <3>2 DEF DeleteName, Restrict
      <4>2. \/ ~ Past(g, rows[n])
            \/ n \in late[g] \cup skipped[g] => n \in late'[g] \cup skipped'[g]
        BY <3>1, <4>1, CommitRowsExplains
      <4>3. Explained(g, n) /\ DropPending(g) = {}
        BY <1>1, <3>1, <4>1, NothingPending DEF UnknownRowsExplained
      <4>4. Past(g, rows[n])' <=> Past(g, rows[n])
        BY <2>1, <3>1, <4>1 DEF Past, Fresh
      <4>5. QED
        BY <2>3, <2>6, <4>1, <4>2, <4>3, <4>4 DEF Explained
    <3>4. QED
      BY <3>1, <3>3 DEF UnknownRowsExplained
  <2>7. QED
    BY <1>11, <2>4, <2>5, <2>6 DEF Delete
<1>12. ASSUME NEW c \in Conns, BeginTx(c) PROVE UnknownRowsExplained'
  <2> SUFFICES ASSUME NEW g \in Catalogs, NEW n \in DOMAIN rows PROVE Explained(g, n)'
    BY <1>12 DEF UnknownRowsExplained, BeginTx
  <2>1. \A d \in Conns : View(d)' = View(d)
    BY <1>2, <1>12 DEF BeginTx, View
  <2>2. DropPending(g)' = DropPending(g)
    BY <1>12, <2>1 DEF BeginTx, DropPending
  <2>3. Past(g, rows[n])' => Past(g, rows[n])
    BY <1>12 DEF BeginTx, Past
  <2>4. QED
    BY <1>1, <1>12, <2>2, <2>3, StillExplained DEF BeginTx
<1>13. ASSUME NEW c \in Conns, Commit(c) PROVE UnknownRowsExplained'
  <2> DEFINE newRows == tx[c].view
  <2>1. /\ CommitRows(newRows) /\ rows' = newRows
        /\ UNCHANGED <<known, lastSyncedAt, work, undone>>
        /\ View(c) = newRows
        /\ \A d \in Conns \ {c} : View(d) = rows
    BY <1>13 DEF Commit, CommitRows, CanCommit, View
  <2>2. ASSUME NEW g \in Catalogs, NEW n \in DOMAIN newRows PROVE Explained(g, n)'
    <3>1. Past(g, rows[n])' <=> Past(g, newRows[n])
      BY <2>1 DEF Past, Fresh
    <3>2. CASE n \in late'[g] \/ ~ Past(g, newRows[n])
      BY <3>1, <3>2 DEF Explained
    <3>3. CASE /\ n \in DOMAIN rows /\ rows[n] = newRows[n]
               /\ n \in late[g] \cup skipped[g] => n \in late'[g] \cup skipped'[g]
      <4>1. Explained(g, n) /\ n \notin DropPending(g)
        BY <1>1, <2>1, <3>3 DEF UnknownRowsExplained, DropPending
      <4>2. QED
        BY <2>1, <3>1, <3>3, <4>1 DEF Explained
    <3>4. QED
      BY <2>1, <3>2, <3>3, CommitRowsExplains
  <2>3. QED
    BY <2>1, <2>2 DEF UnknownRowsExplained
<1>14. ASSUME NEW c \in Conns, Rollback(c) PROVE UnknownRowsExplained'
  <2> SUFFICES ASSUME NEW g \in Catalogs, NEW n \in DOMAIN rows PROVE Explained(g, n)'
    BY <1>14 DEF UnknownRowsExplained, Rollback
  <2>1. /\ undone' = [undone EXCEPT ![CatalogOf[c]] = @ \cup DroppedInTx(c)]
        /\ UNCHANGED <<rows, known, lastSyncedAt, work, late, skipped>>
        /\ tx' = [tx EXCEPT ![c] = NoTx]
    BY <1>14 DEF Rollback
  <2>2. \A d \in Conns \ {c} : View(d)' = View(d)
    BY <1>2, <2>1 DEF View
  <2>3. n \in undone[g] => n \in undone'[g]
    BY <1>2, <2>1
  <2>4. n \in DropPending(g) => n \in undone'[g] \cup DropPending(g)'
    <3> SUFFICES ASSUME n \in DropPending(g) PROVE n \in undone'[g] \cup DropPending(g)'
      OBVIOUS
    <3>1. PICK d \in Conns : CatalogOf[d] = g /\ n \notin DOMAIN View(d)
      BY DEF DropPending
    <3>2. CASE d = c
      BY <1>2, <2>1, <3>1, <3>2 DEF DroppedInTx
    <3>3. CASE d # c
      BY <2>1, <2>2, <3>1, <3>3 DEF DropPending
    <3>4. QED
      BY <3>2, <3>3
  <2>5. Past(g, rows[n])' => Past(g, rows[n])
    BY <2>1 DEF Past
  <2>6. QED
    BY <1>1, <2>1, <2>3, <2>4, <2>5, StillExplained
<1>15. ASSUME NEW h \in Catalogs, Restart(h) PROVE UnknownRowsExplained'
  <2> SUFFICES ASSUME NEW g \in Catalogs, NEW n \in DOMAIN rows PROVE Explained(g, n)'
    BY <1>15 DEF UnknownRowsExplained, Restart
  <2>1. CASE g = h
    <3>1. rows'[n] \in Nat
      BY <1>1, <1>15 DEF Restart, TypeOK, IsRows
    <3>2. ~ Past(g, rows[n])'
      BY <1>2, <1>3, <1>15, <2>1, <3>1 DEF Restart, Past, Fresh
    <3>3. QED
      BY <3>2 DEF Explained
  <2>2. CASE g # h
    <3>1. \A d \in Conns : CatalogOf[d] = g => View(d)' = View(d) /\ work'[d] = work[d]
      BY <1>15, <2>2 DEF Restart, View
    <3>2. DropPending(g)' = DropPending(g)
      BY <1>15, <3>1 DEF Restart, DropPending
    <3>3. Past(g, rows[n])' => Past(g, rows[n])
      BY <1>2, <1>15, <2>2, <3>1 DEF Restart, Past
    <3>4. QED
      BY <1>1, <1>2, <1>15, <2>2, <3>2, <3>3, StillExplained DEF Restart
  <2>3. QED
    BY <2>1, <2>2
<1>16. CASE Tick \/ SetBack \/ UNCHANGED vars
  BY <1>4, <1>16 DEF Tick, SetBack, vars
<1>17. QED
  BY <1>5, <1>6, <1>7, <1>8, <1>9, <1>10, <1>11, <1>12, <1>13, <1>14, <1>15, <1>16
  DEF Next

---------------------------------------------------------------------------
LEMMA InitSound == Init => IInv
<1> SUFFICES ASSUME Init PROVE IInv
  OBVIOUS
<1>1. TypeOK
  BY InitType
<1>2. DOMAIN rows = {} /\ \A c \in Conns : ~ tx[c].open /\ work[c].step = "idle"
  BY DEF Init, NoTx, Idle
<1>3. Snapshots /\ OneWriter /\ OwnRowsKnown /\ SavedNameKnown /\ UnknownRowsExplained
  BY <1>2 DEF Snapshots, OneWriter, OwnRowsKnown, SavedNameKnown, UnknownRowsExplained
<1>4. QED
  BY <1>1, <1>3 DEF IInv

(* A committed row that a catalog does not know, and that its next Sync    *)
(* (catalog.go:260-301) will not read, has one of these reasons: it was    *)
(* committed late, a Sync whose reading ended early left it, or a DROP of  *)
(* the catalog failed, or was rolled back, or is not committed yet         *)
(* (UnknownRowsExplained).                                                 *)
THEOREM UnknownRowsHaveReason == Spec => []UnknownRowsExplained
<1>1. Init => IInv
  BY InitSound
<1>2. IInv /\ [Next]_vars => IInv'
  BY NextType, NextSnapshots, NextSavedName, NextOwnRows, NextExplained DEF IInv
<1>3. IInv => UnknownRowsExplained
  BY DEF IInv
<1>4. QED
  BY <1>1, <1>2, <1>3, PTL DEF Spec

---------------------------------------------------------------------------
LEMMA NextTimes ==
  ASSUME TypeOK, TimesInOrder, [Next]_vars
  PROVE  TimesInOrder'
<1> USE CatalogOfType
<1>1. /\ clock \in Nat /\ setBacks \in Nat
      /\ work \in [Conns -> Works] /\ lastSyncedAt \in [Catalogs -> Nat]
      /\ \A c \in Conns : work[c] # Idle => work[c].now \in Nat
      /\ Idle.step = "idle"
  BY DEF TypeOK, Works, Idle
<1>2. CASE UNCHANGED <<clock, setBacks, lastSyncedAt, work>>
  BY <1>2 DEF TimesInOrder
<1>3. ASSUME NEW c \in Conns, SyncBegin(c) PROVE TimesInOrder'
  BY <1>1, <1>3 DEF SyncBegin, TimesInOrder
<1>4. ASSUME NEW c \in Conns, SyncRead(c) PROVE TimesInOrder'
  <2>1. work[c] # Idle
    BY <1>1, <1>4 DEF SyncRead
  <2>2. QED
    BY <1>1, <1>4, <2>1 DEF SyncRead, TimesInOrder
<1>5. ASSUME NEW c \in Conns, SyncFails(c) \/ SaveEnd(c) PROVE TimesInOrder'
  BY <1>1, <1>5 DEF SyncFails, SaveEnd, TimesInOrder
<1>6. ASSUME NEW c \in Conns, SyncEnd(c) PROVE TimesInOrder'
  <2>1. work[c] # Idle
    BY <1>1, <1>6 DEF SyncEnd
  <2>2. QED
    BY <1>1, <1>6, <2>1 DEF SyncEnd, SyncedAt, TimesInOrder
<1>7. ASSUME NEW c \in Conns, NEW name \in Objects, SaveBegin(c, name)
      PROVE  TimesInOrder'
  BY <1>1, <1>7 DEF SaveBegin, TimesInOrder
<1>8. ASSUME NEW g \in Catalogs, Restart(g) PROVE TimesInOrder'
  BY <1>1, <1>8 DEF Restart, TimesInOrder
<1>9. CASE Tick
  BY <1>1, <1>9 DEF Tick, TimesInOrder
<1>10. CASE SetBack
  BY <1>1, <1>10 DEF SetBack, TimesInOrder
<1>11. CASE \/ \E c \in Conns :
                \/ BeginTx(c) \/ Commit(c) \/ Rollback(c)
                \/ \E name \in Objects : Delete(c, name)
            \/ UNCHANGED vars
  BY <1>2, <1>11 DEF BeginTx, Commit, Rollback, Delete, vars
<1>12. QED
  BY <1>3, <1>4, <1>5, <1>6, <1>7, <1>8, <1>9, <1>10, <1>11 DEF Next

(* The rows that a commit makes late were stamped before the present.      *)
LEMMA CommitRowsOvertaken ==
  ASSUME TypeOK, TimesInOrder, setBacks = 0, NEW newRows, IsRows(newRows),
         CommitRows(newRows), NEW g \in Catalogs, NEW n \in late'[g] \ late[g]
  PROVE  clock > rows'[n]
<1>1. n \in DOMAIN newRows /\ Past(g, newRows[n]) /\ rows' = newRows
  BY DEF CommitRows
<1>2. newRows[n] \in Nat
  BY <1>1 DEF IsRows
<1>3. clock \in Nat /\ lastSyncedAt[g] \in Nat /\ lastSyncedAt[g] <= clock
  BY DEF TypeOK, TimesInOrder
<1>4. CASE ~ Fresh(newRows[n], lastSyncedAt[g])
  BY <1>1, <1>2, <1>3, <1>4 DEF Fresh
<1>5. CASE \E c \in Conns : work[c].step = "synced" /\ ~ Fresh(newRows[n], work[c].now)
  <2>1. PICK c \in Conns : work[c].step = "synced" /\ ~ Fresh(newRows[n], work[c].now)
    BY <1>5
  <2>2. work[c] # Idle /\ work[c].now \in Nat
    BY <2>1 DEF TypeOK, Works, Idle
  <2>3. work[c].now <= clock
    BY <2>2 DEF TimesInOrder
  <2>4. QED
    BY <1>1, <1>2, <1>3, <2>1, <2>2, <2>3 DEF Fresh
<1>6. QED
  BY <1>1, <1>4, <1>5 DEF Past

LEMMA NextOvertaken ==
  ASSUME TypeOK, TimesInOrder, [Next]_vars, NEW g \in Catalogs, NEW n \in late'[g] \ late[g]
  PROVE  clock > rows'[n] \/ setBacks > 0
<1> SUFFICES ASSUME setBacks = 0 PROVE clock > rows'[n]
  BY DEF TypeOK
<1>1. CASE \E newRows : IsRows(newRows) /\ CommitRows(newRows)
  BY <1>1, CommitRowsOvertaken
<1>2. CASE late' = late
  BY <1>2
<1>3. ASSUME NEW c \in Conns, NEW newRows, IsRows(newRows), WriteRows(c, newRows)
      PROVE  clock > rows'[n]
  BY <1>1, <1>2, <1>3 DEF WriteRows
<1>4. ASSUME NEW c \in Conns, SaveEnd(c) PROVE clock > rows'[n]
  <2>1. work[c].name \in Objects /\ work[c].now \in Nat
    BY <1>4 DEF SaveEnd, TypeOK, Works, Idle
  <2>2. IsRows(Upsert(View(c), work[c].name, work[c].now))
    BY <2>1, ViewType, UpsertType
  <2>3. QED
    BY <1>2, <1>3, <1>4, <2>2 DEF SaveEnd
<1>5. ASSUME NEW c \in Conns, NEW name \in Objects, Delete(c, name) PROVE clock > rows'[n]
  <2>1. IsRows(DeleteName(View(c), name))
    BY ViewType, DeleteNameType
  <2>2. QED
    BY <1>2, <1>3, <1>5, <2>1 DEF Delete
<1>6. ASSUME NEW c \in Conns, Commit(c) PROVE clock > rows'[n]
  <2>1. IsRows(tx[c].view)
    BY <1>6 DEF Commit, TypeOK, TxType, IsTransaction, NoTx
  <2>2. QED
    BY <1>1, <1>6, <2>1 DEF Commit
<1>7. ASSUME NEW h \in Catalogs, Restart(h) PROVE clock > rows'[n]
  BY <1>7 DEF Restart, TypeOK
<1>8. CASE \/ \E c \in Conns :
                \/ SyncBegin(c) \/ SyncRead(c) \/ SyncFails(c) \/ SyncEnd(c)
                \/ BeginTx(c) \/ Rollback(c)
                \/ \E name \in Objects : SaveBegin(c, name)
           \/ Tick \/ SetBack \/ UNCHANGED vars
  BY <1>2, <1>8 DEF SyncBegin, SyncRead, SyncFails, SyncEnd, BeginTx, Rollback,
                    SaveBegin, Tick, SetBack, vars
<1>9. QED
  BY <1>4, <1>5, <1>6, <1>7, <1>8 DEF Next

(* Without a clock set back, only a row committed after the time it was    *)
(* stamped with can escape a Sync (LateMeansOvertaken): the stamp is taken *)
(* before the query and compared with >= (catalog.go:267-271).             *)
THEOREM LateOnlyIfOvertaken == Spec => LateMeansOvertaken
<1>1. Init => TypeOK /\ TimesInOrder
  <2> SUFFICES ASSUME Init PROVE TypeOK /\ TimesInOrder
    OBVIOUS
  <2>1. TypeOK
    BY InitType
  <2>2. TimesInOrder
    BY DEF Init, TimesInOrder
  <2>3. QED
    BY <2>1, <2>2
<1>2. TypeOK /\ TimesInOrder /\ [Next]_vars => (TypeOK /\ TimesInOrder)'
  BY NextType, NextTimes
<1>3. TypeOK /\ TimesInOrder /\ [Next]_vars =>
        [\A g \in Catalogs : \A n \in late'[g] \ late[g] : Overtaken(n)]_vars
  BY NextOvertaken DEF Overtaken
<1>4. QED
  BY <1>1, <1>2, <1>3, PTL DEF Spec, LateMeansOvertaken
=============================================================================
