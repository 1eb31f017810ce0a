----------------------------- MODULE ChangedCatalog -----------------------------
(***************************************************************************)
(* The record of what one call changed (ChangedCatalog of internal/conn.go)*)
(* that the caller reads from the rows or the result.  Each of its halves, *)
(* for tables and for functions, is a pair of sequences of specs; Updated  *)
(* stays empty, no statement calls updateTable.                            *)
(***************************************************************************)
EXTENDS CatalogOps

(* A nil pointer to a spec, as DROP reports an object it did not look up.  *)
NoSpec == [kind |-> "nil"]

NoChanges == [added |-> <<>>, deleted |-> <<>>]

newChangedCatalog == [tables |-> NoChanges, functions |-> NoChanges]

(* The loops of removeFrom...IfExists; they dereference every entry and,   *)
(* for each of them, the spec looked for.                                  *)
WithoutName(specs, spec) == KeepOthers(SpecName(spec), <<>>, specs)

Dereferenceable(specs, spec) == specs = <<>> \/ NoSpec \notin ToSet(Append(specs, spec))

(* addTable and addFunction                                                *)
CanAdd(changes, spec) == Dereferenceable(changes.deleted, spec)
Add(changes, spec) ==
    [added   |-> Append(changes.added, spec),
     deleted |-> WithoutName(changes.deleted, spec)]

(* Mutant: what was added in the same call is still reported.              *)
Delete_KeepsAdded(changes, spec) ==
    [changes EXCEPT !.deleted = Append(@, spec)]

(* deleteTable and deleteFunction                                          *)
CanDelete(changes, spec) == Dereferenceable(changes.added, spec)
Delete(changes, spec) ==
    [added   |-> WithoutName(changes.added, spec),
     deleted |-> Append(changes.deleted, spec)]

(* The names a sequence of specs tells of.                                 *)
NamesOf(specs) == {SpecName(s) : s \in ToSet(specs) \ {NoSpec}}
=============================================================================
