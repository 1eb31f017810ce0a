------------------------------- MODULE CatalogOps -------------------------------
(***************************************************************************)
(* The data structure of internal/catalog.go: the in-memory catalog shared *)
(* by every connection of one data source name, as operators on records.   *)
(*                                                                         *)
(* An object (table, view or function) is described by a spec              *)
(*    [kind, path, ver, temp]                                              *)
(* where path is its name path and ver stands for its schema or body.  The *)
(* catalog holds two registries of the same shape, one for tables and      *)
(* views and one for functions.  A registry keeps every spec three times:  *)
(*    list    c.tables / c.functions, in the order of creation             *)
(*    map     c.tableMap / c.funcMap, by the name SQLite knows             *)
(*    simple  the SimpleCatalog the ZetaSQL analyzer resolves names with   *)
(***************************************************************************)
EXTENDS Naturals, Sequences, SequencesExt

(* A name path is a sequence of identifiers and an identifier a sequence   *)
(* of the words that "_" separates in it, so that joining a path with "_"  *)
(* is flattening it: `a_b`.`c` and `a`.`b_c` have the same name.           *)
SpecName(spec) == FlattenSeq(spec.path)

(***************************************************************************)
(* Where a spec is registered in the SimpleCatalog: pairs of the nested    *)
(* catalog (a sequence of identifiers below the root) and the table name   *)
(* inside it (the identifiers a dotted name joins).  The first identifier  *)
(* of a path is both dropped and descended into, and a table is registered *)
(* under the rest of the path at every level; a function only under its    *)
(* last identifier.                                                        *)
(***************************************************************************)
Below(catalog, keys) == {<< <<catalog>> \o k[1], k[2] >> : k \in keys}

TableKeys(path) ==
    LET from[i \in 1..Len(path)] ==
            {<< <<>>, SubSeq(path, i, Len(path)) >>} \cup
            IF i = Len(path) THEN {}
            ELSE from[i + 1] \cup Below(path[i], from[i + 1])
    IN  from[1]

FunctionKeys(path) ==
    LET from[i \in 1..Len(path)] ==
            IF i = Len(path) THEN {<< <<>>, <<path[i]>> >>}
            ELSE from[i + 1] \cup Below(path[i], from[i + 1])
    IN  from[1]

Keys(spec) ==
    IF spec.kind = "function" THEN FunctionKeys(spec.path)
                              ELSE TableKeys(spec.path)

(* The key under which the analyzer looks up a path it is given in full.   *)
FullKey(path) == << Front(path), <<Last(path)>> >>

---------------------------------------------------------------------------
Names(list) == {SpecName(list[i]) : i \in DOMAIN list}

AllKeys(list) == UNION {Keys(list[i]) : i \in DOMAIN list}

IndexOfName(list, name) ==
    CHOOSE i \in DOMAIN list : SpecName(list[i]) = name

(* The spec registered first under a key keeps it (existsTable).           *)
FirstIndexOfKey(list, key) ==
    CHOOSE i \in DOMAIN list :
        /\ key \in Keys(list[i])
        /\ \A j \in DOMAIN list : key \in Keys(list[j]) => i <= j

(* Mutant: the spec after the one to be dropped is left out.               *)
Without_DropsNext(list, name) ==
    IF name \in Names(list) /\ IndexOfName(list, name) < Len(list)
    THEN RemoveAt(list, IndexOfName(list, name) + 1) ELSE list

(* The loop of delete...SpecByName that copies every other spec.           *)
Without(list, name) ==
    IF name \in Names(list) THEN RemoveAt(list, IndexOfName(list, name))
                            ELSE list

(* Mutant: existsTable is not asked, the last spec takes the keys.         *)
WithNew_Overwrites(f, keys, spec) ==
    [k \in DOMAIN f \cup keys |-> IF k \in keys THEN spec ELSE f[k]]

(* f with those of the keys that it does not have yet.                     *)
WithNew(f, keys, spec) ==
    [k \in DOMAIN f \cup keys |-> IF k \in DOMAIN f THEN f[k] ELSE spec]

(* Mutants: an existing name is appended again, and the list is given the  *)
(* copy of the spec with the shortened path (copyTableSpec).               *)
AddSpec_AppendsAgain(reg, spec) ==
    [list   |-> Append(reg.list, spec),
     map    |-> [n \in DOMAIN reg.map \cup {SpecName(spec)} |->
                    IF n = SpecName(spec) THEN spec ELSE reg.map[n]],
     simple |-> WithNew(reg.simple, Keys(spec), spec)]

AddSpec_ListsCopy(reg, spec) ==
    [list   |-> Append(reg.list, [spec EXCEPT !.path = Tail(@)]),
     map    |-> WithNew(reg.map, {SpecName(spec)}, spec),
     simple |-> WithNew(reg.simple, Keys(spec), spec)]

(***************************************************************************)
(* addTableSpec and addFunctionSpec: an existing name only gets a new map  *)
(* entry, the list and the SimpleCatalog keep the spec they have.          *)
(***************************************************************************)
AddSpec(reg, spec) ==
    IF SpecName(spec) \in DOMAIN reg.map
    THEN [reg EXCEPT !.map[SpecName(spec)] = spec]
    ELSE [list   |-> Append(reg.list, spec),
          map    |-> WithNew(reg.map, {SpecName(spec)}, spec),
          simple |-> WithNew(reg.simple, Keys(spec), spec)]

(***************************************************************************)
(* What resetCatalog makes of one of the two lists: the specs are added    *)
(* one after the other to an empty registry.  The names of a list are      *)
(* distinct, so the result has this closed form (RebuildAsCode in Catalog  *)
(* compares the two).                                                      *)
(***************************************************************************)
Rebuild(list) ==
    [list   |-> list,
     map    |-> [n \in Names(list) |-> list[IndexOfName(list, n)]],
     simple |-> [k \in AllKeys(list) |-> list[FirstIndexOfKey(list, k)]]]

---------------------------------------------------------------------------
AddTableSpec(cat, spec)    == [cat EXCEPT !.tables = AddSpec(@, spec)]
AddFunctionSpec(cat, spec) == [cat EXCEPT !.functions = AddSpec(@, spec)]

(* Mutant: resetCatalog keeps the old SimpleCatalog.                       *)
DeleteTableSpecByName_KeepsSimple(cat, name) ==
    [cat EXCEPT !.tables =
        [Rebuild(Without(@.list, SpecName(@.map[name]))) EXCEPT
            !.simple = cat.tables.simple]]

(* deleteTableSpecByName and deleteFunctionSpecByName fail for a name that *)
(* is not in the map; otherwise both registries are rebuilt.               *)
DeleteTableSpecByName(cat, name) ==
    [tables    |-> Rebuild(Without(cat.tables.list,
                                   SpecName(cat.tables.map[name]))),
     functions |-> Rebuild(cat.functions.list)]

DeleteFunctionSpecByName(cat, name) ==
    [tables    |-> Rebuild(cat.tables.list),
     functions |-> Rebuild(Without(cat.functions.list,
                                   SpecName(cat.functions.map[name])))]

(* NewCatalog: the functions go-zetasql lacks are registered at once.      *)
NewCatalog(missingFunctions) ==
    [tables |-> Rebuild(<<>>), functions |-> Rebuild(missingFunctions)]

(* FindTable and FindFunction for a path given in full.                    *)
Resolvable(reg, path) == FullKey(path) \in DOMAIN reg.simple
Resolve(reg, path)    == reg.simple[FullKey(path)]
---------------------------------------------------------------------------
(* What those closed forms stand for, in the steps of the code: the loop of *)
(* resetCatalog over a list, and the loop of delete...SpecByName that      *)
(* skips a name.                                                           *)
EmptyRegistry == [list |-> <<>>, map |-> <<>>, simple |-> <<>>]

AddAll(reg, list) == FoldLeft(AddSpec, reg, list)

KeepOther(name, kept, spec) ==
    IF SpecName(spec) = name THEN kept ELSE Append(kept, spec)

KeepOthers(name, kept, list) ==
    FoldLeft(LAMBDA k, s : KeepOther(name, k, s), kept, list)

(* The shape of a registry over a set of specs.                            *)
IsRegistry(reg, specs) ==
    /\ DOMAIN reg = {"list", "map", "simple"}
    /\ reg.list \in Seq(specs)
    /\ \A n \in DOMAIN reg.map : reg.map[n] \in specs
    /\ \A k \in DOMAIN reg.simple : reg.simple[k] \in specs

(***************************************************************************)
(* The list and the map of a registry hold the same objects, each once, a  *)
(* map entry is filed under the name of its spec, and the SimpleCatalog    *)
(* resolves a key to the spec that claimed it first among those that still *)
(* exist: adding one spec at a time and rebuilding from the list agree.    *)
(***************************************************************************)
NamesDistinct(list) ==
    \A i, j \in DOMAIN list : SpecName(list[i]) = SpecName(list[j]) => i = j

Consistent(reg) ==
    /\ NamesDistinct(reg.list)
    /\ DOMAIN reg.map = Names(reg.list)
    /\ \A n \in DOMAIN reg.map : SpecName(reg.map[n]) = n
    /\ reg.simple = Rebuild(reg.list).simple
=============================================================================
