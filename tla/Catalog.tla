--------------------------------- MODULE Catalog ---------------------------------
(***************************************************************************)
(* One shared catalog (type Catalog of internal/catalog.go) under any      *)
(* sequence of the four operations that change it.  Every one of them runs *)
(* with c.mu held, so each is one step, whichever connection runs it.      *)
(***************************************************************************)
EXTENDS CatalogOps

CONSTANTS
    TableSpecs,       \* specs of the tables and views that may be created
    FunctionSpecs,    \* specs of the functions that may be created
    MissingFunctions  \* the sequence of specs NewCatalog starts with

VARIABLE cat          \* the catalog: its registries of tables and functions

(* No table stands under the full path of another one: true of paths of    *)
(* the same depth, such as the project.dataset.table of BigQuery.          *)
ASSUME NoShadowing ==
    \A s, t \in TableSpecs :
        FullKey(t.path) \in Keys(s) => SpecName(s) = SpecName(t)

(* Every table is registered under its own full path.                      *)
ASSUME FullKeyRegistered ==
    \A s \in TableSpecs : FullKey(s.path) \in Keys(s)

(* Specs of the same name have the same path: no identifier of an instance *)
(* holds a "_" that another path puts between two identifiers.             *)
ASSUME NamesTellPaths ==
    \A s, t \in TableSpecs : SpecName(s) = SpecName(t) => s.path = t.path

ASSUME MissingFunctionsType ==
    /\ MissingFunctions \in Seq(FunctionSpecs)
    /\ \A i, j \in DOMAIN MissingFunctions :
        SpecName(MissingFunctions[i]) = SpecName(MissingFunctions[j]) => i = j

---------------------------------------------------------------------------
Init == cat = NewCatalog(MissingFunctions)

AddTable(spec) == cat' = AddTableSpec(cat, spec)

AddFunction(spec) == cat' = AddFunctionSpec(cat, spec)

DeleteTable(name) ==
    /\ name \in DOMAIN cat.tables.map
    /\ cat' = DeleteTableSpecByName(cat, name)

DeleteFunction(name) ==
    /\ name \in DOMAIN cat.functions.map
    /\ cat' = DeleteFunctionSpecByName(cat, name)

Next ==
    \/ \E spec \in TableSpecs : AddTable(spec)
    \/ \E spec \in FunctionSpecs : AddFunction(spec)
    \/ \E name \in DOMAIN cat.tables.map : DeleteTable(name)
    \/ \E name \in DOMAIN cat.functions.map : DeleteFunction(name)

Spec == Init /\ [][Next]_cat

---------------------------------------------------------------------------
(* The catalog has its two registries, of tables and of functions.         *)
TypeOK ==
    /\ DOMAIN cat = {"tables", "functions"}
    /\ IsRegistry(cat.tables, TableSpecs)
    /\ IsRegistry(cat.functions, FunctionSpecs)

(* addTableSpec, addFunctionSpec and resetCatalog (catalog.go:397-525)     *)
(* keep the three copies of every spec in step.                            *)
CatalogConsistent == Consistent(cat.tables) /\ Consistent(cat.functions)

(* resetCatalog adds the listed specs one by one to an empty registry; the *)
(* closed form Rebuild and the filter Without are what its loop and the    *)
(* loops of delete...SpecByName compute, on every list that can arise.     *)
RebuildAsCode ==
    \A reg \in {cat.tables, cat.functions} :
        /\ Rebuild(reg.list) = AddAll(EmptyRegistry, reg.list)
        /\ \A n \in DOMAIN reg.map :
            Without(reg.list, n) = KeepOthers(n, <<>>, reg.list)

(* What the analyzer finds under a key changes only when the object it     *)
(* found is dropped or when nothing was found before: dropping another     *)
(* object or adding one never redirects a name (first come, first served). *)
NamesNeverRedirected ==
    [][\A k \in DOMAIN cat.tables.simple :
          \/ k \in DOMAIN cat'.tables.simple
             /\ cat'.tables.simple[k] = cat.tables.simple[k]
          \/ SpecName(cat.tables.simple[k]) \notin DOMAIN cat'.tables.map
      ]_cat

(* Refinement: looking tables up by their full paths implements a          *)
(* dictionary in which the spec an object was created with stays until the *)
(* object is dropped.                                                      *)
ByFullPath ==
    [n \in DOMAIN cat.tables.map |-> Resolve(cat.tables, cat.tables.map[n].path)]

FirstSpecDictionary ==
    INSTANCE Dictionary WITH Specs <- TableSpecs, NameOf <- SpecName,
                             dict <- ByFullPath

ImplementsDictionary == FirstSpecDictionary!Spec

(* addTableSpec says of an existing name that it will "update current      *)
(* spec" (catalog.go:516): the spec of the table map is then the one that  *)
(* the analyzer finds under the full path of the table.                    *)
CurrentSpecUpdated ==
    \A n \in DOMAIN cat.tables.map : ByFullPath[n] = cat.tables.map[n]
=============================================================================
