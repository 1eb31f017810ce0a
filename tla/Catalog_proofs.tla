----------------------------- MODULE Catalog_proofs -----------------------------
(***************************************************************************)
(* Proofs about Catalog, for every set of specs and every sequence of      *)
(* functions NewCatalog starts with.                                       *)
(***************************************************************************)
EXTENDS Catalog, CatalogOps_proofs

(* The inductive invariant: both registries are sound.                     *)
IInv ==
    /\ DOMAIN cat = {"tables", "functions"}
    /\ Sound(cat.tables, TableSpecs)
    /\ Sound(cat.functions, FunctionSpecs)

LEMMA InitSound == Init => IInv
<1> SUFFICES ASSUME Init PROVE IInv
  OBVIOUS
<1>1. /\ DOMAIN cat = {"tables", "functions"}
      /\ cat.tables = Rebuild(<< >>) /\ cat.functions = Rebuild(MissingFunctions)
  BY DEF Init, NewCatalog
<1>2. << >> \in Seq(TableSpecs) /\ NamesDistinct(<< >>)
  BY DEF NamesDistinct
<1>3. MissingFunctions \in Seq(FunctionSpecs) /\ NamesDistinct(MissingFunctions)
  BY MissingFunctionsType, Zenon DEF NamesDistinct
<1>4. QED
  BY <1>1, <1>2, <1>3, RebuildConsistent DEF IInv, Sound

LEMMA NextSound == IInv /\ [Next]_cat => IInv'
<1> SUFFICES ASSUME IInv, [Next]_cat PROVE IInv'
  OBVIOUS
<1> USE DEF IInv
<1>1. ASSUME NEW spec \in TableSpecs, AddTable(spec) PROVE IInv'
  <2>1. /\ DOMAIN cat' = {"tables", "functions"}
        /\ cat'.tables = AddSpec(cat.tables, spec)
        /\ cat'.functions = cat.functions
    BY <1>1 DEF AddTable, AddTableSpec
  <2>2. Sound(cat'.tables, TableSpecs)
    BY <2>1, AddSpecConsistent DEF Sound
  <2>3. QED
    BY <2>1, <2>2
<1>2. ASSUME NEW spec \in FunctionSpecs, AddFunction(spec) PROVE IInv'
  <2>1. /\ DOMAIN cat' = {"tables", "functions"}
        /\ cat'.tables = cat.tables
        /\ cat'.functions = AddSpec(cat.functions, spec)
    BY <1>2 DEF AddFunction, AddFunctionSpec
  <2>2. Sound(cat'.functions, FunctionSpecs)
    BY <2>1, AddSpecConsistent DEF Sound
  <2>3. QED
    BY <2>1, <2>2
<1>3. ASSUME NEW name, DeleteTable(name) PROVE IInv'
  <2>1. SpecName(cat.tables.map[name]) = name
    BY <1>3, RebuildSound DEF DeleteTable
  <2>2. /\ DOMAIN cat' = {"tables", "functions"}
        /\ cat'.tables = Rebuild(Without(cat.tables.list, name))
        /\ cat'.functions = Rebuild(cat.functions.list)
    BY <1>3, <2>1 DEF DeleteTable, DeleteTableSpecByName
  <2>3. QED
    BY <1>3, <2>2, RebuildSound DEF DeleteTable
<1>4. ASSUME NEW name, DeleteFunction(name) PROVE IInv'
  <2>1. SpecName(cat.functions.map[name]) = name
    BY <1>4, RebuildSound DEF DeleteFunction
  <2>2. /\ DOMAIN cat' = {"tables", "functions"}
        /\ cat'.tables = Rebuild(cat.tables.list)
        /\ cat'.functions = Rebuild(Without(cat.functions.list, name))
    BY <1>4, <2>1 DEF DeleteFunction, DeleteFunctionSpecByName
  <2>3. QED
    BY <1>4, <2>2, RebuildSound DEF DeleteFunction
<1>5. CASE UNCHANGED cat
  BY <1>5
<1>6. QED
  BY <1>1, <1>2, <1>3, <1>4, <1>5 DEF Next

LEMMA Inductive == Spec => []IInv
BY InitSound, NextSound, PTL DEF Spec

(* The registries of the shared catalog hold specs of their own kind only, *)
(* whatever the sequence of operations (catalog.go:303-415).               *)
THEOREM TypeCorrect == Spec => []TypeOK
<1>1. IInv => TypeOK
  BY DEF IInv, Sound, TypeOK
<1>2. QED
  BY <1>1, Inductive, PTL

(* The list, the map and the SimpleCatalog of each registry always tell    *)
(* of the same objects (catalog.go:397-415, 499-525).                      *)
THEOREM AlwaysConsistent == Spec => []CatalogConsistent
<1>1. IInv => CatalogConsistent
  BY DEF IInv, Sound, CatalogConsistent
<1>2. QED
  BY <1>1, Inductive, PTL

---------------------------------------------------------------------------
(* resetCatalog and the loops of delete...SpecByName, which go over a list *)
(* one spec at a time (catalog.go:364-415), compute the closed forms that  *)
(* the operations of the model are made of.                                *)
THEOREM RebuiltAsCode == Spec => []RebuildAsCode
<1>1. ASSUME NEW S, NEW reg, Sound(reg, S)
      PROVE  /\ Rebuild(reg.list) = AddAll(EmptyRegistry, reg.list)
             /\ \A n \in DOMAIN reg.map :
                    Without(reg.list, n) = KeepOthers(n, << >>, reg.list)
  <2>1. /\ reg.list \in Seq(S) /\ NamesDistinct(reg.list)
        /\ DOMAIN reg.map = Names(reg.list)
    BY <1>1 DEF Sound, IsRegistry, Consistent
  <2>2. QED
    BY <2>1, RebuildIsFold, WithoutIsFold
<1>2. IInv => RebuildAsCode
  BY <1>1 DEF IInv, RebuildAsCode
<1>3. QED
  BY <1>2, Inductive, PTL

(* What the tables of the catalog are after each kind of step.             *)
LEMMA TablesAfterDelete ==
  ASSUME IInv, NEW name, DeleteTable(name)
  PROVE  /\ name \in DOMAIN cat.tables.map /\ name \in Names(cat.tables.list)
         /\ cat'.tables = Rebuild(Without(cat.tables.list, name))
         /\ DOMAIN cat'.tables.map = DOMAIN cat.tables.map \ {name}
<1>1. /\ name \in DOMAIN cat.tables.map /\ name \in Names(cat.tables.list)
      /\ SpecName(cat.tables.map[name]) = name
  BY RebuildSound DEF IInv, DeleteTable
<1>2. cat'.tables = Rebuild(Without(cat.tables.list, name))
  BY <1>1 DEF DeleteTable, DeleteTableSpecByName
<1>3. Names(Without(cat.tables.list, name)) = Names(cat.tables.list) \ {name}
  BY <1>1, WithoutNames DEF IInv, Sound, IsRegistry, Consistent
<1>4. DOMAIN cat'.tables.map = Names(Without(cat.tables.list, name))
  BY <1>2 DEF Rebuild
<1>5. QED
  BY <1>1, <1>2, <1>3, <1>4 DEF IInv, Sound, Consistent

(* Adding never changes what a registered key resolves to, deleting an     *)
(* object changes only the keys that resolved to it (catalog.go:397-415,   *)
(* 527-568): no object of another name is redirected behind a user's back. *)
THEOREM NeverRedirected == Spec => NamesNeverRedirected
<1> DEFINE Kept(k) ==
               \/ k \in DOMAIN cat'.tables.simple
                  /\ cat'.tables.simple[k] = cat.tables.simple[k]
               \/ SpecName(cat.tables.simple[k]) \notin DOMAIN cat'.tables.map
<1>1. ASSUME IInv, Next, NEW k \in DOMAIN cat.tables.simple PROVE Kept(k)
  <2>1. ASSUME NEW spec \in TableSpecs, AddTable(spec) PROVE Kept(k)
    <3>1. cat'.tables = AddSpec(cat.tables, spec)
      BY <1>1, <2>1 DEF AddTable, AddTableSpec, IInv
    <3>2. k \in DOMAIN cat'.tables.simple
          /\ cat'.tables.simple[k] = cat.tables.simple[k]
      BY <1>1, <3>1 DEF AddSpec, WithNew, IInv, Sound, IsRegistry
    <3>3. QED
      BY <3>2
  <2>2. ASSUME NEW spec \in FunctionSpecs, AddFunction(spec) PROVE Kept(k)
    BY <1>1, <2>2 DEF AddFunction, AddFunctionSpec, IInv
  <2>3. ASSUME NEW name, DeleteTable(name) PROVE Kept(k)
    <3>1. /\ name \in Names(cat.tables.list)
          /\ cat'.tables = Rebuild(Without(cat.tables.list, name))
          /\ name \notin DOMAIN cat'.tables.map
      BY <1>1, <2>3, TablesAfterDelete
    <3>2. CASE SpecName(cat.tables.simple[k]) = name
      BY <3>1, <3>2
    <3>3. CASE SpecName(cat.tables.simple[k]) # name
      BY <1>1, <3>1, <3>3, WithoutKeepsKeys DEF IInv
    <3>4. QED
      BY <3>2, <3>3
  <2>4. ASSUME NEW name, DeleteFunction(name) PROVE Kept(k)
    <3>1. cat'.tables = Rebuild(cat.tables.list)
      BY <2>4 DEF DeleteFunction, DeleteFunctionSpecByName
    <3>2. cat'.tables.simple = cat.tables.simple
      BY <1>1, <3>1, SimpleRebuilt DEF IInv
    <3>3. QED
      BY <3>2
  <2>5. QED
    BY <1>1, <2>1, <2>2, <2>3, <2>4 DEF Next
<1>2. IInv /\ [Next]_cat => [\A k \in DOMAIN cat.tables.simple : Kept(k)]_cat
  BY <1>1
<1>3. QED
  BY <1>2, Inductive, PTL DEF Spec, NamesNeverRedirected

---------------------------------------------------------------------------
(* Under its own full path the analyzer finds each table by its name.      *)
LEMMA FoundByFullPath ==
  ASSUME IInv, NEW n \in DOMAIN cat.tables.map
  PROVE  LET k == FullKey(cat.tables.map[n].path)
         IN  /\ cat.tables.map[n] \in TableSpecs
             /\ SpecName(cat.tables.map[n]) = n
             /\ k \in DOMAIN cat.tables.simple
             /\ SpecName(cat.tables.simple[k]) = n
<1> DEFINE reg == cat.tables
           spec == reg.map[n]
           k == FullKey(spec.path)
<1>1. spec \in TableSpecs /\ SpecName(spec) = n /\ n \in Names(reg.list)
  BY DEF IInv, Sound, IsRegistry, Consistent
<1>2. reg.list \in Seq(TableSpecs)
  BY DEF IInv, Sound, IsRegistry
<1>3. PICK i \in DOMAIN reg.list : SpecName(reg.list[i]) = n
  BY <1>1 DEF Names
<1>4. k \in Keys(reg.list[i])
  BY <1>1, <1>2, <1>3, NamesTellPaths, FullKeyRegistered
<1>5. k \in AllKeys(reg.list)
  BY <1>4 DEF AllKeys
<1>6. reg.simple = [q \in AllKeys(reg.list) |-> reg.list[FirstIndexOfKey(reg.list, q)]]
  BY DEF IInv, Sound, Consistent, Rebuild
<1>7. reg.simple[k] \in TableSpecs /\ k \in Keys(reg.simple[k])
  BY <1>2, <1>5, <1>6, FirstIndexExists
<1>8. SpecName(reg.simple[k]) = n
  BY <1>1, <1>7, NoShadowing
<1>9. QED
  BY <1>1, <1>5, <1>6, <1>8

(* Looking tables up by their full paths implements a dictionary whose     *)
(* entries stay until their object is dropped.  A table that is created    *)
(* again keeps its first spec in this dictionary (catalog.go:513-525).     *)
THEOREM RefinesDictionary == Spec => ImplementsDictionary
<1> DEFINE path(n) == cat.tables.map[n].path
<1>1. Init => FirstSpecDictionary!Init
  <2> SUFFICES ASSUME Init PROVE DOMAIN ByFullPath = {}
    BY DEF FirstSpecDictionary!Init
  <2>1. cat.tables = Rebuild(<< >>)
    BY DEF Init, NewCatalog
  <2>2. DOMAIN cat.tables.map = {}
    BY <2>1 DEF Rebuild, Names
  <2>3. QED
    BY <2>2 DEF ByFullPath
<1>2. ASSUME IInv, IInv', [Next]_cat
      PROVE  FirstSpecDictionary!Next \/ ByFullPath' = ByFullPath
  <2>0. /\ ByFullPath = [n \in DOMAIN cat.tables.map |-> cat.tables.simple[FullKey(path(n))]]
        /\ ByFullPath' = [n \in DOMAIN cat'.tables.map |->
                              cat'.tables.simple[FullKey(cat'.tables.map[n].path)]]
    BY DEF ByFullPath, Resolve
  <2>1. ASSUME NEW n \in DOMAIN cat.tables.map, n \in DOMAIN cat'.tables.map
        PROVE  cat'.tables.map[n].path = path(n)
    BY <1>2, <2>1, NamesTellPaths DEF IInv, Sound, IsRegistry, Consistent
  <2>2. ASSUME DOMAIN cat'.tables.map = DOMAIN cat.tables.map,
               cat'.tables.simple = cat.tables.simple
        PROVE  ByFullPath' = ByFullPath
    BY <2>0, <2>1, <2>2
  <2>3. ASSUME NEW spec \in TableSpecs, AddTable(spec)
        PROVE  FirstSpecDictionary!Next \/ ByFullPath' = ByFullPath
    <3>1. cat'.tables = AddSpec(cat.tables, spec) /\ IsRegistry(cat.tables, TableSpecs)
      BY <1>2, <2>3 DEF AddTable, AddTableSpec, IInv, Sound
    <3>2. CASE SpecName(spec) \in DOMAIN cat.tables.map
      <4>1. DOMAIN cat'.tables.map = DOMAIN cat.tables.map
            /\ cat'.tables.simple = cat.tables.simple
        BY <3>1, <3>2 DEF AddSpec, IsRegistry
      <4>2. QED
        BY <2>2, <4>1
    <3>3. CASE SpecName(spec) \notin DOMAIN cat.tables.map
      <4> DEFINE name == SpecName(spec)
                 key  == FullKey(spec.path)
      <4>1. /\ cat'.tables.map = WithNew(cat.tables.map, {name}, spec)
            /\ cat'.tables.simple = WithNew(cat.tables.simple, Keys(spec), spec)
        BY <3>1, <3>3 DEF AddSpec
      <4>2. key \notin DOMAIN cat.tables.simple
        <5> SUFFICES ASSUME key \in AllKeys(cat.tables.list) PROVE FALSE
          BY <1>2 DEF IInv, Sound, Consistent, Rebuild
        <5>1. PICK i \in DOMAIN cat.tables.list : key \in Keys(cat.tables.list[i])
          BY DEF AllKeys
        <5>2. cat.tables.list[i] \in TableSpecs
          BY <1>2, <5>1 DEF IInv, Sound, IsRegistry
        <5>3. SpecName(cat.tables.list[i]) = name
          BY <5>1, <5>2, NoShadowing
        <5>4. name \in DOMAIN cat.tables.map
          BY <1>2, <5>1, <5>3 DEF IInv, Sound, Consistent, Names
        <5>5. QED
          BY <3>3, <5>4
      <4>3. ByFullPath'[name] = spec
        <5>1. name \in DOMAIN cat'.tables.map /\ cat'.tables.map[name] = spec
          BY <3>3, <4>1 DEF WithNew
        <5>2. key \in DOMAIN cat'.tables.simple /\ cat'.tables.simple[key] = spec
          BY <4>1, <4>2, FullKeyRegistered DEF WithNew
        <5>3. QED
          BY <2>0, <5>1, <5>2
      <4>4. ASSUME NEW n \in DOMAIN cat.tables.map
            PROVE  n \in DOMAIN cat'.tables.map /\ ByFullPath'[n] = ByFullPath[n]
        <5>1. n \in DOMAIN cat'.tables.map /\ cat'.tables.map[n].path = path(n)
          BY <2>1, <4>1 DEF WithNew
        <5>2. FullKey(path(n)) \in DOMAIN cat.tables.simple
          BY <1>2, FoundByFullPath
        <5>3. cat'.tables.simple[FullKey(path(n))] = cat.tables.simple[FullKey(path(n))]
          BY <4>1, <5>2 DEF WithNew
        <5>4. QED
          BY <2>0, <5>1, <5>3
      <4>5. DOMAIN ByFullPath = DOMAIN cat.tables.map
            /\ DOMAIN ByFullPath' = DOMAIN cat.tables.map \cup {name}
        BY <2>0, <4>1 DEF WithNew
      <4>6. ByFullPath' = [n \in DOMAIN ByFullPath \cup {name} |->
                               IF n = name THEN spec ELSE ByFullPath[n]]
        BY <2>0, <3>3, <4>3, <4>4, <4>5
      <4>7. FirstSpecDictionary!Create(spec)
        BY <3>3, <4>5, <4>6 DEF FirstSpecDictionary!Create
      <4>8. QED
        BY <4>7 DEF FirstSpecDictionary!Next
    <3>4. QED
      BY <3>2, <3>3
  <2>4. ASSUME NEW spec \in FunctionSpecs, AddFunction(spec)
        PROVE  ByFullPath' = ByFullPath
    BY <1>2, <2>2, <2>4 DEF AddFunction, AddFunctionSpec, IInv
  <2>5. ASSUME NEW name, DeleteTable(name)
        PROVE  FirstSpecDictionary!Next
    <3>1. /\ name \in DOMAIN cat.tables.map /\ name \in Names(cat.tables.list)
          /\ cat'.tables = Rebuild(Without(cat.tables.list, name))
          /\ DOMAIN cat'.tables.map = DOMAIN cat.tables.map \ {name}
      BY <1>2, <2>5, TablesAfterDelete
    <3>2. ASSUME NEW n \in DOMAIN cat.tables.map \ {name}
          PROVE  ByFullPath'[n] = ByFullPath[n]
      <4>1. cat'.tables.map[n].path = path(n) /\ n \in DOMAIN cat'.tables.map
        BY <2>1, <3>1
      <4>2. /\ FullKey(path(n)) \in DOMAIN cat.tables.simple
            /\ SpecName(cat.tables.simple[FullKey(path(n))]) # name
        BY <1>2, FoundByFullPath
      <4>3. cat'.tables.simple[FullKey(path(n))] = cat.tables.simple[FullKey(path(n))]
        BY <1>2, <3>1, <4>2, WithoutKeepsKeys DEF IInv
      <4>4. QED
        BY <2>0, <4>1, <4>3
    <3>3. ByFullPath' = [n \in DOMAIN ByFullPath \ {name} |-> ByFullPath[n]]
          /\ name \in DOMAIN ByFullPath
      BY <2>0, <3>1, <3>2
    <3>4. FirstSpecDictionary!Drop(name) /\ name \in DOMAIN ByFullPath
      BY <3>3 DEF FirstSpecDictionary!Drop
    <3>5. QED
      BY <3>4 DEF FirstSpecDictionary!Next
  <2>6. ASSUME NEW name, DeleteFunction(name)
        PROVE  ByFullPath' = ByFullPath
    <3>1. cat'.tables = Rebuild(cat.tables.list)
      BY <2>6 DEF DeleteFunction, DeleteFunctionSpecByName
    <3>2. cat'.tables.simple = cat.tables.simple
      BY <1>2, <3>1, SimpleRebuilt DEF IInv
    <3>3. DOMAIN cat'.tables.map = DOMAIN cat.tables.map
      BY <1>2, <3>1 DEF Rebuild, IInv, Sound, Consistent
    <3>4. QED
      BY <2>2, <3>2, <3>3
  <2>7. CASE UNCHANGED cat
    BY <2>7 DEF ByFullPath
  <2>8. QED
    BY <1>2, <2>3, <2>4, <2>5, <2>6, <2>7 DEF Next
<1>3. IInv /\ IInv' /\ [Next]_cat => [FirstSpecDictionary!Next]_ByFullPath
  BY <1>2
<1>4. QED
  BY <1>1, <1>3, Inductive, PTL DEF Spec, ImplementsDictionary, FirstSpecDictionary!Spec
=============================================================================
