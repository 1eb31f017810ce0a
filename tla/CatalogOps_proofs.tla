--------------------------- MODULE CatalogOps_proofs ---------------------------
(***************************************************************************)
(* Lemmas about the operators of CatalogOps, which the proofs about every  *)
(* component that keeps a catalog rest on.  SpecName and Keys stay         *)
(* unexpanded: nothing depends on how names are joined or keys derived.    *)
(***************************************************************************)
EXTENDS CatalogOps, SequenceTheorems, WellFoundedInduction, TLAPS

(* A set of natural numbers that is not empty has a least element.         *)
LEMMA LeastNat ==
  ASSUME NEW T \in SUBSET Nat, T # {}
  PROVE  \E x \in T : \A y \in T : x <= y
<1> DEFINE R == OpToRel(<, Nat)
<1>1. IsWellFoundedOn(R, Nat)
  BY NatLessThanWellFounded
<1>2. \A i, j \in Nat : <<i, j>> \in R <=> i < j
  BY DEF OpToRel
<1> HIDE DEF R
<1>3. PICK x \in T : \A y \in T : ~ (<<y, x>> \in R)
  BY <1>1, WFMin
<1>4. \A y \in T : ~ (y < x)
  <2> TAKE y \in T
  <2>1. x \in Nat /\ y \in Nat
    OBVIOUS
  <2>2. QED
    BY <1>2, <1>3, <2>1
<1>5. x \in Nat /\ T \subseteq Nat
  OBVIOUS
<1>6. QED
  BY <1>4, <1>5, SMT

---------------------------------------------------------------------------
(* The spec of a list that is registered first under a key exists.         *)
LEMMA FirstIndexExists ==
  ASSUME NEW S, NEW list \in Seq(S), NEW key \in AllKeys(list)
  PROVE  /\ FirstIndexOfKey(list, key) \in DOMAIN list
         /\ key \in Keys(list[FirstIndexOfKey(list, key)])
         /\ \A j \in DOMAIN list :
                key \in Keys(list[j]) => FirstIndexOfKey(list, key) <= j
<1> DEFINE T == {i \in DOMAIN list : key \in Keys(list[i])}
<1>1. T \in SUBSET Nat /\ T # {}
  BY DEF AllKeys
<1>2. PICK i \in T : \A j \in T : i <= j
  BY <1>1, LeastNat
<1>3. QED
  BY <1>2, Zenon DEF FirstIndexOfKey

(* It is the only one with this description.                               *)
LEMMA FirstIndexUnique ==
  ASSUME NEW S, NEW list \in Seq(S), NEW key, NEW i \in DOMAIN list,
         key \in Keys(list[i]),
         \A j \in DOMAIN list : key \in Keys(list[j]) => i <= j
  PROVE  key \in AllKeys(list) /\ FirstIndexOfKey(list, key) = i
<1>1. key \in AllKeys(list)
  BY DEF AllKeys
<1> DEFINE f == FirstIndexOfKey(list, key)
<1>2. f \in DOMAIN list /\ f <= i /\ i <= f
  BY <1>1, FirstIndexExists
<1> HIDE DEF f
<1>3. i = f
  BY <1>2
<1>4. QED
  BY <1>1, <1>3 DEF f

(* A name of a list has an index.                                          *)
LEMMA IndexOfNameExists ==
  ASSUME NEW list, NEW name \in Names(list)
  PROVE  /\ IndexOfName(list, name) \in DOMAIN list
         /\ SpecName(list[IndexOfName(list, name)]) = name
BY Zenon DEF Names, IndexOfName

(* What removing the spec of a name from a list of distinct names leaves.  *)
LEMMA WithoutElements ==
  ASSUME NEW S, NEW list \in Seq(S), NEW name \in Names(list)
  PROVE  /\ Without(list, name) \in Seq(S)
         /\ Len(Without(list, name)) = Len(list) - 1
         /\ \A i \in 1..(Len(list) - 1) :
                Without(list, name)[i] =
                    IF i < IndexOfName(list, name) THEN list[i] ELSE list[i + 1]
<1> DEFINE p == IndexOfName(list, name)
<1>1. p \in 1..Len(list)
  BY IndexOfNameExists
<1>2. Without(list, name) = SubSeq(list, 1, p - 1) \o SubSeq(list, p + 1, Len(list))
  BY Zenon DEF Without, RemoveAt
<1> HIDE DEF p
<1>3. /\ SubSeq(list, 1, p - 1) \in Seq(S)
      /\ SubSeq(list, p + 1, Len(list)) \in Seq(S)
      /\ Len(SubSeq(list, 1, p - 1)) = p - 1
      /\ Len(SubSeq(list, p + 1, Len(list))) = Len(list) - p
  BY <1>1
<1> DEFINE a == SubSeq(list, 1, p - 1)
          b == SubSeq(list, p + 1, Len(list))
<1>4. /\ \A i \in 1..(p - 1) : a[i] = list[i]
      /\ \A i \in 1..(Len(list) - p) : b[i] = list[i + p]
  BY <1>1
<1> HIDE DEF a, b
<1>5. /\ a \o b \in Seq(S)
      /\ Len(a \o b) = Len(list) - 1
      /\ \A i \in 1..(Len(list) - 1) :
            (a \o b)[i] = IF i < p THEN list[i] ELSE list[i + 1]
  <2>1. a \in Seq(S) /\ b \in Seq(S) /\ Len(a) = p - 1 /\ Len(b) = Len(list) - p
    BY <1>3 DEF a, b
  <2>2. a \o b \in Seq(S) /\ Len(a \o b) = Len(list) - 1
    BY <1>1, <2>1
  <2>3. ASSUME NEW i \in 1..(Len(list) - 1)
        PROVE  (a \o b)[i] = IF i < p THEN list[i] ELSE list[i + 1]
    <3>1. (a \o b)[i] = IF i <= Len(a) THEN a[i] ELSE b[i - Len(a)]
      BY <1>1, <2>1
    <3>2. CASE i < p
      BY <1>1, <1>4, <2>1, <3>1, <3>2
    <3>3. CASE ~ (i < p)
      <4>1. i - (p - 1) \in 1..(Len(list) - p) /\ i - (p - 1) + p = i + 1
        BY <1>1, <3>3
      <4>2. b[i - (p - 1)] = list[i + 1]
        BY <1>4, <4>1
      <4>3. QED
        BY <1>1, <2>1, <3>1, <3>3, <4>2
    <3>4. QED
      BY <3>2, <3>3
  <2>4. QED
    BY <2>2, <2>3
<1>6. QED
  BY <1>2, <1>5 DEF p, a, b

(* Removing a spec keeps the names distinct and removes its name.          *)
LEMMA WithoutDistinct ==
  ASSUME NEW S, NEW list \in Seq(S), NEW name \in Names(list),
         NamesDistinct(list)
  PROVE  /\ NamesDistinct(Without(list, name))
         /\ name \notin Names(Without(list, name))
<1> DEFINE p == IndexOfName(list, name)
           w == Without(list, name)
           origin(i) == IF i < p THEN i ELSE i + 1
<1>1. p \in 1..Len(list) /\ SpecName(list[p]) = name
  BY IndexOfNameExists
<1>2. /\ DOMAIN w = 1..(Len(list) - 1)
      /\ \A i \in DOMAIN w : origin(i) \in DOMAIN list /\ origin(i) # p
      /\ \A i, j \in DOMAIN w : origin(i) = origin(j) => i = j
      /\ \A i \in DOMAIN w : w[i] = list[origin(i)]
  <2>1. w \in Seq(S) /\ DOMAIN w = 1..(Len(list) - 1)
    BY WithoutElements, <1>1
  <2>2. \A i \in DOMAIN w : w[i] = list[origin(i)]
    BY <2>1, WithoutElements, Zenon
  <2> HIDE DEF p, w
  <2>3. QED
    BY <1>1, <2>1, <2>2
<1> HIDE DEF p, w, origin
<1>3. QED
  BY <1>1, <1>2 DEF NamesDistinct, Names, w

(* It removes no other name.                                               *)
LEMMA WithoutNames ==
  ASSUME NEW S, NEW list \in Seq(S), NEW name \in Names(list),
         NamesDistinct(list)
  PROVE  Names(Without(list, name)) = Names(list) \ {name}
<1> DEFINE w == Without(list, name)
           p == IndexOfName(list, name)
<1>1. name \notin Names(w)
  BY WithoutDistinct
<1>2. p \in 1..Len(list) /\ SpecName(list[p]) = name
  BY IndexOfNameExists
<1>3. /\ w \in Seq(S) /\ Len(w) = Len(list) - 1
      /\ \A q \in 1..(Len(list) - 1) : w[q] = IF q < p THEN list[q] ELSE list[q + 1]
  BY WithoutElements, Zenon
<1> HIDE DEF w, p
<1>4. Names(w) \subseteq Names(list)
  <2>1. ASSUME NEW q \in DOMAIN w PROVE \E r \in DOMAIN list : w[q] = list[r]
    BY <1>2, <1>3
  <2>2. QED
    BY <2>1 DEF Names
<1>5. \A n \in Names(list) : n # name => n \in Names(w)
  <2> SUFFICES ASSUME NEW r \in DOMAIN list, SpecName(list[r]) # name
               PROVE  \E q \in DOMAIN w : w[q] = list[r]
    BY DEF Names
  <2>1. r # p /\ r \in 1..Len(list)
    BY <1>2
  <2>2. CASE r < p
    BY <1>2, <1>3, <2>1, <2>2
  <2>3. CASE r > p
    <3>1. r - 1 \in DOMAIN w /\ w[r - 1] = list[r]
      BY <1>2, <1>3, <2>1, <2>3
    <3>2. QED
      BY <3>1
  <2>4. QED
    BY <1>2, <2>1, <2>2, <2>3
<1>6. QED
  BY <1>1, <1>4, <1>5 DEF w

---------------------------------------------------------------------------
(* resetCatalog turns a list of distinct names into a consistent registry. *)
LEMMA RebuildConsistent ==
  ASSUME NEW S, NEW list \in Seq(S), NamesDistinct(list)
  PROVE  IsRegistry(Rebuild(list), S) /\ Consistent(Rebuild(list))
<1> DEFINE r == Rebuild(list)
<1>1. /\ DOMAIN r = {"list", "map", "simple"}
      /\ r.list = list
      /\ r.map = [n \in Names(list) |-> list[IndexOfName(list, n)]]
      /\ r.simple = [k \in AllKeys(list) |-> list[FirstIndexOfKey(list, k)]]
  BY DEF Rebuild
<1>2. \A n \in Names(list) :
          r.map[n] \in S /\ SpecName(r.map[n]) = n
  <2> TAKE n \in Names(list)
  <2>1. /\ IndexOfName(list, n) \in DOMAIN list
        /\ SpecName(list[IndexOfName(list, n)]) = n
    BY IndexOfNameExists
  <2>2. r.map[n] = list[IndexOfName(list, n)]
    BY <1>1
  <2> HIDE DEF r
  <2>3. QED
    BY <2>1, <2>2
<1>3. \A k \in AllKeys(list) : r.simple[k] \in S
  BY <1>1, FirstIndexExists
<1>4. DOMAIN r.map = Names(list) /\ DOMAIN r.simple = AllKeys(list)
  BY <1>1
<1> HIDE DEF r
<1>5. r.simple = Rebuild(r.list).simple
  BY <1>1 DEF Rebuild
<1>6. IsRegistry(r, S)
  BY <1>1, <1>2, <1>3, <1>4, Zenon DEF IsRegistry
<1>7. Consistent(r)
  BY <1>1, <1>2, <1>4, <1>5, Zenon DEF Consistent
<1>8. QED
  BY <1>6, <1>7 DEF r

(* Adding a spec keeps a registry consistent.                              *)
LEMMA AddSpecConsistent ==
  ASSUME NEW S, NEW reg, NEW spec \in S,
         IsRegistry(reg, S), Consistent(reg)
  PROVE  IsRegistry(AddSpec(reg, spec), S) /\ Consistent(AddSpec(reg, spec))
<1> DEFINE name == SpecName(spec)
           new  == AddSpec(reg, spec)
<1> USE DEF IsRegistry
<1>1. CASE name \in DOMAIN reg.map
  <2>1. /\ DOMAIN new = {"list", "map", "simple"}
        /\ new.list = reg.list /\ new.simple = reg.simple
        /\ new.map = [reg.map EXCEPT ![name] = spec]
    BY <1>1 DEF AddSpec
  <2>2. /\ DOMAIN new.map = DOMAIN reg.map
        /\ \A n \in DOMAIN new.map :
              new.map[n] \in S /\ (Consistent(reg) => SpecName(new.map[n]) = n)
    BY <1>1, <2>1 DEF Consistent
  <2> HIDE DEF new, name
  <2>3. IsRegistry(new, S)
    BY <2>1, <2>2
  <2>4. Consistent(new)
    BY <2>1, <2>2, Zenon DEF Consistent
  <2>5. QED
    BY <2>3, <2>4 DEF new
<1>2. CASE name \notin DOMAIN reg.map
  <2> DEFINE last == Len(reg.list) + 1
  <2>1. /\ DOMAIN new = {"list", "map", "simple"}
        /\ new.list = Append(reg.list, spec)
        /\ new.map = WithNew(reg.map, {name}, spec)
        /\ new.simple = WithNew(reg.simple, Keys(spec), spec)
    BY <1>2 DEF AddSpec
  <2>2. /\ new.list \in Seq(S) /\ DOMAIN new.list = 1..last
        /\ \A i \in DOMAIN reg.list : i \in DOMAIN new.list /\ new.list[i] = reg.list[i]
        /\ new.list[last] = spec
        /\ DOMAIN reg.list = 1..(last - 1) /\ last \in Nat \ {0}
    BY <2>1
  <2>3. /\ DOMAIN new.map = DOMAIN reg.map \cup {name}
        /\ \A n \in DOMAIN new.map :
              new.map[n] = IF n \in DOMAIN reg.map THEN reg.map[n] ELSE spec
    BY <2>1 DEF WithNew
  <2>4. /\ DOMAIN new.simple = DOMAIN reg.simple \cup Keys(spec)
        /\ \A k \in DOMAIN new.simple :
              new.simple[k] = IF k \in DOMAIN reg.simple THEN reg.simple[k] ELSE spec
        /\ new.simple = [k \in DOMAIN new.simple |-> new.simple[k]]
    BY <2>1 DEF WithNew
  <2> HIDE DEF new, last
  <2>5. Names(new.list) = Names(reg.list) \cup {name}
    BY <2>2 DEF Names
  <2>6. NamesDistinct(new.list)
    <3>1. \A i \in DOMAIN reg.list : SpecName(reg.list[i]) # name
      BY <1>2 DEF Consistent, Names
    <3>2. QED
      BY <2>2, <3>1 DEF Consistent, NamesDistinct
  <2>7. AllKeys(new.list) = AllKeys(reg.list) \cup Keys(spec)
    BY <2>2 DEF AllKeys
  <2>8. ASSUME NEW k \in AllKeys(new.list)
        PROVE  new.list[FirstIndexOfKey(new.list, k)] =
                   IF k \in AllKeys(reg.list)
                   THEN reg.list[FirstIndexOfKey(reg.list, k)] ELSE spec
    <3>1. CASE k \in AllKeys(reg.list)
      <4> DEFINE i == FirstIndexOfKey(reg.list, k)
      <4>1. /\ i \in DOMAIN reg.list /\ k \in Keys(reg.list[i])
            /\ \A j \in DOMAIN reg.list : k \in Keys(reg.list[j]) => i <= j
        BY <3>1, FirstIndexExists, Zenon
      <4> HIDE DEF i
      <4>2. /\ i \in DOMAIN new.list /\ k \in Keys(new.list[i])
            /\ \A j \in DOMAIN new.list : k \in Keys(new.list[j]) => i <= j
        BY <2>2, <4>1
      <4>3. FirstIndexOfKey(new.list, k) = i
        BY <2>2, <4>2, FirstIndexUnique
      <4>4. QED
        BY <2>2, <3>1, <4>1, <4>3 DEF i
    <3>2. CASE k \notin AllKeys(reg.list)
      <4>1. k \in Keys(spec)
        BY <2>7, <3>2
      <4>2. \A j \in DOMAIN reg.list : k \notin Keys(reg.list[j])
        BY <3>2 DEF AllKeys
      <4>3. /\ last \in DOMAIN new.list /\ k \in Keys(new.list[last])
            /\ \A j \in DOMAIN new.list : k \in Keys(new.list[j]) => last <= j
        BY <2>2, <4>1, <4>2
      <4>4. FirstIndexOfKey(new.list, k) = last
        BY <2>2, <4>3, FirstIndexUnique
      <4>5. QED
        BY <2>2, <3>2, <4>4
    <3>3. QED
      BY <3>1, <3>2
  <2>9. /\ DOMAIN reg.simple = AllKeys(reg.list)
        /\ \A k \in AllKeys(reg.list) :
              reg.simple[k] = reg.list[FirstIndexOfKey(reg.list, k)]
    <3>1. reg.simple = [k \in AllKeys(reg.list) |-> reg.list[FirstIndexOfKey(reg.list, k)]]
      BY DEF Consistent, Rebuild
    <3>2. QED
      BY <3>1
  <2>10. new.simple = Rebuild(new.list).simple
    <3>1. DOMAIN new.simple = AllKeys(new.list)
      BY <2>4, <2>7, <2>9
    <3>2. \A k \in AllKeys(new.list) :
              new.simple[k] = new.list[FirstIndexOfKey(new.list, k)]
      BY <2>4, <2>8, <2>9, <3>1
    <3>3. new.simple = [k \in AllKeys(new.list) |-> new.list[FirstIndexOfKey(new.list, k)]]
      BY <2>4, <3>1, <3>2
    <3>4. QED
      BY <3>3 DEF Rebuild
  <2>11. IsRegistry(new, S)
    <3>1. \A n \in DOMAIN new.map : new.map[n] \in S
      BY <2>3
    <3>2. \A k \in DOMAIN new.simple : new.simple[k] \in S
      BY <2>4
    <3>3. QED
      BY <2>1, <2>2, <3>1, <3>2, Zenon
  <2>12. Consistent(new)
    <3>1. DOMAIN new.map = Names(new.list)
      BY <2>3, <2>5 DEF Consistent
    <3>2. \A n \in DOMAIN new.map : SpecName(new.map[n]) = n
      BY <2>3 DEF Consistent
    <3>3. QED
      BY <2>6, <2>10, <3>1, <3>2, Zenon DEF Consistent
  <2>13. QED
    BY <2>11, <2>12 DEF new
<1>3. QED
  BY <1>1, <1>2

---------------------------------------------------------------------------
(* A registry is sound when it is typed and consistent over the specs it   *)
(* may hold.  Neither half is inductive alone: which specs the             *)
(* SimpleCatalog resolves to after a deletion follows from the list.       *)
Sound(reg, specs) == IsRegistry(reg, specs) /\ Consistent(reg)

(* Only the specs whose names it has matter for a registry.                *)
LEMMA SoundOver ==
  ASSUME NEW S, NEW T, NEW reg, Sound(reg, S),
         \A s \in S : SpecName(s) \in DOMAIN reg.map => s \in T
  PROVE  Sound(reg, T)
<1>1. /\ reg.list \in Seq(S) /\ DOMAIN reg.map = Names(reg.list)
      /\ reg.simple = Rebuild(reg.list).simple
  BY DEF Sound, IsRegistry, Consistent
<1>2. ASSUME NEW i \in DOMAIN reg.list PROVE reg.list[i] \in T
  BY <1>1 DEF Names
<1>3. reg.list \in Seq(T)
  BY <1>1, <1>2
<1>4. ASSUME NEW n \in DOMAIN reg.map PROVE reg.map[n] \in T
  BY DEF Sound, IsRegistry, Consistent
<1>5. ASSUME NEW k \in DOMAIN reg.simple PROVE reg.simple[k] \in T
  <2>1. k \in AllKeys(reg.list) /\ reg.simple[k] = reg.list[FirstIndexOfKey(reg.list, k)]
    BY <1>1 DEF Rebuild
  <2>2. FirstIndexOfKey(reg.list, k) \in DOMAIN reg.list
    BY <1>1, <2>1, FirstIndexExists
  <2>3. QED
    BY <1>2, <2>1, <2>2
<1>6. QED
  BY <1>3, <1>4, <1>5 DEF Sound, IsRegistry

(* Rebuilding a sound registry without one of its names, or unchanged,     *)
(* gives a sound registry.                                                 *)
LEMMA RebuildSound ==
  ASSUME NEW S, NEW reg, Sound(reg, S)
  PROVE  /\ Sound(Rebuild(reg.list), S)
         /\ \A name \in DOMAIN reg.map :
                /\ SpecName(reg.map[name]) = name
                /\ name \in Names(reg.list)
                /\ Sound(Rebuild(Without(reg.list, name)), S)
<1>1. reg.list \in Seq(S) /\ NamesDistinct(reg.list)
  BY DEF Sound, IsRegistry, Consistent
<1>2. Sound(Rebuild(reg.list), S)
  BY <1>1, RebuildConsistent DEF Sound
<1>3. ASSUME NEW name \in DOMAIN reg.map
      PROVE  /\ SpecName(reg.map[name]) = name
             /\ name \in Names(reg.list)
             /\ Sound(Rebuild(Without(reg.list, name)), S)
  <2>1. SpecName(reg.map[name]) = name /\ name \in Names(reg.list)
    BY DEF Sound, Consistent
  <2>2. Without(reg.list, name) \in Seq(S) /\ NamesDistinct(Without(reg.list, name))
    BY <1>1, <2>1, WithoutElements, WithoutDistinct
  <2>3. QED
    BY <2>1, <2>2, RebuildConsistent DEF Sound
<1>4. QED
  BY <1>2, <1>3

(* What addTableSpec and addFunctionSpec make of the map.                  *)
LEMMA AddSpecMap ==
  ASSUME NEW S, NEW reg, Sound(reg, S), NEW spec \in S
  PROVE  LET new == AddSpec(reg, spec)
         IN  /\ Sound(new, S)
             /\ DOMAIN new.map = DOMAIN reg.map \cup {SpecName(spec)}
             /\ \A n \in DOMAIN new.map :
                    new.map[n] = IF n = SpecName(spec) THEN spec ELSE reg.map[n]
<1> DEFINE new == AddSpec(reg, spec)
           name == SpecName(spec)
<1>1. Sound(new, S)
  BY AddSpecConsistent DEF Sound
<1>2. CASE name \in DOMAIN reg.map
  BY <1>1, <1>2 DEF AddSpec, Sound, IsRegistry
<1>3. CASE name \notin DOMAIN reg.map
  <2>1. new.map = WithNew(reg.map, {name}, spec)
    BY <1>3 DEF AddSpec
  <2> HIDE DEF new
  <2>2. /\ DOMAIN new.map = DOMAIN reg.map \cup {name}
        /\ \A n \in DOMAIN new.map : new.map[n] = IF n = name THEN spec ELSE reg.map[n]
    BY <1>3, <2>1 DEF WithNew
  <2>3. QED
    BY <1>1, <2>2 DEF new
<1>4. QED
  BY <1>2, <1>3

(* What resetCatalog makes of the map: the same names, without the one     *)
(* that was dropped.  The spec of a name may be an older one.              *)
LEMMA RebuildMap ==
  ASSUME NEW S, NEW reg, Sound(reg, S)
  PROVE  /\ Sound(Rebuild(reg.list), S)
         /\ DOMAIN Rebuild(reg.list).map = DOMAIN reg.map
         /\ \A name \in DOMAIN reg.map :
                LET new == Rebuild(Without(reg.list, SpecName(reg.map[name])))
                IN  Sound(new, S) /\ DOMAIN new.map = DOMAIN reg.map \ {name}
<1>1. reg.list \in Seq(S) /\ NamesDistinct(reg.list) /\ DOMAIN reg.map = Names(reg.list)
  BY DEF Sound, IsRegistry, Consistent
<1>2. Sound(Rebuild(reg.list), S) /\ DOMAIN Rebuild(reg.list).map = DOMAIN reg.map
  BY <1>1, RebuildSound DEF Rebuild
<1>3. ASSUME NEW name \in DOMAIN reg.map
      PROVE  LET new == Rebuild(Without(reg.list, SpecName(reg.map[name])))
             IN  Sound(new, S) /\ DOMAIN new.map = DOMAIN reg.map \ {name}
  <2>1. SpecName(reg.map[name]) = name /\ Sound(Rebuild(Without(reg.list, name)), S)
    BY RebuildSound
  <2>2. Names(Without(reg.list, name)) = Names(reg.list) \ {name}
    BY <1>1, WithoutNames
  <2>3. DOMAIN Rebuild(Without(reg.list, name)).map = Names(Without(reg.list, name))
    BY DEF Rebuild
  <2>4. QED
    BY <1>1, <2>1, <2>2, <2>3
<1>4. QED
  BY <1>2, <1>3

(* NewCatalog of a list of functions with distinct names.                  *)
LEMMA NewCatalogSound ==
  ASSUME NEW S, NEW T, NEW list \in Seq(T), NamesDistinct(list)
  PROVE  LET new == NewCatalog(list)
         IN  /\ DOMAIN new = {"tables", "functions"}
             /\ Sound(new.tables, S) /\ Sound(new.functions, T)
             /\ DOMAIN new.tables.map = {} /\ DOMAIN new.functions.map = Names(list)
<1>1. << >> \in Seq(S) /\ NamesDistinct(<< >>) /\ Names(<< >>) = {}
  <2>1. << >> \in Seq(S) /\ DOMAIN << >> = {}
    OBVIOUS
  <2>2. QED
    BY <2>1 DEF NamesDistinct, Names
<1>2. Sound(Rebuild(<< >>), S) /\ Sound(Rebuild(list), T)
  BY <1>1, RebuildConsistent DEF Sound
<1>3. DOMAIN Rebuild(<< >>).map = {} /\ DOMAIN Rebuild(list).map = Names(list)
  BY <1>1 DEF Rebuild
<1>4. QED
  BY <1>2, <1>3 DEF NewCatalog

(* Rebuilding without a name redirects no key of another object.           *)
LEMMA WithoutKeepsKeys ==
  ASSUME NEW S, NEW reg, Sound(reg, S), NEW name \in Names(reg.list),
         NEW k \in DOMAIN reg.simple, SpecName(reg.simple[k]) # name
  PROVE  LET simple == Rebuild(Without(reg.list, name)).simple
         IN  k \in DOMAIN simple /\ simple[k] = reg.simple[k]
<1> DEFINE list == reg.list
           w == Without(list, name)
           p == IndexOfName(list, name)
           i == FirstIndexOfKey(list, k)
           j == IF i < p THEN i ELSE i - 1
<1>1. list \in Seq(S) /\ k \in AllKeys(list) /\ reg.simple[k] = list[i]
  <2>1. reg.simple = [q \in AllKeys(list) |-> list[FirstIndexOfKey(list, q)]]
    BY DEF Sound, Consistent, Rebuild
  <2>2. QED
    BY <2>1 DEF Sound, IsRegistry
<1>2. /\ i \in 1..Len(list) /\ k \in Keys(list[i])
      /\ \A q \in DOMAIN list : k \in Keys(list[q]) => i <= q
  BY <1>1, FirstIndexExists
<1>3. p \in 1..Len(list) /\ SpecName(list[p]) = name
  BY <1>1, IndexOfNameExists
<1>4. i # p
  BY <1>1, <1>3
<1>5. /\ w \in Seq(S) /\ Len(w) = Len(list) - 1
      /\ \A q \in 1..(Len(list) - 1) : w[q] = IF q < p THEN list[q] ELSE list[q + 1]
  BY <1>1, WithoutElements, Zenon
<1> HIDE DEF w, p, i, list
<1>6. j \in DOMAIN w /\ w[j] = list[i]
  BY <1>2, <1>3, <1>4, <1>5
<1>7. \A q \in DOMAIN w : k \in Keys(w[q]) => j <= q
  <2> SUFFICES ASSUME NEW q \in DOMAIN w, k \in Keys(w[q]) PROVE j <= q
    OBVIOUS
  <2>1. CASE q < p
    BY <1>1, <1>2, <1>3, <1>4, <1>5, <2>1
  <2>2. CASE ~ (q < p)
    <3>1. q + 1 \in DOMAIN list /\ w[q] = list[q + 1]
      BY <1>1, <1>3, <1>5, <2>2
    <3>2. i <= q + 1
      BY <1>2, <3>1
    <3>3. QED
      BY <1>2, <1>3, <1>4, <1>5, <2>2, <3>2
  <2>3. QED
    BY <2>1, <2>2
<1> HIDE DEF j
<1>8. k \in AllKeys(w) /\ FirstIndexOfKey(w, k) = j
  BY <1>2, <1>5, <1>6, <1>7, FirstIndexUnique
<1>9. Rebuild(w).simple = [q \in AllKeys(w) |-> w[FirstIndexOfKey(w, q)]]
  BY DEF Rebuild
<1>10. QED
  BY <1>1, <1>6, <1>8, <1>9 DEF w, list

(* resetCatalog finds under every key what was found before.               *)
LEMMA SimpleRebuilt ==
  ASSUME NEW S, NEW reg, Sound(reg, S)
  PROVE  Rebuild(reg.list).simple = reg.simple
BY DEF Sound, Consistent

---------------------------------------------------------------------------
(* The largest element of a set of numbers is what Max chooses.            *)
LEMMA MaxIs ==
  ASSUME NEW T \in SUBSET Nat, NEW m \in T, \A x \in T : x <= m
  PROVE  Max(T) = m
<1>1. \A y \in T : m >= y
  OBVIOUS
<1>2. \A x \in T : (\A y \in T : x >= y) => x = m
  OBVIOUS
<1>3. QED
  BY <1>1, <1>2, Zenon DEF Max

(* FoldLeft is defined by a table of the results for every set of indices. *)
(* That there is such a table follows from a least counterexample: no      *)
(* index is the first one up to which there is none.                       *)
FoldsTo(table, base, list, indices) ==
    table = [s \in SUBSET indices |->
                IF s = {} THEN base ELSE AddSpec(table[s \ {Max(s)}], list[Max(s)])]

LEMMA FoldTable ==
  ASSUME NEW base, NEW seq, NEW m \in Nat
  PROVE  \E h : FoldsTo(h, base, seq, 1..m)
<1> DEFINE Step(h, s) == IF s = {} THEN base ELSE AddSpec(h[s \ {Max(s)}], seq[Max(s)])
           Table(k, h) == FoldsTo(h, base, seq, 1..k)
           T == {k \in Nat : ~ \E h : Table(k, h)}
<1> USE DEF FoldsTo
<1>1. T # {} => FALSE
  <2> SUFFICES ASSUME T # {} PROVE FALSE
    OBVIOUS
  <2>1. PICK k \in T : \A j \in T : k <= j
    BY LeastNat
  <2>2. k # 0
    <3> DEFINE h == [s \in SUBSET (1..0) |-> base]
    <3>1. \A s \in SUBSET (1..0) : s = {}
      OBVIOUS
    <3>2. Table(0, h)
      BY <3>1
    <3>3. QED
      BY <2>1, <3>2
  <2>3. k \in Nat /\ k - 1 \in Nat
    BY <2>2
  <2>4. PICK h : Table(k - 1, h)
    <3>1. k - 1 \notin T
      <4> HIDE DEF T
      <4>1. QED
        BY <2>1, <2>3
    <3>2. QED
      BY <2>3, <3>1, Zenon
  <2> DEFINE g == [s \in SUBSET (1..k) |->
                     IF k \in s THEN AddSpec(h[s \ {k}], seq[k]) ELSE h[s]]
  <2>5. ASSUME NEW s \in SUBSET (1..k) PROVE g[s] = Step(g, s)
    <3>1. CASE k \in s
      <4>1. Max(s) = k
        <5>1. s \in SUBSET Nat /\ \A x \in s : x <= k
          BY <2>3
        <5>2. QED
          BY <3>1, <5>1, MaxIs
      <4>2. s \ {k} \in SUBSET (1..k) /\ k \notin s \ {k} /\ s # {}
        BY <3>1
      <4>3. g[s \ {k}] = h[s \ {k}]
        BY <4>2
      <4>4. QED
        BY <3>1, <4>1, <4>2, <4>3
    <3>2. CASE k \notin s
      <4>1. s \in SUBSET (1..(k - 1)) /\ s \ {Max(s)} \in SUBSET (1..k) /\ k \notin s \ {Max(s)}
        <5>1. \A x \in s : x \in 1..(k - 1)
          BY <2>3, <3>2
        <5>2. QED
          BY <3>2, <5>1, Zenon
      <4>2. h[s] = Step(h, s)
        BY <2>4, <4>1
      <4>3. g[s \ {Max(s)}] = h[s \ {Max(s)}] /\ g[s] = h[s]
        BY <3>2, <4>1
      <4>4. QED
        BY <4>2, <4>3
    <3>3. QED
      BY <3>1, <3>2
  <2>6. Table(k, g)
    BY <2>5
  <2>7. QED
    BY <2>1, <2>6
<1>2. QED
  BY <1>1

(* AddAll adds the specs one after the other.                              *)
LEMMA FoldSteps ==
  ASSUME NEW S, NEW base, NEW list \in Seq(S)
  PROVE  \E h : /\ h[0] = base
                /\ \A k \in 1..Len(list) : h[k] = AddSpec(h[k - 1], list[k])
                /\ AddAll(base, list) = h[Len(list)]
<1> DEFINE table == CHOOSE t : FoldsTo(t, base, list, DOMAIN list)
<1>1. FoldsTo(table, base, list, DOMAIN list)
  <2>1. DOMAIN list = 1..Len(list) /\ Len(list) \in Nat
    OBVIOUS
  <2>2. QED
    BY <2>1, FoldTable, Zenon
<1>2. AddAll(base, list) = table[DOMAIN list]
  BY Zenon DEF AddAll, FoldLeft, MapThenFoldSet, FoldsTo
<1> HIDE DEF table
<1> USE DEF FoldsTo
<1> DEFINE h == [k \in 0..Len(list) |-> table[1..k]]
<1>3. h[0] = base
  BY <1>1
<1>4. ASSUME NEW k \in 1..Len(list) PROVE h[k] = AddSpec(h[k - 1], list[k])
  <2>1. DOMAIN list = 1..Len(list) /\ Len(list) \in Nat
    OBVIOUS
  <2>2. /\ 1..k \in SUBSET DOMAIN list /\ k \in 1..k
        /\ k - 1 \in 0..Len(list) /\ k \in 0..Len(list)
    BY <2>1
  <2>3. (1..k) \ {k} = 1..(k - 1)
    BY <2>1
  <2>4. Max(1..k) = k
    BY MaxIs
  <2>5. table[1..k] = AddSpec(table[(1..k) \ {Max(1..k)}], list[Max(1..k)])
    BY <1>1, <2>2
  <2>6. QED
    BY <2>2, <2>3, <2>4, <2>5
<1>5. AddAll(base, list) = h[Len(list)]
  BY <1>2
<1>6. QED
  BY <1>3, <1>4, <1>5

(* In a list of distinct names a name has one index.                       *)
LEMMA IndexOfNameUnique ==
  ASSUME NEW list, NamesDistinct(list), NEW i \in DOMAIN list
  PROVE  SpecName(list[i]) \in Names(list) /\ IndexOfName(list, SpecName(list[i])) = i
<1>1. SpecName(list[i]) \in Names(list)
  BY DEF Names
<1>2. QED
  BY <1>1, IndexOfNameExists DEF NamesDistinct

(* resetCatalog of no specs is the empty registry.                         *)
LEMMA RebuildEmpty == Rebuild(<< >>) = EmptyRegistry
<1>1. DOMAIN << >> = {}
  OBVIOUS
<1>2. Names(<< >>) = {} /\ AllKeys(<< >>) = {}
  BY <1>1 DEF Names, AllKeys
<1>3. [n \in {} |-> << >>[IndexOfName(<< >>, n)]] = << >>
  OBVIOUS
<1>4. [k \in {} |-> << >>[FirstIndexOfKey(<< >>, k)]] = << >>
  OBVIOUS
<1>5. QED
  BY <1>2, <1>3, <1>4 DEF Rebuild, EmptyRegistry

(* Adding a spec of a new name and rebuilding from the longer list agree.  *)
LEMMA RebuildAppend ==
  ASSUME NEW S, NEW list \in Seq(S), NEW spec \in S,
         NamesDistinct(list), SpecName(spec) \notin Names(list)
  PROVE  Rebuild(Append(list, spec)) = AddSpec(Rebuild(list), spec)
<1> DEFINE name == SpecName(spec)
           old  == Rebuild(list)
           new  == AddSpec(old, spec)
           longer == Append(list, spec)
<1>1. /\ old.list = list /\ DOMAIN old.map = Names(list)
      /\ IsRegistry(old, S) /\ Consistent(old)
      /\ \A n \in Names(list) : old.map[n] = list[IndexOfName(list, n)]
  BY RebuildConsistent DEF Rebuild
<1>2. IsRegistry(new, S) /\ Consistent(new)
  BY <1>1, AddSpecConsistent
<1>3. new = [list   |-> longer,
             map    |-> WithNew(old.map, {name}, spec),
             simple |-> new.simple]
  BY <1>1 DEF AddSpec
<1>4. new.list = longer /\ new.simple = Rebuild(longer).simple /\ NamesDistinct(longer)
  <2>1. new.list = longer
    BY <1>3
  <2> HIDE DEF new, longer
  <2>2. QED
    BY <1>2, <2>1 DEF Consistent
<1>5. longer \in Seq(S) /\ longer[Len(list) + 1] = spec
      /\ DOMAIN longer = 1..(Len(list) + 1) /\ DOMAIN list = 1..Len(list)
      /\ \A i \in DOMAIN list : i \in DOMAIN longer /\ longer[i] = list[i]
  OBVIOUS
<1>6. Names(longer) = Names(list) \cup {name}
  <2>1. DOMAIN longer = DOMAIN list \cup {Len(list) + 1}
    BY <1>5
  <2> HIDE DEF longer
  <2>2. QED
    BY <1>5, <2>1 DEF Names
<1>7. ASSUME NEW n \in Names(longer)
      PROVE  longer[IndexOfName(longer, n)] = IF n \in Names(list) THEN old.map[n] ELSE spec
  <2>1. CASE n \in Names(list)
    <3> DEFINE i == IndexOfName(list, n)
    <3>1. i \in DOMAIN list /\ SpecName(list[i]) = n
      BY <2>1, IndexOfNameExists
    <3>2. IndexOfName(longer, n) = i
      <4> HIDE DEF i, longer
      <4>1. QED
        BY <1>4, <1>5, <3>1, IndexOfNameUnique
    <3>3. QED
      BY <1>1, <1>5, <2>1, <3>1, <3>2
  <2>2. CASE n \notin Names(list)
    <3>1. n = name /\ Len(list) + 1 \in DOMAIN longer
      BY <1>5, <1>6, <2>2
    <3>2. IndexOfName(longer, n) = Len(list) + 1
      <4> HIDE DEF longer
      <4>1. QED
        BY <1>4, <1>5, <3>1, IndexOfNameUnique
    <3>3. QED
      BY <1>5, <2>2, <3>2
  <2>3. QED
    BY <2>1, <2>2
<1>8. Rebuild(longer).map = WithNew(old.map, {name}, spec)
  <2>1. Rebuild(longer).map = [n \in Names(longer) |-> longer[IndexOfName(longer, n)]]
    BY DEF Rebuild
  <2>2. QED
    BY <1>1, <1>6, <1>7, <2>1 DEF WithNew
<1>9. Rebuild(longer) = [list |-> longer, map |-> Rebuild(longer).map, simple |-> Rebuild(longer).simple]
  BY DEF Rebuild
<1>10. QED
  BY <1>3, <1>4, <1>8, <1>9

(* resetCatalog adds the specs of a list one by one to an empty registry.  *)
LEMMA RebuildIsFold ==
  ASSUME NEW S, NEW list \in Seq(S), NamesDistinct(list)
  PROVE  Rebuild(list) = AddAll(EmptyRegistry, list)
<1>1. PICK h : /\ h[0] = EmptyRegistry
               /\ \A k \in 1..Len(list) : h[k] = AddSpec(h[k - 1], list[k])
               /\ AddAll(EmptyRegistry, list) = h[Len(list)]
  BY FoldSteps
<1> DEFINE part(k) == SubSeq(list, 1, k)
           T == {k \in 0..Len(list) : h[k] # Rebuild(part(k))}
<1>2. T = {}
  <2> SUFFICES ASSUME T # {} PROVE FALSE
    OBVIOUS
  <2>1. PICK k \in T : \A j \in T : k <= j
    <3>1. T \in SUBSET Nat
      OBVIOUS
    <3>2. QED
      BY <3>1, LeastNat
  <2>2. k # 0
    <3>1. part(0) = << >>
      OBVIOUS
    <3>2. QED
      BY <1>1, <3>1, RebuildEmpty
  <2>3. k \in 1..Len(list) /\ k - 1 \in 0..Len(list)
    BY <2>2
  <2>4. h[k - 1] = Rebuild(part(k - 1))
    <3>1. k - 1 \notin T
      <4> HIDE DEF T
      <4>1. QED
        BY <2>1, <2>3
    <3>2. QED
      BY <2>3, <3>1
  <2>5. /\ part(k - 1) \in Seq(S) /\ list[k] \in S
        /\ part(k) = Append(part(k - 1), list[k])
        /\ DOMAIN part(k - 1) = 1..(k - 1)
        /\ \A i \in 1..(k - 1) : part(k - 1)[i] = list[i] /\ i \in DOMAIN list
    BY <2>3
  <2>6. NamesDistinct(part(k - 1)) /\ SpecName(list[k]) \notin Names(part(k - 1))
    <3> DEFINE p == part(k - 1)
    <3>1. DOMAIN p = 1..(k - 1) /\ k \in DOMAIN list
          /\ \A i \in 1..(k - 1) : p[i] = list[i] /\ i \in DOMAIN list
      BY <2>3, <2>5
    <3> HIDE DEF p
    <3>2. NamesDistinct(p)
      BY <3>1 DEF NamesDistinct
    <3>3. \A i \in DOMAIN p : SpecName(list[k]) # SpecName(p[i])
      BY <2>3, <3>1 DEF NamesDistinct
    <3>4. QED
      BY <3>2, <3>3 DEF Names, p
  <2>7. h[k] = Rebuild(part(k))
    <3> DEFINE p == part(k - 1)
    <3>1. p \in Seq(S) /\ NamesDistinct(p) /\ list[k] \in S /\ SpecName(list[k]) \notin Names(p)
      BY <2>5, <2>6
    <3>2. h[k] = AddSpec(Rebuild(p), list[k]) /\ part(k) = Append(p, list[k])
      BY <1>1, <2>3, <2>4, <2>5
    <3> HIDE DEF p, part
    <3>3. Rebuild(Append(p, list[k])) = AddSpec(Rebuild(p), list[k])
      BY <3>1, RebuildAppend
    <3>4. QED
      BY <3>2, <3>3
  <2>8. QED
    BY <2>7
<1>3. part(Len(list)) = list
  OBVIOUS
<1>4. h[Len(list)] = Rebuild(part(Len(list)))
  BY <1>2
<1>5. QED
  BY <1>1, <1>3, <1>4

---------------------------------------------------------------------------
(* The same for the loop that skips a name.                                *)
FiltersTo(n, table, base, list, indices) ==
    table = [s \in SUBSET indices |->
                IF s = {} THEN base ELSE KeepOther(n, table[s \ {Max(s)}], list[Max(s)])]

LEMMA FilterTable ==
  ASSUME NEW n, NEW base, NEW seq, NEW m \in Nat
  PROVE  \E h : FiltersTo(n, h, base, seq, 1..m)
<1> DEFINE Step(h, s) == IF s = {} THEN base ELSE KeepOther(n, h[s \ {Max(s)}], seq[Max(s)])
           Table(k, h) == FiltersTo(n, h, base, seq, 1..k)
           T == {k \in Nat : ~ \E h : Table(k, h)}
<1> USE DEF FiltersTo
<1>1. T # {} => FALSE
  <2> SUFFICES ASSUME T # {} PROVE FALSE
    OBVIOUS
  <2>1. PICK k \in T : \A j \in T : k <= j
    BY LeastNat
  <2>2. k # 0
    <3> DEFINE h == [s \in SUBSET (1..0) |-> base]
    <3>1. \A s \in SUBSET (1..0) : s = {}
      OBVIOUS
    <3>2. Table(0, h)
      BY <3>1
    <3>3. QED
      BY <2>1, <3>2
  <2>3. k \in Nat /\ k - 1 \in Nat
    BY <2>2
  <2>4. PICK h : Table(k - 1, h)
    <3>1. k - 1 \notin T
      <4> HIDE DEF T
      <4>1. QED
        BY <2>1, <2>3
    <3>2. QED
      BY <2>3, <3>1, Zenon
  <2> DEFINE g == [s \in SUBSET (1..k) |->
                     IF k \in s THEN KeepOther(n, h[s \ {k}], seq[k]) ELSE h[s]]
  <2>5. ASSUME NEW s \in SUBSET (1..k) PROVE g[s] = Step(g, s)
    <3>1. CASE k \in s
      <4>1. Max(s) = k
        <5>1. s \in SUBSET Nat /\ \A x \in s : x <= k
          BY <2>3
        <5>2. QED
          BY <3>1, <5>1, MaxIs
      <4>2. s \ {k} \in SUBSET (1..k) /\ k \notin s \ {k} /\ s # {}
        BY <3>1
      <4>3. g[s \ {k}] = h[s \ {k}]
        BY <4>2
      <4>4. QED
        BY <3>1, <4>1, <4>2, <4>3
    <3>2. CASE k \notin s
      <4>1. s \in SUBSET (1..(k - 1)) /\ s \ {Max(s)} \in SUBSET (1..k) /\ k \notin s \ {Max(s)}
        <5>1. \A x \in s : x \in 1..(k - 1)
          BY <2>3, <3>2
        <5>2. QED
          BY <3>2, <5>1, Zenon
      <4>2. h[s] = Step(h, s)
        BY <2>4, <4>1
      <4>3. g[s \ {Max(s)}] = h[s \ {Max(s)}] /\ g[s] = h[s]
        BY <3>2, <4>1
      <4>4. QED
        BY <4>2, <4>3
    <3>3. QED
      BY <3>1, <3>2
  <2>6. Table(k, g)
    BY <2>5
  <2>7. QED
    BY <2>1, <2>6
<1>2. QED
  BY <1>1

(* KeepOthers looks at the specs one after the other.                      *)
LEMMA FilterSteps ==
  ASSUME NEW n, NEW S, NEW base, NEW list \in Seq(S)
  PROVE  \E h : /\ h[0] = base
                /\ \A k \in 1..Len(list) : h[k] = KeepOther(n, h[k - 1], list[k])
                /\ KeepOthers(n, base, list) = h[Len(list)]
<1> DEFINE table == CHOOSE t : FiltersTo(n, t, base, list, DOMAIN list)
<1>1. FiltersTo(n, table, base, list, DOMAIN list)
  <2>1. DOMAIN list = 1..Len(list) /\ Len(list) \in Nat
    OBVIOUS
  <2>2. QED
    BY <2>1, FilterTable, Zenon
<1>2. KeepOthers(n, base, list) = table[DOMAIN list]
  BY Zenon DEF KeepOthers, FoldLeft, MapThenFoldSet, FiltersTo
<1> HIDE DEF table
<1> USE DEF FiltersTo
<1> DEFINE h == [k \in 0..Len(list) |-> table[1..k]]
<1>3. h[0] = base
  BY <1>1
<1>4. ASSUME NEW k \in 1..Len(list) PROVE h[k] = KeepOther(n, h[k - 1], list[k])
  <2>1. DOMAIN list = 1..Len(list) /\ Len(list) \in Nat
    OBVIOUS
  <2>2. /\ 1..k \in SUBSET DOMAIN list /\ k \in 1..k
        /\ k - 1 \in 0..Len(list) /\ k \in 0..Len(list)
    BY <2>1
  <2>3. (1..k) \ {k} = 1..(k - 1)
    BY <2>1
  <2>4. Max(1..k) = k
    BY MaxIs
  <2>5. table[1..k] = KeepOther(n, table[(1..k) \ {Max(1..k)}], list[Max(1..k)])
    BY <1>1, <2>2
  <2>6. QED
    BY <2>2, <2>3, <2>4, <2>5
<1>5. KeepOthers(n, base, list) = h[Len(list)]
  BY <1>2
<1>6. QED
  BY <1>3, <1>4, <1>5

(* Dropping the one spec of a name is skipping the name in a loop over the *)
(* list (delete...SpecByName).                                             *)
LEMMA WithoutIsFold ==
  ASSUME NEW S, NEW list \in Seq(S), NEW n \in Names(list), NamesDistinct(list)
  PROVE  Without(list, n) = KeepOthers(n, << >>, list)
<1> DEFINE p == IndexOfName(list, n)
           m == Len(list)
           part(k) == IF k < p THEN SubSeq(list, 1, k)
                      ELSE SubSeq(list, 1, p - 1) \o SubSeq(list, p + 1, k)
<1>1. PICK h : /\ h[0] = << >>
               /\ \A k \in 1..Len(list) : h[k] = KeepOther(n, h[k - 1], list[k])
               /\ KeepOthers(n, << >>, list) = h[Len(list)]
  BY FilterSteps
<1>2. p \in 1..m /\ SpecName(list[p]) = n /\ m \in Nat /\ DOMAIN list = 1..m
  BY IndexOfNameExists
<1>3. Without(list, n) = part(m)
  <2>1. Without(list, n) = SubSeq(list, 1, p - 1) \o SubSeq(list, p + 1, m)
    BY Zenon DEF Without, RemoveAt
  <2> HIDE DEF p, m
  <2>2. ~ (m < p)
    BY <1>2
  <2>3. QED
    BY <2>1, <2>2 DEF m
<1>4. ASSUME NEW k \in 1..m PROVE part(k) = KeepOther(n, part(k - 1), list[k])
  <2>1. SpecName(list[k]) = n <=> k = p
    BY <1>2 DEF NamesDistinct
  <2> HIDE DEF p
  <2>2. CASE k < p
    <3>1. SubSeq(list, 1, k) = Append(SubSeq(list, 1, k - 1), list[k])
      BY <1>2
    <3>2. QED
      BY <1>2, <2>1, <2>2, <3>1 DEF KeepOther
  <2>3. CASE k = p
    <3>1. part(k) = SubSeq(list, 1, p - 1)
      BY <1>2, <2>3
    <3>2. part(k - 1) = SubSeq(list, 1, p - 1)
      BY <1>2, <2>3
    <3>3. QED
      BY <2>1, <2>3, <3>1, <3>2 DEF KeepOther
  <2>4. CASE k > p
    <3> DEFINE a == SubSeq(list, 1, p - 1)
               b(i) == SubSeq(list, p + 1, i)
    <3>1. a \in Seq(S) /\ b(k - 1) \in Seq(S) /\ list[k] \in S
      BY <1>2, <2>4
    <3>2. b(k) = Append(b(k - 1), list[k])
      BY <1>2, <2>4
    <3>3. part(k) = a \o b(k) /\ part(k - 1) = a \o b(k - 1)
      BY <1>2, <2>4
    <3> HIDE DEF a, b
    <3>4. a \o Append(b(k - 1), list[k]) = Append(a \o b(k - 1), list[k])
      BY <3>1
    <3>5. KeepOther(n, part(k - 1), list[k]) = Append(part(k - 1), list[k])
      BY <1>2, <2>1, <2>4 DEF KeepOther
    <3>6. QED
      BY <3>2, <3>3, <3>4, <3>5
  <2>5. QED
    BY <1>2, <2>2, <2>3, <2>4
<1> DEFINE T == {k \in 0..m : h[k] # part(k)}
<1>5. T = {}
  <2> SUFFICES ASSUME T # {} PROVE FALSE
    OBVIOUS
  <2>1. PICK k \in T : \A j \in T : k <= j
    <3>1. T \in SUBSET Nat
      OBVIOUS
    <3>2. QED
      BY <3>1, LeastNat
  <2>2. k # 0
    <3>1. part(0) = << >>
      BY <1>2
    <3>2. QED
      BY <1>1, <3>1
  <2>3. k \in 1..m /\ k - 1 \in 0..m
    BY <1>2, <2>2
  <2>4. h[k - 1] = part(k - 1)
    <3>1. k - 1 \notin T
      <4> HIDE DEF T, m
      <4>1. QED
        BY <1>2, <2>1, <2>3
    <3>2. QED
      BY <2>3, <3>1
  <2>5. h[k] = part(k)
    BY <1>1, <1>4, <2>3, <2>4
  <2>6. QED
    BY <2>5
<1>6. h[m] = part(m)
  BY <1>2, <1>5
<1>7. QED
  BY <1>1, <1>3, <1>6

(* What that loop leaves of any list.                                      *)
LEMMA KeepOthersKeeps ==
  ASSUME NEW S, NEW list \in Seq(S), NEW n
  PROVE  /\ KeepOthers(n, << >>, list) \in Seq(S)
         /\ ToSet(KeepOthers(n, << >>, list)) = {s \in ToSet(list) : SpecName(s) # n}
<1>1. PICK h : /\ h[0] = << >>
               /\ \A k \in 1..Len(list) : h[k] = KeepOther(n, h[k - 1], list[k])
               /\ KeepOthers(n, << >>, list) = h[Len(list)]
  BY FilterSteps
<1> DEFINE m == Len(list)
           part(k) == {list[i] : i \in 1..k}
           Good(k) == h[k] \in Seq(S) /\ ToSet(h[k]) = {s \in part(k) : SpecName(s) # n}
           Bad == {k \in 0..m : ~ Good(k)}
<1>2. m \in Nat /\ DOMAIN list = 1..m
  OBVIOUS
<1>3. Bad = {}
  <2> SUFFICES ASSUME Bad # {} PROVE FALSE
    OBVIOUS
  <2>1. PICK k \in Bad : \A j \in Bad : k <= j
    <3>1. Bad \in SUBSET Nat
      BY <1>2
    <3>2. QED
      BY <3>1, LeastNat
  <2>2. k # 0
    <3>1. part(0) = {} /\ ToSet(<< >>) = {}
      BY DEF ToSet
    <3>2. Good(0)
      BY <1>1, <3>1
    <3>3. QED
      BY <3>2
  <2>3. k \in 1..m /\ k - 1 \in 0..m
    BY <1>2, <2>2
  <2>4. Good(k - 1)
    <3>1. k - 1 \notin Bad
      <4> HIDE DEF Bad
      <4>1. QED
        BY <1>2, <2>1, <2>3
    <3>2. QED
      BY <2>3, <3>1
  <2>5. part(k) = part(k - 1) \cup {list[k]} /\ list[k] \in S
    <3>1. 1..k = (1..(k - 1)) \cup {k}
      BY <1>2, <2>3
    <3>2. QED
      BY <1>2, <2>3, <3>1
  <2>6. h[k] = KeepOther(n, h[k - 1], list[k])
    BY <1>1, <2>3
  <2> DEFINE old == h[k - 1]
  <2>7. old \in Seq(S) /\ ToSet(old) = {s \in part(k - 1) : SpecName(s) # n}
    BY <2>4
  <2> HIDE DEF old, part
  <2>8. ToSet(Append(old, list[k])) = ToSet(old) \cup {list[k]}
    <3>1. DOMAIN Append(old, list[k]) = DOMAIN old \cup {Len(old) + 1}
      BY <2>5, <2>7
    <3>2. \A i \in DOMAIN old : Append(old, list[k])[i] = old[i]
      BY <2>5, <2>7
    <3>3. Append(old, list[k])[Len(old) + 1] = list[k]
      BY <2>5, <2>7
    <3>4. QED
      BY <3>1, <3>2, <3>3 DEF ToSet
  <2>9. h[k] \in Seq(S) /\ ToSet(h[k]) = {s \in part(k) : SpecName(s) # n}
    BY <2>5, <2>6, <2>7, <2>8 DEF KeepOther, old
  <2>10. QED
    BY <2>9 DEF part
<1>4. Good(m)
  <2>1. m \in 0..m
    BY <1>2
  <2> HIDE DEF Good, m
  <2>2. QED
    BY <1>3, <2>1
<1>5. part(m) = ToSet(list)
  BY <1>2 DEF ToSet
<1>6. QED
  BY <1>1, <1>4, <1>5
=============================================================================
