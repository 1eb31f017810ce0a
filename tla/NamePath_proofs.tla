---------------------------- MODULE NamePath_proofs ----------------------------
(***************************************************************************)
(* Proofs about NamePath: what completing a name does, for every name      *)
(* path, limit and name.                                                   *)
(***************************************************************************)
EXTENDS NamePath, WellFoundedInduction, TLAPS

(* A set of natural numbers that is not empty has a least element.         *)
LEMMA LeastNat ==
  ASSUME NEW T \in SUBSET Nat, T # {}
  PROVE  \E x \in T : \A y \in T : x <= y
<1> DEFINE R == OpToRel(<, Nat)
<1>1. IsWellFoundedOn(R, Nat)
  BY NatLessThanWellFounded
<1>2. \A i, j \in Nat : <<i, j>> \in R <=> i < j
  BY DEF OpToRel
<1> HIDE DEF R
<1>3. PICK x \in T : \A y \in T : ~ (<<y, x>> \in R)
  BY <1>1, WFMin
<1>4. \A y \in T : ~ (y < x)
  <2> TAKE y \in T
  <2>1. x \in Nat /\ y \in Nat
    OBVIOUS
  <2>2. QED
    BY <1>2, <1>3, <2>1
<1>5. x \in Nat /\ T \subseteq Nat
  OBVIOUS
<1>6. QED
  BY <1>4, <1>5, SMT

---------------------------------------------------------------------------
(* Flattening: the partial results of FlattenSeq exist for every length.   *)
Flattens(seqs, n, f) ==
  f = [i \in 1..n |-> IF i = 1 THEN seqs[i] ELSE f[i - 1] \o seqs[i]]

LEMMA FlattensExists ==
  ASSUME NEW seqs, NEW n \in Nat
  PROVE  \E f : Flattens(seqs, n, f)
<1> DEFINE Bad == {m \in Nat : ~ \E f : Flattens(seqs, m, f)}
<1>1. SUFFICES ASSUME Bad # {} PROVE FALSE
  OBVIOUS
<1>2. PICK m \in Bad : \A k \in Bad : m <= k
  <2>1. Bad \in SUBSET Nat
    OBVIOUS
  <2> HIDE DEF Bad
  <2>2. QED
    BY <1>1, <2>1, LeastNat
<1>3. m # 0
  <2>1. SUFFICES ASSUME m = 0 PROVE FALSE
    OBVIOUS
  <2>2. Flattens(seqs, 0, [i \in {} |-> i])
    BY SMT DEF Flattens
  <2>3. QED
    BY <2>1, <2>2
<1>4. m - 1 \in Nat /\ m - 1 \notin Bad
  <2>1. m \in Nat
    OBVIOUS
  <2> HIDE DEF Bad
  <2>2. QED
    BY <1>2, <1>3, <2>1
<1>5. PICK f : Flattens(seqs, m - 1, f)
  BY <1>4
<1> DEFINE g == [i \in 1..m |-> IF i = 1 THEN seqs[i] ELSE f[i - 1] \o seqs[i]]
<1>6. \A i \in 1..(m - 1) : g[i] = f[i]
  <2> TAKE i \in 1..(m - 1)
  <2>1. f[i] = IF i = 1 THEN seqs[i] ELSE f[i - 1] \o seqs[i]
    BY <1>5 DEF Flattens
  <2>2. i \in 1..m
    BY <1>4
  <2>3. QED
    BY <2>1, <2>2
<1>7. g = [i \in 1..m |-> IF i = 1 THEN seqs[i] ELSE g[i - 1] \o seqs[i]]
  <2>1. \A i \in 1..m : i # 1 => g[i - 1] = f[i - 1]
    <3> TAKE i \in 1..m
    <3>1. i # 1 => i - 1 \in 1..(m - 1)
      BY <1>4
    <3>2. QED
      BY <1>6, <3>1
  <2> HIDE DEF g
  <2>2. g = [i \in 1..m |-> IF i = 1 THEN seqs[i] ELSE f[i - 1] \o seqs[i]]
    BY DEF g
  <2>3. QED
    BY <2>1, <2>2
<1>8. Flattens(seqs, m, g)
  BY <1>7 DEF Flattens
<1>9. QED
  BY <1>8

(* A sequence of paths flattens to a path.                                 *)
LEMMA FlattenType ==
  ASSUME NEW S, NEW seqs \in Seq(Seq(S))
  PROVE  FlattenSeq(seqs) \in Seq(S)
<1> DEFINE n == Len(seqs)
<1>1. CASE n = 0
  BY <1>1 DEF FlattenSeq
<1>2. CASE n # 0
  <2> DEFINE flatten == CHOOSE f : Flattens(seqs, n, f)
  <2>1. n \in Nat /\ \A i \in 1..n : seqs[i] \in Seq(S)
    OBVIOUS
  <2>2. Flattens(seqs, n, flatten)
    BY <2>1, FlattensExists
  <2>3. FlattenSeq(seqs) = flatten[n]
    BY <1>2 DEF FlattenSeq, Flattens
  <2> HIDE DEF flatten, n
  <2> DEFINE Bad == {i \in 1..n : flatten[i] \notin Seq(S)}
  <2>4. Bad = {}
    <3>1. SUFFICES ASSUME Bad # {} PROVE FALSE
      OBVIOUS
    <3>2. PICK i \in Bad : \A k \in Bad : i <= k
      <4>1. Bad \in SUBSET Nat
        BY <2>1
      <4> HIDE DEF Bad
      <4>2. QED
        BY <3>1, <4>1, LeastNat
    <3>3. flatten[i] = IF i = 1 THEN seqs[i] ELSE flatten[i - 1] \o seqs[i]
      BY <2>2 DEF Flattens
    <3>4. i # 1 => flatten[i - 1] \in Seq(S)
      BY <2>1, <3>2
    <3>5. i \in 1..n /\ seqs[i] \in Seq(S) /\ flatten[i] \notin Seq(S)
      BY <2>1, <3>2
    <3>6. CASE i = 1
      BY <3>3, <3>5, <3>6
    <3>7. CASE i # 1
      <4>1. flatten[i] = flatten[i - 1] \o seqs[i]
        BY <3>3, <3>7
      <4> HIDE DEF Bad
      <4>2. QED
        BY <3>4, <3>5, <3>7, <4>1
    <3>8. QED
      BY <3>6, <3>7
  <2>5. QED
    BY <1>2, <2>1, <2>3, <2>4
<1>3. QED
  BY <1>1, <1>2

---------------------------------------------------------------------------
(* mergePath takes identifiers of the name path up to the first at which   *)
(* its loop stops.                                                         *)
LEMMA TakenExists ==
  ASSUME NEW S, NEW base \in Seq(S), NEW ids, NEW limit
  PROVE  LET k == Taken(base, ids, limit)
         IN  /\ k \in 0..Len(base)
             /\ \A i \in 1..k : ~ Stops(base, ids, limit, i)
             /\ k < Len(base) => Stops(base, ids, limit, k + 1)
<1> DEFINE T == {k \in 0..Len(base) : k = Len(base) \/ Stops(base, ids, limit, k + 1)}
<1>1. Len(base) \in Nat
  OBVIOUS
<1>2. T \in SUBSET Nat /\ T # {}
  <2>1. Len(base) \in T
    BY <1>1
  <2>2. QED
    BY <1>1, <2>1
<1>3. PICK k \in T : \A j \in T : k <= j
  <2> HIDE DEF T
  <2>1. QED
    BY <1>2, LeastNat
<1>4. k \in 0..Len(base) /\ (k < Len(base) => Stops(base, ids, limit, k + 1))
  BY <1>1
<1>5. \A i \in 1..k : ~ Stops(base, ids, limit, i)
  <2> TAKE i \in 1..k
  <2>1. SUFFICES ASSUME Stops(base, ids, limit, i) PROVE FALSE
    OBVIOUS
  <2>2. i - 1 \in 0..Len(base) /\ (i - 1) + 1 = i /\ i - 1 < k
    BY <1>1, <1>4
  <2>3. i - 1 \in T
    BY <2>1, <2>2
  <2>4. k <= i - 1
    BY <1>3, <2>3
  <2>5. QED
    BY <1>1, <1>4, <2>2, <2>4
<1>6. QED
  BY <1>4, <1>5 DEF Taken

(* Nothing is taken for a path that starts like the name path.             *)
LEMMA NothingTaken ==
  ASSUME NEW S, NEW base \in Seq(S), NEW ids, NEW limit,
         base # <<>> => ids[1] = base[1]
  PROVE  Taken(base, ids, limit) = 0
<1> DEFINE k == Taken(base, ids, limit)
<1>1. k \in 0..Len(base) /\ \A i \in 1..k : ~ Stops(base, ids, limit, i)
  BY TakenExists
<1>2. base # <<>> => Stops(base, ids, limit, 1)
  BY DEF Stops
<1>3. Len(base) \in Nat /\ (base = <<>> => Len(base) = 0)
  OBVIOUS
<1> HIDE DEF k
<1>4. k = 0
  BY <1>1, <1>2, <1>3
<1>5. QED
  BY <1>4 DEF k

(* A path for which nothing is taken is complete.                          *)
LEMMA CompleteAsGiven ==
  ASSUME NEW S, NEW base \in Seq(S), NEW max, NEW ids \in Seq(S), ids # <<>>,
         Taken(base, ids, Limit(max, ids)) = 0
  PROVE  Merge(base, max, ids) = ids
<1>1. SubSeq(base, 1, 0) \o ids = ids
  OBVIOUS
<1>2. QED
  BY <1>1 DEF Merge

(* mergePath is idempotent, for every name path, limit and name: what is   *)
(* complete is left alone (name_path.go:53-73).                            *)
LEMMA MergeTwice ==
  ASSUME NEW S, NEW base \in Seq(S), NEW max, NEW ids \in Seq(S)
  PROVE  Merge(base, max, Merge(base, max, ids)) = Merge(base, max, ids)
<1> DEFINE limit == Limit(max, ids)
           k == Taken(base, ids, limit)
           merged == Merge(base, max, ids)
<1>1. CASE limit > 0 /\ Len(ids) = limit
  BY <1>1 DEF Merge
<1>2. CASE ~ (limit > 0 /\ Len(ids) = limit) /\ ids = <<>>
  <2>1. merged = base
    BY <1>2 DEF Merge
  <2>2. CASE base = <<>>
    BY <1>2, <2>1, <2>2
  <2>3. CASE base # <<>>
    <3>1. Taken(base, base, Limit(max, base)) = 0
      BY NothingTaken
    <3>2. QED
      BY <2>1, <2>3, <3>1, CompleteAsGiven
  <2>4. QED
    BY <2>2, <2>3
<1>3. CASE ~ (limit > 0 /\ Len(ids) = limit) /\ ids # <<>>
  <2>1. merged = SubSeq(base, 1, k) \o ids
    BY <1>3 DEF Merge
  <2>2. k \in 0..Len(base)
    BY TakenExists
  <2>3. CASE k = 0
    <3>1. merged = ids
      BY <1>3, <2>3, CompleteAsGiven
    <3>2. QED
      BY <3>1
  <2>4. CASE k # 0
    <3> HIDE DEF k, limit, merged
    <3>1. merged \in Seq(S) /\ merged # <<>> /\ merged[1] = base[1]
      <4>1. SubSeq(base, 1, k) \in Seq(S) /\ Len(SubSeq(base, 1, k)) = k
            /\ SubSeq(base, 1, k)[1] = base[1]
        BY <2>2, <2>4
      <4>2. QED
        BY <2>1, <2>2, <2>4, <4>1
    <3>2. Taken(base, merged, Limit(max, merged)) = 0
      BY <3>1, NothingTaken
    <3>3. Merge(base, max, merged) = merged
      BY <3>1, <3>2, CompleteAsGiven
    <3>4. QED
      BY <3>3 DEF merged
  <2>5. QED
    BY <2>3, <2>4
<1>4. QED
  BY <1>1, <1>2, <1>3

(* Completing a name that has room leaves it within the limit, for every   *)
(* name path (name_path.go:67-69).                                         *)
LEMMA MergeKeepsLimit ==
  ASSUME NEW S, NEW base \in Seq(S), NEW max \in Nat, NEW ids \in Seq(S),
         ids # <<>>, max > 0, Len(ids) <= Limit(max, ids)
  PROVE  Len(Merge(base, max, ids)) <= Limit(max, ids)
<1> DEFINE limit == Limit(max, ids)
           k == Taken(base, ids, limit)
<1>1. limit \in Nat /\ limit > 0
  BY DEF Limit
<1>2. CASE Len(ids) = limit
  BY <1>1, <1>2 DEF Merge
<1>3. CASE Len(ids) # limit
  <2>1. Merge(base, max, ids) = SubSeq(base, 1, k) \o ids
    BY <1>3 DEF Merge
  <2>2. k \in 0..Len(base) /\ \A i \in 1..k : ~ Stops(base, ids, limit, i)
    BY TakenExists
  <2>3. Len(ids) \in Nat /\ Len(ids) < limit
    BY <1>1, <1>3
  <2> HIDE DEF k, limit
  <2>4. Len(SubSeq(base, 1, k) \o ids) = k + Len(ids)
    BY <2>2
  <2>5. k # 0 => (k - 1) + Len(ids) < limit
    BY <1>1, <2>2, <2>3 DEF Stops
  <2>6. k + Len(ids) <= limit
    BY <1>1, <2>2, <2>3, <2>5
  <2>7. QED
    BY <2>1, <2>4, <2>6 DEF limit
<1>4. QED
  BY <1>2, <1>3

LEMMA FunctionIsSeq ==
  ASSUME NEW S, NEW m \in Nat, NEW f \in [1..m -> S]
  PROVE  f \in Seq(S) /\ Len(f) = m
OBVIOUS

(* The suffixes of a full name all complete to it.                         *)
LEMMA SuffixCompletes ==
  ASSUME NEW S, NEW base \in Seq(S), NEW name \in S, NEW max \in Nat,
         NEW i \in 1..(Len(base) + 1),
         IsInjective(base \o <<name>>),
         ~ IsInformationSchema(base \o <<name>>),
         max = 0 \/ max >= Len(base) + 1
  PROVE  Merge(base, max, SubSeq(base \o <<name>>, i, Len(base) + 1)) = base \o <<name>>
<1> DEFINE full == base \o <<name>>
           n == Len(base) + 1
           ids == SubSeq(full, i, n)
<1>1. /\ n \in Nat /\ full \in Seq(S) /\ Len(full) = n
      /\ \A j \in 1..Len(base) : full[j] = base[j]
  OBVIOUS
<1>2. /\ ids \in Seq(S) /\ ids # <<>> /\ Len(ids) = n - i + 1
      /\ \A j \in 1..Len(ids) : ids[j] = full[i + j - 1]
  <2> HIDE DEF full, n
  <2>1. i \in 1..n
    BY DEF n
  <2>2. i \in Nat /\ i >= 1 /\ i <= n /\ n \in Nat
    BY <1>1, <2>1
  <2>3. ids = [j \in 1..(n - i + 1) |-> full[i + j - 1]]
    BY <1>1, <2>2
  <2>4. \A j \in 1..(n - i + 1) : i + j - 1 \in 1..Len(full) /\ full[i + j - 1] \in S
    BY <1>1, <2>2
  <2> HIDE DEF ids
  <2>5. ids \in Seq(S) /\ Len(ids) = n - i + 1
    <3>1. n - i + 1 \in Nat
      BY <2>2
    <3>2. \A j \in 1..(n - i + 1) : full[i + j - 1] \in S
      BY <2>4
    <3>3. ids \in [1..(n - i + 1) -> S]
      BY <2>3, <3>2
    <3>4. QED
      BY <3>1, <3>3, FunctionIsSeq
  <2>6. QED
    BY <2>2, <2>3, <2>5
<1>3. ~ IsInformationSchema(ids)
  <2> HIDE DEF ids, full
  <2>1. SUFFICES ASSUME NEW j \in 1..(Len(ids) - 1), ids[j] \in InformationSchema
                 PROVE  \E m \in 1..(n - 1) : full[m] \in InformationSchema
    BY <1>1 DEF IsInformationSchema, full
  <2>2. i + j - 1 \in 1..(n - 1) /\ j \in 1..Len(ids)
    BY <1>1, <1>2
  <2>3. QED
    BY <1>2, <2>1, <2>2
<1>4. Limit(max, ids) = max
  BY <1>3 DEF Limit
<1>5. CASE max > 0 /\ Len(ids) = max
  <2>1. i = 1
    BY <1>1, <1>2, <1>5
  <2>2. ids = full
    <3> HIDE DEF full
    <3>1. QED
      BY <1>1, <2>1
  <2>3. QED
    BY <1>4, <1>5, <2>2 DEF Merge
<1>6. CASE ~ (max > 0 /\ Len(ids) = max)
  <2> DEFINE k == Taken(base, ids, max)
  <2>1. Merge(base, max, ids) = SubSeq(base, 1, k) \o ids
    BY <1>2, <1>4, <1>6 DEF Merge
  <2>2. /\ k \in 0..Len(base) /\ (\A j \in 1..k : ~ Stops(base, ids, max, j))
        /\ (k < Len(base) => Stops(base, ids, max, k + 1))
    BY TakenExists
  <2> HIDE DEF k, ids
  <2>3. ids[1] = full[i]
    BY <1>1, <1>2
  <2>4. \A j \in 1..(i - 1) : ~ Stops(base, ids, max, j)
    <3> TAKE j \in 1..(i - 1)
    <3>1. ids[1] # base[j]
      <4>1. i \in DOMAIN full /\ j \in DOMAIN full /\ i # j
        BY <1>1
      <4>2. full[i] # full[j]
        BY <4>1 DEF IsInjective
      <4>3. j \in 1..Len(base)
        OBVIOUS
      <4>4. full[j] = base[j]
        BY <1>1, <4>3
      <4>5. QED
        BY <2>3, <4>2, <4>4
    <3>2. ~ (max > 0 /\ (j - 1) + Len(ids) >= max)
      BY <1>1, <1>2
    <3>3. QED
      BY <3>1, <3>2 DEF Stops
  <2>5. i <= Len(base) => Stops(base, ids, max, i)
    BY <1>1, <2>3 DEF Stops
  <2>6. k = i - 1
    BY <2>2, <2>4, <2>5
  <2>7. SubSeq(base, 1, i - 1) \o SubSeq(full, i, n) = full
    OBVIOUS
  <2>8. QED
    BY <2>1, <2>6, <2>7 DEF ids
<1>7. QED
  BY <1>5, <1>6

---------------------------------------------------------------------------
LEMMA BoundedSeqs ==
  ASSUME NEW S, NEW n \in Int
  PROVE  BoundedSeq(S, n) \subseteq Seq(S)
BY DEF BoundedSeq, SeqOf

(* Types: whatever calls set the path and the limit, the path is one of    *)
(* identifiers and the limit is not negative (name_path.go:26-30, 83-107). *)
THEOREM NamePathType == Spec => []TypeOK
<1>1. Init => TypeOK
  BY DEF Init, TypeOK
<1>2. TypeOK /\ [Next]_<<path, maxNum>> => TypeOK'
  <2> SUFFICES ASSUME TypeOK, [Next]_<<path, maxNum>> PROVE TypeOK'
    OBVIOUS
  <2> USE DEF TypeOK
  <2>1. \A max \in Int : Strings(max) \subseteq Seq(Words)
    BY BoundedSeqs DEF Strings
  <2>2. MaxLen \in Int /\ MaxLen - 1 \in Int /\ MaxLen - Len(path) \in Int
    BY ConstantsType
  <2>3. ASSUME NEW num \in -1..(MaxLen + 1), SetMaxNum(num) PROVE TypeOK'
    BY <2>2, <2>3 DEF SetMaxNum
  <2>4. ASSUME NEW given \in Given, SetPath(given) PROVE TypeOK'
    <3>1. Strings(MaxLen) \subseteq Seq(Words) /\ Strings(MaxLen - 1) \subseteq Seq(Words)
      BY <2>1, <2>2
    <3>2. given \in Seq(Seq(Words))
      <4>1. CASE given = <<>>
        BY <4>1
      <4>2. ASSUME NEW ids \in Strings(MaxLen), given = <<ids>>
            PROVE  given \in Seq(Seq(Words))
        BY <3>1, <4>2
      <4>3. ASSUME NEW w \in Words, NEW ids \in Strings(MaxLen - 1), given = << <<w>>, ids>>
            PROVE  given \in Seq(Seq(Words))
        <5>1. <<w>> \in Seq(Words) /\ ids \in Seq(Words)
          BY <3>1
        <5>2. QED
          BY <4>3, <5>1
      <4>4. QED
        BY <4>1, <4>2, <4>3 DEF Given
    <3>3. QED
      BY <2>4, <3>2, FlattenType DEF SetPath, Normalize
  <2>5. ASSUME NEW ids \in Strings(MaxLen - Len(path)), AddPath(ids) PROVE TypeOK'
    BY <2>1, <2>2, <2>5 DEF AddPath
  <2>6. CASE UNCHANGED <<path, maxNum>>
    BY <2>6
  <2>7. QED
    BY <2>3, <2>4, <2>5, <2>6 DEF Next
<1>3. QED
  BY <1>1, <1>2, PTL DEF Spec

(* A name that was completed once is not completed again, whatever the     *)
(* connection's name path and limit (name_path.go:53-73).                  *)
THEOREM NamesCompletedOnce == Spec => []MergeIdempotent
<1>1. TypeOK => MergeIdempotent
  <2> SUFFICES ASSUME TypeOK, NEW ids \in Queries
               PROVE  Merged(Merged(ids)) = Merged(ids)
    BY DEF MergeIdempotent
  <2>1. ids \in Seq(Words) /\ path \in Seq(Words)
    BY BoundedSeqs, ConstantsType DEF Queries, TypeOK
  <2>2. QED
    BY <2>1, MergeTwice DEF Merged
<1>2. QED
  BY <1>1, NamePathType, PTL

(* Completing a name never makes it longer than the limit                  *)
(* (name_path.go:67-69).                                                   *)
THEOREM NamesWithinLimit == Spec => []MergeWithinLimit
<1>1. TypeOK => MergeWithinLimit
  <2> SUFFICES ASSUME TypeOK, NEW ids \in Queries \ {<<>>}, maxNum > 0,
                      Len(ids) <= Limit(maxNum, ids)
               PROVE  Len(Merged(ids)) <= Limit(maxNum, ids)
    BY DEF MergeWithinLimit
  <2>1. ids \in Seq(Words) /\ path \in Seq(Words) /\ maxNum \in Nat
    BY BoundedSeqs, ConstantsType DEF Queries, TypeOK
  <2>2. QED
    BY <2>1, MergeKeepsLimit DEF Merged
<1>2. QED
  BY <1>1, NamePathType, PTL

(* The spellings of a name that leave out identifiers of the name path are *)
(* one name (name_path.go:63-72).                                          *)
THEOREM SpellingsAreOne == Spec => []SpellingsAgree
<1>1. TypeOK => SpellingsAgree
  <2> SUFFICES ASSUME TypeOK, NEW name \in Words,
                      IsInjective(FullName(name)),
                      ~ IsInformationSchema(FullName(name)),
                      maxNum = 0 \/ maxNum >= Len(FullName(name)),
                      NEW i \in DOMAIN FullName(name)
               PROVE  Merged(SubSeq(FullName(name), i, Len(FullName(name)))) = FullName(name)
    BY DEF SpellingsAgree
  <2>1. path \in Seq(Words) /\ maxNum \in Nat
    BY DEF TypeOK
  <2>2. Len(FullName(name)) = Len(path) + 1 /\ i \in 1..(Len(path) + 1)
    BY <2>1 DEF FullName
  <2>3. QED
    BY <2>1, <2>2, SuffixCompletes DEF Merged, FullName
<1>2. QED
  BY <1>1, NamePathType, PTL
================================================================================
