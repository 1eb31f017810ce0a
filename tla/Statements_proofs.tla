---------------------------- MODULE Statements_proofs ----------------------------
(***************************************************************************)
(* Proofs about the statements of a call.  First Merge: the intermediate   *)
(* table of a MERGE belongs to the connection inside it, for any number of *)
(* connections, clauses and faults.  Then Arguments: every parameter of    *)
(* every statement holds the argument meant for it, for any scripts and    *)
(* arguments.                                                              *)
(***************************************************************************)
EXTENDS Merge, Arguments, SequenceTheorems, FiniteSetTheorems, WellFoundedInduction, TLAPS

(* The statements of a MERGE are counted from CREATE, which is 0, to DROP, *)
(* and the connections are numbered from 1.                                *)
MergersType ==
  /\ Merges \subseteq Nat \ {0}
  /\ \A c \in Merges : Clauses(c) \in Seq(ClauseType)
  /\ mergers \in [Merges -> [next : Nat, failed : BOOLEAN]]

(* The table, when there is one, is that of a connection.                  *)
OwnerKnown == merged # NoTable => merged.by \in Merges

MergeIInv == MergersType /\ OwnerKnown /\ MergedTableOwned

LEMMA MergeInitIInv == MergeInit => MergeIInv
<1> SUFFICES ASSUME MergeInit PROVE MergeIInv
  OBVIOUS
<1>1. PICK i \in DOMAIN MergeInputs :
        \E t \in MergeInputs[i].targets, jobs \in MergeInputs[i].jobs :
          merging = [target |-> t, jobs |-> jobs, faults |-> MergeInputs[i].faults]
  BY DEF MergeInit
<1>2. PICK t \in MergeInputs[i].targets, jobs \in MergeInputs[i].jobs :
        merging = [target |-> t, jobs |-> jobs, faults |-> MergeInputs[i].faults]
  BY <1>1
<1>3. merging.jobs = jobs
  BY <1>2
<1>4. MergersType
  BY <1>3, MergeInputsType DEF MergersType, Merges, Clauses, Job, MergeInit
<1>5. \A c \in Merges : mergers[c].next = 0
  BY DEF MergeInit, Merges
<1>6. merged = NoTable
  BY DEF MergeInit
<1>7. QED
  BY <1>4, <1>5, <1>6 DEF MergeIInv, OwnerKnown, MergedTableOwned, Inside

(* A step of one connection leaves the others where they are.              *)
LEMMA ProceedStep ==
  ASSUME MergersType, NEW d \in Merges, Proceed(d), UNCHANGED merging
  PROVE  /\ MergersType'
         /\ \A c \in Merges \ {d} : mergers'[c] = mergers[c]
         /\ mergers'[d].next = mergers[d].next + 1
         /\ mergers'[d].failed = mergers[d].failed
<1>1. mergers \in [Merges -> [next : Nat, failed : BOOLEAN]]
  BY DEF MergersType
<1>2. mergers' = [mergers EXCEPT ![d].next = @ + 1]
  BY DEF Proceed
<1>3. mergers' \in [Merges -> [next : Nat, failed : BOOLEAN]]
  BY <1>1, <1>2
<1>4. Merges' = Merges /\ \A c : Clauses(c)' = Clauses(c)
  BY DEF Merges, Clauses, Job
<1>5. MergersType'
  BY <1>3, <1>4 DEF MergersType
<1>6. QED
  BY <1>1, <1>2, <1>5

LEMMA FailStep ==
  ASSUME MergersType, NEW d \in Merges, FailMerge(d), UNCHANGED merging
  PROVE  /\ MergersType'
         /\ \A c \in Merges \ {d} : mergers'[c] = mergers[c]
         /\ mergers'[d].next = mergers[d].next
         /\ mergers'[d].failed
<1>1. mergers \in [Merges -> [next : Nat, failed : BOOLEAN]]
  BY DEF MergersType
<1>2. mergers' = [mergers EXCEPT ![d].failed = TRUE]
  BY DEF FailMerge
<1>3. mergers' \in [Merges -> [next : Nat, failed : BOOLEAN]]
  BY <1>1, <1>2
<1>4. Merges' = Merges /\ \A c : Clauses(c)' = Clauses(c)
  BY DEF Merges, Clauses, Job
<1>5. MergersType'
  BY <1>3, <1>4 DEF MergersType
<1>6. QED
  BY <1>1, <1>2, <1>5

(* Whether another connection is inside depends on its own statement only. *)
LEMMA InsideKept ==
  ASSUME NEW c, mergers'[c] = mergers[c], UNCHANGED merging
  PROVE  Inside(c)' = Inside(c)
BY DEF Inside, Over, Clauses, Job

(* A connection that fails is outside.                                     *)
LEMMA FailedOutside ==
  ASSUME NEW c, mergers[c].failed
  PROVE  ~ Inside(c)
BY DEF Inside, Over

(* Only one connection is inside, the one whose table it is.               *)
LEMMA InsideIsOwner ==
  ASSUME MergeIInv, NEW c \in Merges, Inside(c)
  PROVE  merged.by = c /\ merged # NoTable
<1>1. merged.by = c
  BY DEF MergeIInv, MergedTableOwned
<1>2. c # 0
  BY DEF MergeIInv, MergersType
<1>3. NoTable.by = 0
  BY DEF NoTable
<1>4. QED
  BY <1>1, <1>2, <1>3

(* A failure after CREATE leaves the table to the connection that failed;  *)
(* one at CREATE comes from outside.                                       *)
LEMMA FailKeepsIInv ==
  ASSUME MergeIInv, NEW d \in Merges, ~ Over(d), FailMerge(d), UNCHANGED <<merging, merged>>
  PROVE  MergeIInv'
<1>1. MergersType
  BY DEF MergeIInv
<1>2. /\ MergersType'
      /\ \A c \in Merges \ {d} : mergers'[c] = mergers[c]
      /\ mergers'[d].next = mergers[d].next
      /\ mergers'[d].failed
  BY <1>1, FailStep
<1>3. ~ Inside(d)'
  BY <1>2 DEF Inside, Over
<1>4. Merges' = Merges
  BY DEF Merges
<1>5. \A c \in Merges : Inside(c)' => c # d /\ Inside(c)
  BY <1>2, <1>3, InsideKept
<1>6. OwnerKnown'
  BY <1>4, <1>5 DEF MergeIInv, OwnerKnown
<1>7. ASSUME merged # NoTable
      PROVE  Inside(merged.by)' \/ (mergers'[merged.by].failed /\ mergers'[merged.by].next > 0)
  <2>1. CASE merged.by = d
    <3>1. Inside(d) \/ (mergers[d].failed /\ mergers[d].next > 0)
      BY <1>7, <2>1 DEF MergeIInv, MergedTableOwned
    <3>2. mergers[d].next > 0
      BY <3>1 DEF Inside
    <3>3. QED
      BY <1>2, <2>1, <3>2
  <2>2. CASE merged.by # d
    <3>1. merged.by \in Merges \ {d}
      BY <1>7, <2>2 DEF MergeIInv, OwnerKnown
    <3>2. Inside(merged.by)' = Inside(merged.by)
      BY <1>2, <3>1, InsideKept
    <3>3. QED
      BY <1>2, <1>7, <3>1, <3>2 DEF MergeIInv, MergedTableOwned
  <2>3. QED
    BY <2>1, <2>2
<1>8. MergedTableOwned'
  BY <1>4, <1>5, <1>7 DEF MergeIInv, MergedTableOwned
<1>9. QED
  BY <1>2, <1>6, <1>8 DEF MergeIInv

(* The next statement but the last: the table stays where it is.           *)
LEMMA RunClauseKeepsIInv ==
  ASSUME MergeIInv, NEW d \in Merges, RunClause(d)
  PROVE  MergeIInv'
<1>1. CASE FailMerge(d)
  BY <1>1, FailKeepsIInv DEF RunClause
<1>2. CASE Proceed(d)
  <2>1. MergersType /\ UNCHANGED <<merging, merged>> /\ ~ Over(d) /\ NextOf(d) \in DOMAIN Clauses(d)
    BY DEF MergeIInv, RunClause
  <2>2. /\ MergersType'
        /\ \A c \in Merges \ {d} : mergers'[c] = mergers[c]
        /\ mergers'[d].next = mergers[d].next + 1
        /\ mergers'[d].failed = mergers[d].failed
    BY <1>2, <2>1, ProceedStep
  <2>3. /\ mergers[d].next \in 1..Len(Clauses(d))
        /\ Len(Clauses(d)) \in Nat
    BY <2>1 DEF NextOf, MergersType
  <2>4. Inside(d) /\ Inside(d)'
    <3>1. Clauses(d)' = Clauses(d)
      BY <2>1 DEF Clauses, Job
    <3>2. ~ mergers[d].failed
      BY <2>1 DEF Over
    <3>3. QED
      BY <2>1, <2>2, <2>3, <3>1, <3>2 DEF Inside, Over
  <2>5. merged.by = d /\ merged # NoTable
    BY <2>4, InsideIsOwner
  <2>6. ASSUME NEW c \in Merges, Inside(c)' PROVE Inside(c)
    <3>1. CASE c = d
      BY <2>4, <3>1
    <3>2. CASE c # d
      BY <2>1, <2>2, <2>6, <3>2, InsideKept
    <3>3. QED
      BY <3>1, <3>2
  <2>7. Merges' = Merges
    BY <2>1 DEF Merges
  <2>8. OwnerKnown' /\ MergedTableOwned'
    BY <2>1, <2>4, <2>5, <2>6, <2>7 DEF MergeIInv, OwnerKnown, MergedTableOwned
  <2>9. QED
    BY <2>2, <2>8 DEF MergeIInv
<1>3. QED
  BY <1>1, <1>2 DEF RunClause

(* The first statement: nobody is inside, since there is no table.         *)
LEMMA CreateKeepsIInv ==
  ASSUME MergeIInv, NEW d \in Merges, CreateMerged(d)
  PROVE  MergeIInv'
<1>1. CASE merged # NoTable
  BY <1>1, FailKeepsIInv DEF CreateMerged, CanCreateMerged
<1>2. CASE merged = NoTable
  <2>1. MergersType /\ UNCHANGED merging /\ Proceed(d) /\ ~ Over(d) /\ mergers[d].next = 0
    BY <1>2 DEF MergeIInv, CreateMerged, CanCreateMerged, NextOf
  <2>2. /\ MergersType'
        /\ \A c \in Merges \ {d} : mergers'[c] = mergers[c]
        /\ mergers'[d].next = mergers[d].next + 1
        /\ mergers'[d].failed = mergers[d].failed
    BY <2>1, ProceedStep
  <2>3. merged'.by = d /\ merged' # NoTable
    <3>1. PICK swapSource, swapTarget \in BOOLEAN :
            merged' = [by |-> d, rows |-> MergedRows(Job(d).source, swapSource, swapTarget)]
      BY <1>2 DEF CreateMerged, CanCreateMerged
    <3>2. d # 0
      BY <2>1 DEF MergersType
    <3>3. QED
      BY <3>1, <3>2 DEF NoTable
  <2>4. Inside(d)'
    <3>1. Clauses(d)' = Clauses(d) /\ Len(Clauses(d)) \in Nat
      BY <2>1 DEF Clauses, Job, MergersType
    <3>2. ~ mergers[d].failed
      BY <2>1 DEF Over
    <3>3. mergers'[d].next = 1
      BY <2>1, <2>2
    <3>4. QED
      BY <2>2, <3>1, <3>2, <3>3 DEF Inside, Over
  <2>5. ASSUME NEW c \in Merges, Inside(c)' PROVE c = d
    <3>1. SUFFICES ASSUME c # d PROVE FALSE
      OBVIOUS
    <3>2. Inside(c)
      BY <2>1, <2>2, <2>5, <3>1, InsideKept
    <3>3. QED
      BY <1>2, <3>2, InsideIsOwner
  <2>6. Merges' = Merges
    BY <2>1 DEF Merges
  <2>7. OwnerKnown' /\ MergedTableOwned'
    BY <2>3, <2>4, <2>5, <2>6 DEF OwnerKnown, MergedTableOwned
  <2>8. QED
    BY <2>2, <2>7 DEF MergeIInv
<1>3. QED
  BY <1>1, <1>2

(* The last statement: its connection was the only one inside.             *)
LEMMA DropKeepsIInv ==
  ASSUME MergeIInv, NEW d \in Merges, DropMerged(d)
  PROVE  MergeIInv'
<1>1. MergersType /\ UNCHANGED merging /\ ~ Over(d) /\ mergers[d].next = Len(Clauses(d)) + 1
  BY DEF MergeIInv, DropMerged, NextOf
<1>2. Inside(d)
  <2>1. Len(Clauses(d)) \in Nat
    BY <1>1 DEF MergersType
  <2>2. QED
    BY <1>1, <2>1 DEF Inside
<1>3. merged.by = d /\ merged # NoTable
  BY <1>2, InsideIsOwner
<1>4. Proceed(d) /\ merged' = NoTable
  BY <1>3 DEF DropMerged
<1>5. /\ MergersType'
      /\ \A c \in Merges \ {d} : mergers'[c] = mergers[c]
      /\ mergers'[d].next = mergers[d].next + 1
  BY <1>1, <1>4, ProceedStep
<1>6. ASSUME NEW c \in Merges PROVE ~ Inside(c)'
  <2>1. CASE c = d
    <3>1. Clauses(d)' = Clauses(d) /\ Len(Clauses(d)) \in Nat
      BY <1>1 DEF Clauses, Job, MergersType
    <3>2. mergers'[d].next > Len(Clauses(d)') + 1
      BY <1>1, <1>5, <3>1
    <3>3. QED
      BY <2>1, <3>2 DEF Inside, Over
  <2>2. CASE c # d
    <3>1. Inside(c)' = Inside(c)
      BY <1>1, <1>5, <2>2, InsideKept
    <3>2. ~ Inside(c)
      BY <1>3, <2>2, InsideIsOwner
    <3>3. QED
      BY <3>1, <3>2
  <2>3. QED
    BY <2>1, <2>2
<1>7. Merges' = Merges
  BY <1>1 DEF Merges
<1>8. OwnerKnown' /\ MergedTableOwned'
  BY <1>4, <1>6, <1>7 DEF OwnerKnown, MergedTableOwned
<1>9. QED
  BY <1>5, <1>8 DEF MergeIInv

LEMMA MergeNextIInv == MergeIInv /\ [MergeNext]_mergeVars => MergeIInv'
<1> SUFFICES ASSUME MergeIInv, [MergeNext]_mergeVars PROVE MergeIInv'
  OBVIOUS
<1>1. DOMAIN mergers = Merges
  BY DEF MergeIInv, MergersType
<1>2. ASSUME NEW d \in Merges, CreateMerged(d) PROVE MergeIInv'
  BY <1>2, CreateKeepsIInv
<1>3. ASSUME NEW d \in Merges, RunClause(d) PROVE MergeIInv'
  BY <1>3, RunClauseKeepsIInv
<1>4. ASSUME NEW d \in Merges, DropMerged(d) PROVE MergeIInv'
  BY <1>4, DropKeepsIInv
<1>5. ASSUME NEW d \in Merges, BreakMerge(d) PROVE MergeIInv'
  BY <1>5, FailKeepsIInv DEF BreakMerge
<1>6. CASE UNCHANGED mergeVars
  BY <1>6 DEF mergeVars, MergeIInv, MergersType, OwnerKnown, MergedTableOwned,
              Merges, Inside, Over, Clauses, Job
<1>7. QED
  BY <1>1, <1>2, <1>3, <1>4, <1>5, <1>6 DEF MergeNext

(* However many connections merge at once and wherever they fail, a MERGE  *)
(* works on its own table, which only a failed MERGE leaves behind: it is  *)
(* enough that CREATE TABLE refuses an existing table                      *)
(* (transformer_stmt_merge.go:372-376, stmt_action.go:542-549).            *)
THEOREM MergedTableAlwaysOwned == MergeSpec => []MergedTableOwned
<1>1. MergeIInv => MergedTableOwned
  BY DEF MergeIInv
<1>2. QED
  BY <1>1, MergeInitIInv, MergeNextIInv, PTL DEF MergeSpec

---------------------------------------------------------------------------
(* A set of natural numbers that is not empty has a least element.         *)
LEMMA LeastNat ==
  ASSUME NEW T \in SUBSET Nat, T # {}
  PROVE  \E x \in T : \A y \in T : x <= y
<1> DEFINE R == OpToRel(<, Nat)
<1>1. IsWellFoundedOn(R, Nat)
  BY NatLessThanWellFounded
<1>2. \A i, j \in Nat : <<i, j>> \in R <=> i < j
  BY DEF OpToRel
<1> HIDE DEF R
<1>3. PICK x \in T : \A y \in T : ~ (<<y, x>> \in R)
  BY <1>1, WFMin
<1>4. \A y \in T : ~ (y < x)
  <2> TAKE y \in T
  <2>1. x \in Nat /\ y \in Nat
    OBVIOUS
  <2>2. QED
    BY <1>2, <1>3, <2>1
<1>5. x \in Nat /\ T \subseteq Nat
  OBVIOUS
<1>6. QED
  BY <1>4, <1>5, SMT

(* The largest element of a set of numbers is what Max chooses.            *)
LEMMA MaxIs ==
  ASSUME NEW T \in SUBSET Nat, NEW m \in T, \A x \in T : x <= m
  PROVE  Max(T) = m
<1>1. \A y \in T : m >= y
  OBVIOUS
<1>2. \A x \in T : (\A y \in T : x >= y) => x = m
  OBVIOUS
<1>3. QED
  BY <1>1, <1>2, Zenon DEF Max

---------------------------------------------------------------------------
(* Once is a fold, which is defined by a table of the results for every    *)
(* set of indices.  There is such a table up to every index: no index is   *)
(* the first one up to which there is none.                                *)
OnceTable(table, s, indices) ==
    table = [idx \in SUBSET indices |->
                IF idx = {} THEN <<>> ELSE KeepFirst(table[idx \ {Max(idx)}], s[Max(idx)])]

LEMMA OnceTableExists ==
  ASSUME NEW s, NEW m \in Nat
  PROVE  \E h : OnceTable(h, s, 1..m)
<1> DEFINE Step1(h, idx) == IF idx = {} THEN <<>> ELSE KeepFirst(h[idx \ {Max(idx)}], s[Max(idx)])
           Table(k, h) == OnceTable(h, s, 1..k)
           T == {k \in Nat : ~ \E h : Table(k, h)}
<1> USE DEF OnceTable
<1>1. T # {} => FALSE
  <2> SUFFICES ASSUME T # {} PROVE FALSE
    OBVIOUS
  <2>1. PICK k \in T : \A j \in T : k <= j
    BY LeastNat
  <2>2. k # 0
    <3> DEFINE h == [idx \in SUBSET (1..0) |-> <<>>]
    <3>1. \A idx \in SUBSET (1..0) : idx = {}
      OBVIOUS
    <3>2. Table(0, h)
      BY <3>1
    <3>3. QED
      BY <2>1, <3>2
  <2>3. k \in Nat /\ k - 1 \in Nat
    BY <2>2
  <2>4. PICK h : Table(k - 1, h)
    <3>1. k - 1 \notin T
      <4> HIDE DEF T
      <4>1. QED
        BY <2>1, <2>3
    <3>2. QED
      BY <2>3, <3>1, Zenon
  <2> DEFINE g == [idx \in SUBSET (1..k) |->
                     IF k \in idx THEN KeepFirst(h[idx \ {k}], s[k]) ELSE h[idx]]
  <2>5. ASSUME NEW idx \in SUBSET (1..k) PROVE g[idx] = Step1(g, idx)
    <3>1. CASE k \in idx
      <4>1. Max(idx) = k
        <5>1. idx \in SUBSET Nat /\ \A x \in idx : x <= k
          BY <2>3
        <5>2. QED
          BY <3>1, <5>1, MaxIs
      <4>2. idx \ {k} \in SUBSET (1..k) /\ k \notin idx \ {k} /\ idx # {}
        BY <3>1
      <4>3. g[idx \ {k}] = h[idx \ {k}]
        BY <4>2
      <4>4. QED
        BY <3>1, <4>1, <4>2, <4>3
    <3>2. CASE k \notin idx
      <4>1. idx \in SUBSET (1..(k - 1)) /\ idx \ {Max(idx)} \in SUBSET (1..k) /\ k \notin idx \ {Max(idx)}
        <5>1. \A x \in idx : x \in 1..(k - 1)
          BY <2>3, <3>2
        <5>2. QED
          BY <3>2, <5>1, Zenon
      <4>2. h[idx] = Step1(h, idx)
        BY <2>4, <4>1
      <4>3. g[idx \ {Max(idx)}] = h[idx \ {Max(idx)}] /\ g[idx] = h[idx]
        BY <3>2, <4>1
      <4>4. QED
        BY <4>2, <4>3
    <3>3. QED
      BY <3>1, <3>2
  <2>6. Table(k, g)
    BY <2>5
  <2>7. QED
    BY <2>1, <2>6
<1>2. QED
  BY <1>1

(* What Once has kept after each of the values.                         *)
OnceUpTo(h, s) ==
    /\ h[0] = <<>>
    /\ \A k \in 1..Len(s) : h[k] = KeepFirst(h[k - 1], s[k])

LEMMA OnceSteps ==
  ASSUME NEW S, NEW s \in Seq(S)
  PROVE  \E h : OnceUpTo(h, s) /\ Once(s) = h[Len(s)]
<1> DEFINE table == CHOOSE t : OnceTable(t, s, DOMAIN s)
<1>1. OnceTable(table, s, DOMAIN s)
  <2>1. DOMAIN s = 1..Len(s) /\ Len(s) \in Nat
    OBVIOUS
  <2>2. QED
    BY <2>1, OnceTableExists, Zenon
<1>2. Once(s) = table[DOMAIN s]
  BY Zenon DEF Once, FoldLeft, MapThenFoldSet, OnceTable
<1> HIDE DEF table
<1> USE DEF OnceTable
<1> DEFINE h == [k \in 0..Len(s) |-> table[1..k]]
<1>3. h[0] = <<>>
  BY <1>1
<1>4. ASSUME NEW k \in 1..Len(s) PROVE h[k] = KeepFirst(h[k - 1], s[k])
  <2>1. DOMAIN s = 1..Len(s) /\ Len(s) \in Nat
    OBVIOUS
  <2>2. /\ 1..k \in SUBSET DOMAIN s /\ k \in 1..k
        /\ k - 1 \in 0..Len(s) /\ k \in 0..Len(s)
    BY <2>1
  <2>3. (1..k) \ {k} = 1..(k - 1)
    BY <2>1
  <2>4. Max(1..k) = k
    BY MaxIs
  <2>5. table[1..k] = KeepFirst(table[(1..k) \ {Max(1..k)}], s[Max(1..k)])
    BY <1>1, <2>2
  <2>6. QED
    BY <2>2, <2>3, <2>4, <2>5
<1>5. Once(s) = h[Len(s)]
  BY <1>2
<1> HIDE DEF h
<1>6. QED
  BY <1>3, <1>4, <1>5 DEF OnceUpTo

---------------------------------------------------------------------------
(* The indices of a sequence.                                              *)
LEMMA SeqIs ==
  ASSUME NEW S, NEW s \in Seq(S)
  PROVE  Len(s) \in Nat /\ DOMAIN s = 1..Len(s)
OBVIOUS

(* What has been kept of the first n parameters: only parameters of them,  *)
(* all names, every name but "" once, and all question marks.              *)
FirstsOf(r, s, n) ==
  /\ r \in Seq(ParamType)
  /\ \A i \in 1..Len(r) : \E j \in 1..n : r[i] = s[j]
  /\ \A j \in 1..n : \E i \in 1..Len(r) : r[i].name = s[j].name
  /\ \A i, j \in 1..Len(r) : r[i].name = r[j].name /\ r[i].name # "" => i = j
  /\ (\A j \in 1..n : s[j].name = "") => Len(r) = n /\ \A j \in 1..n : r[j] = s[j]

(* getParamsFromNode, one parameter on.                                    *)
LEMMA FirstsStep ==
  ASSUME NEW s \in Seq(ParamType), NEW n \in 1..Len(s), NEW r, FirstsOf(r, s, n - 1)
  PROVE  FirstsOf(KeepFirst(r, s[n]), s, n)
<1> DEFINE p == s[n]
           q == KeepFirst(r, p)
<1>1. /\ n \in Nat /\ n - 1 \in Nat /\ p \in ParamType
      /\ \A j \in 1..n : j = n \/ j \in 1..(n - 1)
      /\ 1..(n - 1) \subseteq 1..n /\ n \in 1..n
  OBVIOUS
<1>2. /\ r \in Seq(ParamType)
      /\ \A i \in 1..Len(r) : \E j \in 1..(n - 1) : r[i] = s[j]
      /\ \A j \in 1..(n - 1) : \E i \in 1..Len(r) : r[i].name = s[j].name
      /\ \A i, j \in 1..Len(r) : r[i].name = r[j].name /\ r[i].name # "" => i = j
      /\ (\A j \in 1..(n - 1) : s[j].name = "") => Len(r) = n - 1 /\ \A j \in 1..(n - 1) : r[j] = s[j]
  BY Zenon DEF FirstsOf
<1>0. Len(r) \in Nat /\ DOMAIN r = 1..Len(r)
  <2>1. r \in Seq(ParamType)
    BY <1>2
  <2>2. QED
    BY <2>1, SeqIs, Zenon
<1>3. CASE p.name # "" /\ \E i \in 1..Len(r) : r[i].name = p.name
  <2>1. \E x \in Range(r) : x.name = p.name
    BY <1>0, <1>3, Zenon DEF Range
  <2>2. q = r
    BY <1>3, <2>1 DEF KeepFirst
  <2>3. \A i \in 1..Len(r) : \E j \in 1..n : r[i] = s[j]
    BY <1>1, <1>2
  <2>4. \A j \in 1..n : \E i \in 1..Len(r) : r[i].name = s[j].name
    BY <1>1, <1>2, <1>3
  <2>5. ~ \A j \in 1..n : s[j].name = ""
    BY <1>1, <1>3
  <2>6. FirstsOf(r, s, n)
    BY <1>2, <2>3, <2>4, <2>5 DEF FirstsOf
  <2>7. QED
    BY <2>2, <2>6
<1>4. CASE ~ (p.name # "" /\ \E i \in 1..Len(r) : r[i].name = p.name)
  <2>1. ~ (p.name # "" /\ \E x \in Range(r) : x.name = p.name)
    BY <1>0, <1>4, Zenon DEF Range
  <2>2. q = Append(r, p)
    BY <2>1 DEF KeepFirst
  <2>3. /\ q \in Seq(ParamType) /\ Len(q) = Len(r) + 1
        /\ \A i \in 1..Len(r) : q[i] = r[i]
        /\ q[Len(r) + 1] = p
        /\ \A i \in 1..Len(q) : i = Len(q) \/ i \in 1..Len(r)
        /\ 1..Len(r) \subseteq 1..Len(q) /\ Len(q) \in 1..Len(q)
    <3>1. p \in ParamType /\ r \in Seq(ParamType)
      BY <1>1, <1>2
    <3> HIDE DEF p, q
    <3>2. QED
      BY <2>2, <3>1
  <2> HIDE DEF q
  <2>4. \A i \in 1..Len(q) : \E j \in 1..n : q[i] = s[j]
    <3> TAKE i \in 1..Len(q)
    <3>1. CASE i = Len(q)
      BY <1>1, <2>3, <3>1
    <3>2. CASE i \in 1..Len(r)
      <4>1. PICK j \in 1..(n - 1) : r[i] = s[j]
        BY <1>2, <3>2
      <4>2. QED
        BY <1>1, <2>3, <3>2, <4>1
    <3>3. QED
      BY <2>3, <3>1, <3>2
  <2>5. \A j \in 1..n : \E i \in 1..Len(q) : q[i].name = s[j].name
    <3> TAKE j \in 1..n
    <3>1. CASE j = n
      BY <2>3, <3>1
    <3>2. CASE j \in 1..(n - 1)
      <4>1. PICK i \in 1..Len(r) : r[i].name = s[j].name
        BY <1>2, <3>2
      <4>2. QED
        BY <2>3, <4>1
    <3>3. QED
      BY <1>1, <3>1, <3>2
  <2>6. ASSUME NEW i \in 1..Len(q), NEW j \in 1..Len(q), q[i].name = q[j].name, q[i].name # ""
        PROVE  i = j
    <3>1. CASE i \in 1..Len(r) /\ j \in 1..Len(r)
      BY <1>2, <2>3, <2>6, <3>1
    <3>2. CASE i = Len(q) /\ j \in 1..Len(r)
      BY <1>4, <2>3, <2>6, <3>2
    <3>3. CASE j = Len(q) /\ i \in 1..Len(r)
      BY <1>4, <2>3, <2>6, <3>3
    <3>4. QED
      BY <2>3, <3>1, <3>2, <3>3
  <2>7. ASSUME \A j \in 1..n : s[j].name = ""
        PROVE  Len(q) = n /\ \A j \in 1..n : q[j] = s[j]
    <3>1. Len(r) = n - 1 /\ \A j \in 1..(n - 1) : r[j] = s[j]
      BY <1>1, <1>2, <2>7
    <3>2. QED
      BY <1>1, <2>3, <3>1
  <2>8. FirstsOf(q, s, n)
    BY <2>3, <2>4, <2>5, <2>6, <2>7 DEF FirstsOf
  <2>9. QED
    BY <2>8 DEF q
<1>5. QED
  BY <1>3, <1>4

(* So Once keeps the first parameter of every name and all question marks. *)
LEMMA OnceFirsts ==
  ASSUME NEW s \in Seq(ParamType)
  PROVE  FirstsOf(Once(s), s, Len(s))
<1>1. PICK h : OnceUpTo(h, s) /\ Once(s) = h[Len(s)]
  BY OnceSteps
<1>2. Len(s) \in Nat
  OBVIOUS
<1> DEFINE T == {k \in 0..Len(s) : ~ FirstsOf(h[k], s, k)}
<1>3. T = {}
  <2> SUFFICES ASSUME T # {} PROVE FALSE
    OBVIOUS
  <2>1. PICK k \in T : \A i \in T : k <= i
    <3>1. T \in SUBSET Nat
      OBVIOUS
    <3> HIDE DEF T
    <3>2. QED
      BY <3>1, LeastNat
  <2>2. k # 0
    <3>1. FirstsOf(<<>>, s, 0)
      <4>1. <<>> \in Seq(ParamType) /\ Len(<<>>) = 0 /\ 1..0 = {}
        OBVIOUS
      <4>2. QED
        BY <4>1 DEF FirstsOf
    <3>2. h[0] = <<>>
      BY <1>1 DEF OnceUpTo
    <3>3. QED
      BY <2>1, <3>1, <3>2
  <2>3. k \in 1..Len(s) /\ k - 1 \in 0..Len(s) /\ k - 1 \notin T
    BY <1>2, <2>1, <2>2
  <2>4. FirstsOf(h[k - 1], s, k - 1)
    BY <2>3
  <2>5. h[k] = KeepFirst(h[k - 1], s[k])
    BY <1>1, <2>3 DEF OnceUpTo
  <2>6. FirstsOf(h[k], s, k)
    BY <2>3, <2>4, <2>5, FirstsStep
  <2>7. QED
    BY <2>1, <2>6
<1>4. Len(s) \in 0..Len(s)
  BY <1>2
<1>5. QED
  BY <1>1, <1>3, <1>4

---------------------------------------------------------------------------
(* The parameters of a statement: its slots, which SQLite binds, are those *)
(* of the text, and the code finds them in the order of its walk.          *)
Slots(stmt) == Once(stmt.params)
Walked(stmt) == [i \in DOMAIN stmt.walk |-> stmt.params[stmt.walk[i]]]

(* The places of the walk are those of the parameters, each of them once.  *)
LEMMA StmtFields ==
  ASSUME NEW stmt \in StmtType, WellFormed(stmt)
  PROVE  /\ stmt.params \in Seq(ParamType) /\ Len(stmt.params) \in Nat
         /\ DOMAIN stmt.params = 1..Len(stmt.params)
         /\ stmt.walk \in Seq(Nat) /\ DOMAIN stmt.walk = 1..Len(stmt.params)
         /\ \A i \in 1..Len(stmt.params) : stmt.walk[i] \in 1..Len(stmt.params)
         /\ \A j \in 1..Len(stmt.params) : \E i \in 1..Len(stmt.params) : stmt.walk[i] = j
<1>1. stmt.params \in Seq(ParamType) /\ stmt.walk \in Seq(Nat)
  BY DEF StmtType
<1>2. /\ Len(stmt.params) \in Nat /\ DOMAIN stmt.params = 1..Len(stmt.params)
      /\ DOMAIN stmt.walk = 1..Len(stmt.walk)
  BY <1>1
<1>3. Len(stmt.walk) = Len(stmt.params) /\ Range(stmt.walk) = DOMAIN stmt.params
  BY DEF WellFormed
<1>4. \A i \in DOMAIN stmt.walk : stmt.walk[i] \in Range(stmt.walk)
  BY Zenon DEF Range
<1>5. \A j \in Range(stmt.walk) : \E i \in DOMAIN stmt.walk : stmt.walk[i] = j
  BY Zenon DEF Range
<1>6. QED
  BY <1>1, <1>2, <1>3, <1>4, <1>5

(* The walk meets all parameters and no others; in order, it is the text.  *)
LEMMA WalkedIs ==
  ASSUME NEW stmt \in StmtType, WellFormed(stmt)
  PROVE  /\ Walked(stmt) \in Seq(ParamType) /\ Len(Walked(stmt)) = Len(stmt.params)
         /\ \A j \in 1..Len(stmt.params) : \E i \in 1..Len(stmt.params) : Walked(stmt)[j] = stmt.params[i]
         /\ \A i \in 1..Len(stmt.params) : \E j \in 1..Len(stmt.params) : Walked(stmt)[j] = stmt.params[i]
         /\ InOrder(stmt) => Walked(stmt) = stmt.params
<1> DEFINE n == Len(stmt.params)
           w == stmt.walk
           ps == stmt.params
<1>1. /\ ps \in Seq(ParamType) /\ n \in Nat /\ DOMAIN ps = 1..n /\ DOMAIN w = 1..n
      /\ \A i \in 1..n : w[i] \in 1..n
      /\ \A j \in 1..n : \E i \in 1..n : w[i] = j
  BY StmtFields
<1>2. Walked(stmt) = [i \in 1..n |-> ps[w[i]]]
  BY <1>1 DEF Walked
<1>3. \A i \in 1..n : ps[i] \in ParamType
  BY <1>1
<1>4. InOrder(stmt) => w = [i \in 1..n |-> i]
  BY <1>1 DEF InOrder
<1> HIDE DEF n, w, ps
<1>5. Walked(stmt) \in Seq(ParamType) /\ Len(Walked(stmt)) = n
  BY <1>1, <1>2, <1>3
<1>6. \A j \in 1..n : \E i \in 1..n : Walked(stmt)[j] = ps[i]
  BY <1>1, <1>2
<1>7. \A i \in 1..n : \E j \in 1..n : Walked(stmt)[j] = ps[i]
  <2> TAKE i \in 1..n
  <2>1. PICK j \in 1..n : w[j] = i
    BY <1>1
  <2>2. Walked(stmt)[j] = ps[i]
    BY <1>2, <2>1
  <2>3. QED
    BY <2>2
<1>8. ASSUME InOrder(stmt) PROVE Walked(stmt) = ps
  <2>1. Walked(stmt) = [i \in 1..n |-> ps[i]]
    BY <1>2, <1>4, <1>8
  <2>2. ps = [i \in 1..n |-> ps[i]]
    BY <1>1
  <2>3. QED
    BY <2>1, <2>2
<1>9. QED
  BY <1>5, <1>6, <1>7, <1>8 DEF n, ps

(* Both ways the same names are found, each once, with one type each.      *)
LEMMA SlotsFound ==
  ASSUME NEW stmt \in StmtType, WellFormed(stmt)
  PROVE  /\ Slots(stmt) \in Seq(ParamType) /\ ParamsOf(stmt) \in Seq(ParamType)
         /\ \A k \in 1..Len(Slots(stmt)) : Slots(stmt)[k] \in Range(stmt.params)
         /\ \A i \in 1..Len(ParamsOf(stmt)) : ParamsOf(stmt)[i] \in Range(stmt.params)
         /\ \A k \in 1..Len(Slots(stmt)) : \E i \in 1..Len(ParamsOf(stmt)) : ParamsOf(stmt)[i].name = Slots(stmt)[k].name
         /\ \A i, j \in 1..Len(ParamsOf(stmt)) :
              ParamsOf(stmt)[i].name = ParamsOf(stmt)[j].name /\ ParamsOf(stmt)[i].name # "" => i = j
         /\ InOrder(stmt) => ParamsOf(stmt) = Slots(stmt)
<1> DEFINE n == Len(stmt.params)
           ps == stmt.params
           W == Walked(stmt)
           slots == Slots(stmt)
           found == ParamsOf(stmt)
<1>1. ps \in Seq(ParamType) /\ n \in Nat /\ DOMAIN ps = 1..n
  BY StmtFields
<1>2. /\ W \in Seq(ParamType) /\ Len(W) = n
      /\ \A j \in 1..n : \E i \in 1..n : W[j] = ps[i]
      /\ \A i \in 1..n : \E j \in 1..n : W[j] = ps[i]
      /\ InOrder(stmt) => W = ps
  BY WalkedIs
<1>3. FirstsOf(slots, ps, n)
  BY <1>1, OnceFirsts DEF Slots
<1>4. found = Once(W)
  BY DEF ParamsOf, Walked
<1>5. FirstsOf(found, W, n)
  BY <1>2, <1>4, OnceFirsts
<1>6. InOrder(stmt) => found = slots
  BY <1>2, <1>4 DEF Slots
<1>7. \A i \in 1..n : ps[i] \in Range(ps)
  BY <1>1 DEF Range
<1> HIDE DEF n, ps, W, slots, found
<1>8. /\ slots \in Seq(ParamType) /\ found \in Seq(ParamType)
      /\ \A k \in 1..Len(slots) : \E j \in 1..n : slots[k] = ps[j]
      /\ \A i \in 1..Len(found) : \E j \in 1..n : found[i] = W[j]
      /\ \A j \in 1..n : \E i \in 1..Len(found) : found[i].name = W[j].name
      /\ \A i, j \in 1..Len(found) : found[i].name = found[j].name /\ found[i].name # "" => i = j
  BY <1>3, <1>5, Zenon DEF FirstsOf
<1>9. \A k \in 1..Len(slots) : slots[k] \in Range(ps)
  BY <1>7, <1>8, Zenon
<1>10. \A i \in 1..Len(found) : found[i] \in Range(ps)
  <2> TAKE i \in 1..Len(found)
  <2>1. PICK j \in 1..n : found[i] = W[j]
    BY <1>8
  <2>2. PICK m \in 1..n : W[j] = ps[m]
    BY <1>2
  <2>3. QED
    BY <1>7, <2>1, <2>2
<1>11. \A k \in 1..Len(slots) : \E i \in 1..Len(found) : found[i].name = slots[k].name
  <2> TAKE k \in 1..Len(slots)
  <2>1. PICK m \in 1..n : slots[k] = ps[m]
    BY <1>8
  <2>2. PICK j \in 1..n : W[j] = ps[m]
    BY <1>2
  <2>3. PICK i \in 1..Len(found) : found[i].name = W[j].name
    BY <1>8
  <2>4. QED
    BY <2>1, <2>2, <2>3
<1>12. QED
  BY <1>6, <1>8, <1>9, <1>10, <1>11 DEF slots, found, ps

(* ZetaSQL gives both findings of a name the same type.                    *)
LEMMA OneType ==
  ASSUME NEW stmt \in StmtType, WellFormed(stmt),
         NEW k \in 1..Len(Slots(stmt)), NEW i \in 1..Len(ParamsOf(stmt)),
         ParamsOf(stmt)[i].name = Slots(stmt)[k].name, Slots(stmt)[k].name # ""
  PROVE  ParamsOf(stmt)[i].type = Slots(stmt)[k].type
<1>1. Slots(stmt)[k] \in Range(stmt.params) /\ ParamsOf(stmt)[i] \in Range(stmt.params)
  BY SlotsFound
<1>2. \A p, q \in Range(stmt.params) : p.name = q.name /\ p.name # "" => p.type = q.type
  BY DEF WellFormed
<1>3. QED
  BY <1>1, <1>2, Zenon

(* Question marks are all found, in their places.                          *)
LEMMA PositionalSlots ==
  ASSUME NEW stmt \in StmtType, WellFormed(stmt), Positional(stmt), ~ MixedMode(stmt)
  PROVE  /\ Len(Slots(stmt)) = Len(stmt.params) /\ Len(ParamsOf(stmt)) = Len(stmt.params)
         /\ \A i \in 1..Len(stmt.params) : stmt.params[i].name = "" /\ Slots(stmt)[i] = stmt.params[i]
         /\ \A i \in 1..Len(stmt.params) : Slots(stmt)[i].name = "" /\ ParamsOf(stmt)[i].name = ""
<1> DEFINE n == Len(stmt.params)
           ps == stmt.params
           W == Walked(stmt)
<1>1. ps \in Seq(ParamType) /\ n \in Nat /\ DOMAIN ps = 1..n
  BY StmtFields
<1>2. /\ W \in Seq(ParamType) /\ Len(W) = n
      /\ \A j \in 1..n : \E i \in 1..n : W[j] = ps[i]
  BY WalkedIs
<1>3. \A p \in Range(ps) : p.name = ""
  BY DEF MixedMode
<1>4. \A i \in 1..n : ps[i].name = ""
  BY <1>1, <1>3 DEF Range
<1>5. FirstsOf(Slots(stmt), ps, n)
  BY <1>1, OnceFirsts DEF Slots
<1>6. FirstsOf(ParamsOf(stmt), W, n)
  BY <1>2, OnceFirsts DEF ParamsOf, Walked
<1> HIDE DEF n, ps, W
<1>7. \A j \in 1..n : W[j].name = ""
  <2> TAKE j \in 1..n
  <2>1. PICK i \in 1..n : W[j] = ps[i]
    BY <1>2
  <2>2. QED
    BY <1>4, <2>1
<1>8. Len(Slots(stmt)) = n /\ \A j \in 1..n : Slots(stmt)[j] = ps[j]
  BY <1>4, <1>5 DEF FirstsOf
<1>9. Len(ParamsOf(stmt)) = n /\ \A j \in 1..n : ParamsOf(stmt)[j] = W[j]
  BY <1>6, <1>7 DEF FirstsOf
<1>10. QED
  BY <1>4, <1>7, <1>8, <1>9 DEF n, ps

(* Without question marks every slot has a name.                           *)
LEMMA NamedSlots ==
  ASSUME NEW stmt \in StmtType, WellFormed(stmt), ~ Positional(stmt)
  PROVE  /\ \A k \in 1..Len(Slots(stmt)) : Slots(stmt)[k].name # ""
         /\ \A i \in 1..Len(ParamsOf(stmt)) : ParamsOf(stmt)[i].name # ""
<1>1. /\ \A k \in 1..Len(Slots(stmt)) : Slots(stmt)[k] \in Range(stmt.params)
      /\ \A i \in 1..Len(ParamsOf(stmt)) : ParamsOf(stmt)[i] \in Range(stmt.params)
  BY SlotsFound
<1>2. \A p \in Range(stmt.params) : p.name # ""
  BY DEF Positional
<1>3. QED
  BY <1>1, <1>2, Zenon

---------------------------------------------------------------------------
(* The arguments of the call, and those that are left after the first u.   *)
GivenType ==
  /\ calling.given \in Seq(ArgType)
  /\ \A j \in 1..Len(calling.given) : calling.given[j].id = j
Remains(values, u) ==
  /\ values \in Seq(ArgType) /\ u \in Nat /\ u + Len(values) = Len(calling.given)
  /\ \A i \in 1..Len(values) : values[i] = calling.given[u + i]

(* LastOf chooses the largest of numbers that are bounded.                 *)
LEMMA LastOfIs ==
  ASSUME NEW n \in Nat, NEW S \in SUBSET (1..n), S # {}
  PROVE  LastOf(S) \in S /\ \A m \in S : LastOf(S) >= m
<1> DEFINE T == {x \in Nat : n - x \in S}
<1>1. T # {}
  <2>1. PICK m \in S : TRUE
    OBVIOUS
  <2>2. n - m \in T
    OBVIOUS
  <2>3. QED
    BY <2>2
<1>2. PICK x \in T : \A y \in T : x <= y
  <2> HIDE DEF T
  <2>1. T \in SUBSET Nat
    BY DEF T
  <2>2. QED
    BY <1>1, <2>1, LeastNat
<1>3. n - x \in S
  BY <1>2
<1>4. \A m \in S : n - x >= m
  <2> TAKE m \in S
  <2>1. n - m \in T /\ x \in Nat
    OBVIOUS
  <2>2. x <= n - m
    BY <1>2, <2>1
  <2>3. QED
    BY <2>1, <2>2
<1>5. QED
  BY <1>3, <1>4, Zenon DEF LastOf

LEMMA LastOfSingle ==
  ASSUME NEW i \in Nat
  PROVE  LastOf({i}) = i
BY DEF LastOf

(* An argument carried to SQLite is no NULL.                               *)
LEMMA CarriedIs ==
  ASSUME NEW arg, NEW type
  PROVE  /\ Carried(arg, type) # Null
         /\ Carried(arg, type).name = arg.name
         /\ Carried(arg, type).id = arg.id
         /\ Carried(arg, type).as = type
<1>1. DOMAIN Carried(arg, type) = {"name", "id", "as"}
  BY DEF Carried
<1>2. DOMAIN Null = {}
  BY DEF Null
<1>3. Carried(arg, type) # Null
  BY <1>1, <1>2
<1>4. QED
  BY <1>3 DEF Carried

(* The arguments that SQLite binds to a slot, and the one that counts.     *)
Takers(stmt, passed, k) ==
  {i \in DOMAIN passed : IF passed[i].name = "" THEN i = k ELSE passed[i].name = Slots(stmt)[k].name}

(* What a slot holds after the binding.                                    *)
LEMMA BoundIs ==
  ASSUME NEW stmt, NEW passed, NEW k \in DOMAIN Slots(stmt)
  PROVE  BoundTo(stmt, passed)[k] = IF Takers(stmt, passed, k) = {} THEN Null ELSE passed[LastOf(Takers(stmt, passed, k))]
BY DEF BoundTo, Takers, Slots

LEMMA BoundDomain ==
  ASSUME NEW stmt, NEW passed
  PROVE  DOMAIN BoundTo(stmt, passed) = DOMAIN Slots(stmt)
BY DEF BoundTo, Slots

(* What is passed for the parameter i: the argument ValueFor finds.        *)
LEMMA PassedIs ==
  ASSUME NEW values, NEW params, NEW i \in DOMAIN params
  PROVE  /\ GetArgs(values, params)[i] # Null
         /\ GetArgs(values, params)[i].name = ValueFor(values, params[i], i).name
         /\ GetArgs(values, params)[i].id = ValueFor(values, params[i], i).id
         /\ GetArgs(values, params)[i].as = params[i].type
<1>1. GetArgs(values, params)[i] = Carried(ValueFor(values, params[i], i), params[i].type)
  BY DEF GetArgs
<1> DEFINE arg == ValueFor(values, params[i], i)
<1>2. /\ Carried(arg, params[i].type) # Null
      /\ Carried(arg, params[i].type).name = arg.name
      /\ Carried(arg, params[i].type).id = arg.id
      /\ Carried(arg, params[i].type).as = params[i].type
  BY CarriedIs
<1>3. QED
  BY <1>1, <1>2, Zenon

(* The ways in which a parameter is reached.                               *)
LEMMA MarkNull ==
  ASSUME NEW stmt, NEW k, NEW place, Slots(stmt)[k].name = "",
         place \in DOMAIN calling.given, calling.given[place].name # ""
  PROVE  Reached(stmt, k, place, Null)
BY DEF Reached, Slots

LEMMA MarkReached ==
  ASSUME NEW stmt, NEW k, NEW place, NEW b, Slots(stmt)[k].name = "",
         place \in DOMAIN calling.given, calling.given[place].name = "",
         b # Null, b.id = place, InOrder(stmt) => b.as = Slots(stmt)[k].type
  PROVE  Reached(stmt, k, place, b)
BY DEF Reached, Slots

LEMMA MisspeltReached ==
  ASSUME NEW stmt, NEW k, NEW place, NEW b, Slots(stmt)[k].name # "",
         OfName(Slots(stmt)[k].name) = {}, b = Null \/ b.name = ""
  PROVE  Reached(stmt, k, place, b)
BY DEF Reached, Slots

LEMMA NamedReached ==
  ASSUME NEW stmt, NEW k, NEW place, NEW b, Slots(stmt)[k].name # "",
         OfName(Slots(stmt)[k].name) # {}, b # Null,
         (\A p \in Range(stmt.params) : OfName(p.name) # {})
           => b.id = LastOf(OfName(Slots(stmt)[k].name)) /\ b.as = Slots(stmt)[k].type
  PROVE  Reached(stmt, k, place, b)
BY DEF Reached, Slots

(* A question mark gets the argument in its place in the call, or NULL     *)
(* when that has a name.                                                   *)
LEMMA PositionalReached ==
  ASSUME NEW stmt \in StmtType, WellFormed(stmt), ~ MixedMode(stmt), Positional(stmt),
         GivenType, NEW values, NEW u, Remains(values, u), CanGetArgs(values, ParamsOf(stmt)),
         NEW k \in 1..Len(Slots(stmt))
  PROVE  Reached(stmt, k, k + u, BoundTo(stmt, GetArgs(values, ParamsOf(stmt)))[k])
<1> DEFINE params == ParamsOf(stmt)
           passed == GetArgs(values, params)
           n == Len(params)
           slots == Slots(stmt)
           b == BoundTo(stmt, passed)[k]
           S == Takers(stmt, passed, k)
           given == calling.given
<1>1. /\ Len(slots) = n /\ \A i \in 1..n : slots[i].name = "" /\ params[i].name = ""
  BY PositionalSlots
<1>2. /\ params \in Seq(ParamType) /\ slots \in Seq(ParamType)
      /\ InOrder(stmt) => params = slots
  BY SlotsFound
<1>3. Len(values) >= n
  BY DEF CanGetArgs
<1>4. DOMAIN passed = DOMAIN params
  BY DEF GetArgs
<1>5. b = IF S = {} THEN Null ELSE passed[LastOf(S)]
  BY <1>2, BoundIs
<1>6. S = {i \in DOMAIN passed : IF passed[i].name = "" THEN i = k ELSE passed[i].name = slots[k].name}
  BY DEF Takers
<1>7. /\ values \in Seq(ArgType) /\ u \in Nat /\ u + Len(values) = Len(given)
      /\ \A i \in 1..Len(values) : values[i] = given[u + i]
      /\ given \in Seq(ArgType)
      /\ \A j \in 1..Len(given) : given[j].id = j
  BY DEF GivenType, Remains
<1>8. \A i \in DOMAIN params : params[i].name = "" => ValueFor(values, params[i], i) = values[i]
  BY DEF ValueFor
<1>9. \A i \in DOMAIN params : passed[i] # Null /\ passed[i].name = ValueFor(values, params[i], i).name
        /\ passed[i].id = ValueFor(values, params[i], i).id /\ passed[i].as = params[i].type
  BY PassedIs
<1> HIDE DEF params, passed, n, slots, b, S, given
<1>11. /\ k \in 1..n /\ n \in Nat /\ DOMAIN params = 1..n /\ slots[k].name = ""
       /\ \A i \in 1..n : passed[i].name = given[u + i].name /\ passed[i].id = values[i].id
       /\ k \in 1..Len(values) /\ u + k \in 1..Len(given) /\ u + k = k + u /\ k + u \in DOMAIN given
  <2>1. n \in Nat /\ DOMAIN params = 1..n
    BY <1>2 DEF n
  <2>2. k \in 1..n /\ slots[k].name = ""
    BY <1>1 DEF slots
  <2>3. \A i \in 1..n : i \in 1..Len(values)
    <3>1. Len(values) \in Nat
      BY <1>7
    <3>2. QED
      BY <1>3, <2>1, <3>1
  <2>4. \A i \in 1..n : passed[i].name = given[u + i].name /\ passed[i].id = values[i].id
    <3> TAKE i \in 1..n
    <3>1. i \in DOMAIN params /\ params[i].name = ""
      BY <1>1, <2>1
    <3>2. ValueFor(values, params[i], i) = values[i]
      BY <1>8, <3>1
    <3>3. passed[i].name = values[i].name /\ passed[i].id = values[i].id
      BY <1>9, <3>1, <3>2
    <3>4. values[i] = given[u + i]
      BY <1>7, <2>3
    <3>5. QED
      BY <3>3, <3>4
  <2>5. k \in 1..Len(values) /\ u + k \in 1..Len(given) /\ u + k = k + u /\ k + u \in DOMAIN given
    <3>1. values \in Seq(ArgType) /\ given \in Seq(ArgType)
      BY <1>7
    <3>2. Len(values) \in Nat /\ Len(given) \in Nat /\ DOMAIN given = 1..Len(given)
      BY <3>1
    <3>3. k \in 1..Len(values)
      BY <2>2, <2>3
    <3>4. u \in Nat /\ u + Len(values) = Len(given)
      BY <1>7
    <3>5. QED
      BY <3>2, <3>3, <3>4
  <2>6. QED
    BY <2>1, <2>2, <2>4, <2>5
<1>12. CASE given[k + u].name # ""
  <2>1. \A i \in 1..n : i \notin S
    BY <1>6, <1>11, <1>12
  <2>2. S = {}
    BY <1>4, <1>6, <1>11, <2>1
  <2>3. b = Null
    BY <1>5, <2>2
  <2>4. Reached(stmt, k, k + u, Null)
    BY <1>11, <1>12, MarkNull DEF given, slots
  <2>5. Reached(stmt, k, k + u, b)
    BY <2>3, <2>4
  <2>6. QED
    BY <2>5 DEF b, passed, params
<1>13. CASE given[k + u].name = ""
  <2>1. \A i \in 1..n : i \in S <=> i = k
    BY <1>4, <1>6, <1>11, <1>13
  <2>2. S = {k}
    BY <1>4, <1>6, <1>11, <2>1
  <2>3. b = passed[k]
    <3>1. S # {} /\ LastOf(S) = k
      <4>1. k \in Nat
        <5>1. k \in 1..n /\ n \in Nat
          BY <1>11
        <5>2. QED
          BY <5>1
      <4>2. LastOf({k}) = k
        BY <4>1, LastOfSingle
      <4>3. QED
        BY <2>2, <4>2
    <3>2. QED
      BY <1>5, <3>1
  <2>4. b # Null /\ b.id = k + u
    <3>1. b # Null /\ b.id = values[k].id
      BY <1>9, <1>11, <2>3
    <3>2. values[k] = given[u + k] /\ given[u + k].id = u + k
      BY <1>7, <1>11
    <3>3. QED
      BY <1>11, <3>1, <3>2
  <2>5. InOrder(stmt) => b.as = slots[k].type
    BY <1>2, <1>9, <1>11, <2>3
  <2>6. Reached(stmt, k, k + u, b)
    BY <1>11, <1>13, <2>4, <2>5, MarkReached DEF given, slots
  <2>7. QED
    BY <2>6 DEF b, passed, params
<1>14. QED
  <2>1. given[k + u].name = "" \/ given[k + u].name # ""
    OBVIOUS
  <2>2. QED
    BY <1>12, <1>13, <2>1

(* While no argument is used the remaining ones are those of the call.     *)
LEMMA NothingUsed ==
  ASSUME GivenType, NEW values, Remains(values, 0)
  PROVE  values = calling.given
<1>1. values \in Seq(ArgType) /\ calling.given \in Seq(ArgType) /\ 0 + Len(values) = Len(calling.given)
  BY DEF GivenType, Remains
<1>2. \A i \in 1..Len(values) : values[i] = calling.given[0 + i]
  BY DEF Remains
<1>3. Len(values) = Len(calling.given) /\ \A i \in 1..Len(values) : 0 + i = i
  BY <1>1
<1>4. \A i \in 1..Len(values) : values[i] = calling.given[i]
  BY <1>2, <1>3
<1>5. QED
  BY <1>1, <1>3, <1>4

(* What ValueFor finds among all arguments.                                *)
LEMMA ValueIs ==
  ASSUME GivenType, NEW p, p.name # "", NEW i
  PROVE  /\ OfName(p.name) = {} => ValueFor(calling.given, p, i) = calling.given[i]
         /\ OfName(p.name) # {} => /\ LastOf(OfName(p.name)) \in DOMAIN calling.given
                                   /\ ValueFor(calling.given, p, i) = calling.given[LastOf(OfName(p.name))]
                                   /\ ValueFor(calling.given, p, i).name = p.name
                                   /\ ValueFor(calling.given, p, i).id = LastOf(OfName(p.name))
<1> DEFINE S == OfName(p.name)
<1>1. /\ DOMAIN calling.given = 1..Len(calling.given) /\ Len(calling.given) \in Nat
      /\ \A j \in 1..Len(calling.given) : calling.given[j].id = j
  <2>1. calling.given \in Seq(ArgType)
    BY DEF GivenType
  <2>2. DOMAIN calling.given = 1..Len(calling.given) /\ Len(calling.given) \in Nat
    BY <2>1, SeqIs, Zenon
  <2>3. QED
    BY <2>2 DEF GivenType
<1>2. S = {j \in DOMAIN calling.given : calling.given[j].name = p.name}
  BY DEF OfName
<1>3. ValueFor(calling.given, p, i) = IF S = {} THEN calling.given[i] ELSE calling.given[LastOf(S)]
  BY <1>2 DEF ValueFor
<1> HIDE DEF S
<1>4. S # {} => LastOf(S) \in S
  <2>1. S \in SUBSET (1..Len(calling.given))
    BY <1>1, <1>2
  <2>2. QED
    BY <1>1, <2>1, LastOfIs
<1>5. S # {} => LastOf(S) \in 1..Len(calling.given) /\ calling.given[LastOf(S)].name = p.name
  BY <1>1, <1>2, <1>4
<1>6. QED
  BY <1>1, <1>3, <1>5 DEF S

(* A named parameter gets the last argument of its name; a misspelt one    *)
(* nothing, or what has no name and stands in its place.                   *)
LEMMA NamedHolds ==
  ASSUME NEW stmt \in StmtType, WellFormed(stmt), ~ Positional(stmt),
         GivenType, CanGetArgs(calling.given, ParamsOf(stmt)),
         NEW k \in 1..Len(Slots(stmt)), NEW place
  PROVE  Reached(stmt, k, place, BoundTo(stmt, GetArgs(calling.given, ParamsOf(stmt)))[k])
<1> DEFINE params == ParamsOf(stmt)
           given == calling.given
           passed == GetArgs(given, params)
           n == Len(params)
           slots == Slots(stmt)
           name == slots[k].name
           b == BoundTo(stmt, passed)[k]
           S == Takers(stmt, passed, k)
<1>1. /\ params \in Seq(ParamType) /\ slots \in Seq(ParamType)
      /\ \A j \in 1..Len(slots) : \E i \in 1..n : params[i].name = slots[j].name
      /\ \A i, j \in 1..n : params[i].name = params[j].name /\ params[i].name # "" => i = j
      /\ \A i \in 1..n : params[i] \in Range(stmt.params)
  BY SlotsFound
<1>2. n \in Nat /\ DOMAIN params = 1..n /\ DOMAIN slots = 1..Len(slots)
  <2>1. params \in Seq(ParamType) /\ slots \in Seq(ParamType)
    BY <1>1
  <2> HIDE DEF params, slots
  <2>2. QED
    BY <2>1
<1>3. name # "" /\ \A i \in 1..n : params[i].name # ""
  BY NamedSlots
<1>4. DOMAIN passed = 1..n
  BY <1>2 DEF GetArgs
<1>5. b = IF S = {} THEN Null ELSE passed[LastOf(S)]
  BY <1>2, BoundIs
<1>6. S = {i \in 1..n : IF passed[i].name = "" THEN i = k ELSE passed[i].name = name}
  BY <1>4 DEF Takers
<1>7. \A i \in 1..n : passed[i] # Null /\ passed[i].name = ValueFor(given, params[i], i).name
        /\ passed[i].id = ValueFor(given, params[i], i).id /\ passed[i].as = params[i].type
  BY <1>2, PassedIs
<1>8. S # {} => LastOf(S) \in S
  <2>1. S \in SUBSET (1..n)
    BY <1>6
  <2>2. QED
    BY <1>2, <2>1, LastOfIs
<1>9. \A i \in 1..n :
        /\ OfName(params[i].name) = {} => ValueFor(given, params[i], i) = given[i]
        /\ OfName(params[i].name) # {} => /\ passed[i].name = params[i].name
                                          /\ passed[i].id = LastOf(OfName(params[i].name))
  <2> TAKE i \in 1..n
  <2>1. params[i].name # ""
    BY <1>3
  <2>2. /\ OfName(params[i].name) = {} => ValueFor(given, params[i], i) = given[i]
        /\ OfName(params[i].name) # {} => /\ ValueFor(given, params[i], i).name = params[i].name
                                          /\ ValueFor(given, params[i], i).id = LastOf(OfName(params[i].name))
    BY <2>1, ValueIs
  <2>3. QED
    BY <1>7, <2>2
<1>10. PICK i \in 1..n : params[i].name = name
  BY <1>1
<1>11. /\ \A j \in 1..Len(given) : given[j].name = name => OfName(name) # {}
       /\ n <= Len(given) /\ Len(given) \in Nat
  <2>1. given \in Seq(ArgType)
    BY DEF GivenType
  <2>2. DOMAIN given = 1..Len(given) /\ Len(given) \in Nat
    BY <2>1
  <2>3. Len(given) >= n
    BY DEF CanGetArgs
  <2>4. QED
    BY <1>2, <2>2, <2>3 DEF OfName
<1>12. params[i].type = slots[k].type
  BY <1>3, <1>10, OneType
<1>13. \A j \in 1..n : params[j] \in Range(stmt.params)
  BY <1>1
<1> HIDE DEF params, given, passed, n, slots, name, b, S
<1>14. CASE OfName(name) # {}
  <2>1. passed[i].name = name /\ passed[i].id = LastOf(OfName(name))
    BY <1>9, <1>10, <1>14
  <2>2. i \in S
    BY <1>3, <1>6, <1>10, <2>1
  <2>3. LastOf(S) \in S /\ b = passed[LastOf(S)]
    BY <1>5, <1>8, <2>2
  <2>4. b # Null
    BY <1>6, <1>7, <2>3
  <2>5. ASSUME \A p \in Range(stmt.params) : OfName(p.name) # {}
        PROVE  b.id = LastOf(OfName(name)) /\ b.as = slots[k].type
    <3>1. \A j \in 1..n : passed[j].name = params[j].name
      BY <1>9, <1>13, <2>5
    <3>2. \A j \in S : j = i
      BY <1>1, <1>3, <1>6, <1>10, <3>1 DEF params, n
    <3>3. b = passed[i]
      BY <2>3, <3>2
    <3>4. b.as = params[i].type
      BY <1>7, <1>10, <3>3
    <3>5. QED
      BY <1>12, <2>1, <3>3, <3>4
  <2>6. Reached(stmt, k, place, b)
    <3>1. slots[k].name # "" /\ OfName(slots[k].name) # {}
      BY <1>3, <1>14 DEF name
    <3>2. (\A p \in Range(stmt.params) : OfName(p.name) # {}) => b.id = LastOf(OfName(slots[k].name)) /\ b.as = slots[k].type
      BY <2>5 DEF name
    <3> HIDE DEF slots
    <3>3. QED
      BY <2>4, <3>1, <3>2, NamedReached DEF slots
  <2>7. QED
    BY <2>6 DEF b, passed, params, given
<1>15. CASE OfName(name) = {}
  <2>1. b = Null \/ b.name = ""
    <3>1. SUFFICES ASSUME S # {} PROVE passed[LastOf(S)].name = ""
      BY <1>5
    <3> DEFINE m == LastOf(S)
    <3>2. m \in 1..n /\ (passed[m].name = "" \/ passed[m].name = name)
      BY <1>6, <1>8, <3>1
    <3>3. passed[m].name # name
      <4>1. CASE OfName(params[m].name) = {}
        <5>1. passed[m].name = given[m].name
          BY <1>7, <1>9, <3>2, <4>1
        <5>2. m \in 1..Len(given)
          <6>1. m \in 1..n /\ n \in Nat /\ n <= Len(given) /\ Len(given) \in Nat
            BY <1>2, <1>11, <3>2
          <6> HIDE DEF m
          <6>2. QED
            BY <6>1
        <5>3. QED
          BY <1>11, <1>15, <5>1, <5>2
      <4>2. CASE OfName(params[m].name) # {}
        <5>1. passed[m].name = params[m].name
          BY <1>9, <3>2, <4>2
        <5>2. QED
          BY <1>15, <4>2, <5>1
      <4>3. QED
        BY <4>1, <4>2
    <3>4. QED
      BY <3>2, <3>3
  <2>2. Reached(stmt, k, place, b)
    <3>1. slots[k].name # "" /\ OfName(slots[k].name) = {}
      BY <1>3, <1>15 DEF name
    <3>2. QED
      BY <2>1, <3>1, MisspeltReached DEF slots
  <2>3. QED
    BY <2>2 DEF b, passed, params, given
<1>16. QED
  BY <1>14, <1>15

(* Both together: a statement that gets arguments from what is left.       *)
LEMMA StmtReached ==
  ASSUME NEW stmt \in StmtType, WellFormed(stmt), ~ MixedMode(stmt),
         GivenType, NEW values, NEW u, Remains(values, u), ~ Positional(stmt) => u = 0,
         CanGetArgs(values, ParamsOf(stmt)),
         NEW k \in 1..Len(Slots(stmt)), NEW place, Positional(stmt) => place = k + u
  PROVE  Reached(stmt, k, place, BoundTo(stmt, GetArgs(values, ParamsOf(stmt)))[k])
<1>1. CASE Positional(stmt)
  BY <1>1, PositionalReached
<1>2. CASE ~ Positional(stmt)
  <2>1. values = calling.given
    BY <1>2, NothingUsed
  <2>2. QED
    BY <1>2, <2>1, NamedHolds
<1>3. QED
  BY <1>1, <1>2

---------------------------------------------------------------------------
(* The question marks of the CREATE TABLEs before a statement: what they   *)
(* used is what the code counts.                                           *)
Told(n) == UNION {QuestionMarks(m) : m \in {m \in 1..(n - 1) : calling.stmts[m].kind = "create table"}}

CallType ==
  /\ calling.mode \in {"exec", "prepare"}
  /\ GivenType
  /\ calling.stmts \in Seq(StmtType)
  /\ \A n \in 1..Len(calling.stmts) : WellFormed(calling.stmts[n])

LEMMA StmtOf ==
  ASSUME CallType, NEW n \in 1..Len(calling.stmts)
  PROVE  calling.stmts[n] \in StmtType /\ WellFormed(calling.stmts[n])
<1>1. calling.stmts \in Seq(StmtType)
  BY DEF CallType
<1>2. calling.stmts[n] \in StmtType
  <2> HIDE DEF StmtType
  <2>1. QED
    BY <1>1
<1>3. QED
  BY <1>2 DEF CallType

LEMMA NoMarks ==
  ASSUME NEW m, ~ Positional(calling.stmts[m])
  PROVE  QuestionMarks(m) = {}
BY DEF QuestionMarks, Positional, Range

(* A statement has as many question marks as parameters.                   *)
LEMMA MarksCounted ==
  ASSUME CallType, NEW m \in 1..Len(calling.stmts), Positional(calling.stmts[m]), ~ MixedMode(calling.stmts[m])
  PROVE  IsFiniteSet(QuestionMarks(m)) /\ Cardinality(QuestionMarks(m)) = Len(ParamsOf(calling.stmts[m]))
<1> DEFINE stmt == calling.stmts[m]
           n == Len(stmt.params)
           f == [j \in 1..n |-> <<m, j>>]
<1>1. stmt \in StmtType /\ WellFormed(stmt)
  BY StmtOf
<1>2. n \in Nat /\ DOMAIN stmt.params = 1..n
  BY <1>1, StmtFields
<1>3. Len(ParamsOf(stmt)) = n /\ \A i \in 1..n : stmt.params[i].name = ""
  BY <1>1, PositionalSlots
<1>4. QuestionMarks(m) = {<<m, j>> : j \in {j \in DOMAIN stmt.params : stmt.params[j].name = ""}}
  BY DEF QuestionMarks
<1> HIDE DEF stmt, n
<1>5. {j \in DOMAIN stmt.params : stmt.params[j].name = ""} = 1..n
  BY <1>2, <1>3
<1>6. QuestionMarks(m) = {<<m, j>> : j \in 1..n}
  BY <1>4, <1>5
<1>7. f \in Bijection(1..n, QuestionMarks(m))
  BY <1>6 DEF Bijection, Injection, Surjection, IsInjective
<1>8. IsFiniteSet(1..n) /\ Cardinality(1..n) = n
  <2>1. 1 \in Int /\ n \in Int
    BY <1>2
  <2>2. IsFiniteSet(1..n) /\ Cardinality(1..n) = IF 1 > n THEN 0 ELSE n - 1 + 1
    BY <2>1, FS_Interval
  <2>3. QED
    BY <1>2, <2>2
<1>9. ExistsBijection(1..n, QuestionMarks(m))
  BY <1>7 DEF ExistsBijection
<1>10. QED
  BY <1>3, <1>8, <1>9, FS_Bijection DEF stmt

(* The next statement adds its question marks when it is a CREATE TABLE.   *)
LEMMA ToldNext ==
  ASSUME CallType, NEW n \in 1..Len(calling.stmts), IsFiniteSet(Told(n)), ~ MixedMode(calling.stmts[n])
  PROVE  /\ IsFiniteSet(Told(n + 1))
         /\ Cardinality(Told(n + 1)) =
              IF Positional(calling.stmts[n]) /\ calling.stmts[n].kind = "create table"
              THEN Cardinality(Told(n)) + Len(ParamsOf(calling.stmts[n])) ELSE Cardinality(Told(n))
<1>1. calling.stmts \in Seq(StmtType)
  BY DEF CallType
<1>2. n \in Nat /\ n >= 1
  <2>1. Len(calling.stmts) \in Nat
    BY <1>1, SeqIs, Zenon
  <2>2. QED
    BY <2>1
<1>3. \A m : m \in 1..((n + 1) - 1) <=> m \in 1..(n - 1) \/ m = n
  BY <1>2
<1>4. ~ (n \in 1..(n - 1))
  BY <1>2
<1>5. CASE calling.stmts[n].kind = "create table"
  <2>1. Told(n + 1) = Told(n) \union QuestionMarks(n)
    BY <1>3, <1>5 DEF Told
  <2>2. Told(n) \cap QuestionMarks(n) = {}
    <3>1. \A x \in Told(n) : \E m \in 1..(n - 1) : \E j : x = <<m, j>>
      BY DEF Told, QuestionMarks
    <3>2. \A x \in QuestionMarks(n) : \E j : x = <<n, j>>
      BY DEF QuestionMarks
    <3>3. QED
      BY <1>4, <3>1, <3>2
  <2>3. CASE Positional(calling.stmts[n])
    <3>1. IsFiniteSet(QuestionMarks(n)) /\ Cardinality(QuestionMarks(n)) = Len(ParamsOf(calling.stmts[n]))
      BY <2>3, MarksCounted
    <3>2. /\ IsFiniteSet(Told(n) \union QuestionMarks(n))
          /\ Cardinality(Told(n) \union QuestionMarks(n)) =
               Cardinality(Told(n)) + Cardinality(QuestionMarks(n)) - Cardinality(Told(n) \cap QuestionMarks(n))
      BY <3>1, FS_Union
    <3>3. Cardinality({}) = 0 /\ Cardinality(Told(n)) \in Nat /\ Cardinality(QuestionMarks(n)) \in Nat
      BY <3>1, FS_EmptySet, FS_CardinalityType
    <3>4. Cardinality(Told(n) \union QuestionMarks(n)) = Cardinality(Told(n)) + Cardinality(QuestionMarks(n))
      <4>1. Cardinality(Told(n) \cap QuestionMarks(n)) = 0
        BY <2>2, <3>3
      <4>2. QED
        BY <3>2, <3>3, <4>1
    <3>5. QED
      BY <1>5, <2>1, <2>3, <3>1, <3>2, <3>4
  <2>4. CASE ~ Positional(calling.stmts[n])
    <3>1. QuestionMarks(n) = {}
      BY <2>4, NoMarks
    <3>2. Told(n + 1) = Told(n)
      BY <2>1, <3>1
    <3>3. QED
      BY <2>4, <3>2
  <2>5. QED
    BY <2>3, <2>4
<1>6. CASE calling.stmts[n].kind # "create table"
  <2>1. Told(n + 1) = Told(n)
    BY <1>3, <1>6 DEF Told
  <2>2. QED
    BY <1>6, <2>1
<1>7. QED
  BY <1>5, <1>6

(* Unless the statement is displaced, the question marks before it are all *)
(* those of CREATE TABLEs, and none when it has named parameters.          *)
LEMMA PlaceTold ==
  ASSUME calling.mode = "exec", NEW n, ~ Displaced(n), Positional(calling.stmts[n]), NEW k
  PROVE  PlaceOf(n, k) = k + Cardinality(Told(n))
<1>1. StmtsBefore(n) = 1..(n - 1)
  BY DEF StmtsBefore
<1>2. \A m \in 1..(n - 1) : Positional(calling.stmts[m]) => calling.stmts[m].kind = "create table"
  BY <1>1 DEF Displaced
<1>3. \A m \in 1..(n - 1) : calling.stmts[m].kind # "create table" => QuestionMarks(m) = {}
  BY <1>2, NoMarks
<1>4. UNION {QuestionMarks(m) : m \in 1..(n - 1)} = Told(n)
  BY <1>3 DEF Told
<1>5. QED
  BY <1>1, <1>4 DEF PlaceOf

(* Before a statement with names that is not displaced, there are no       *)
(* question marks.                                                         *)
LEMMA NothingTold ==
  ASSUME calling.mode = "exec", NEW n, ~ Displaced(n), ~ Positional(calling.stmts[n])
  PROVE  Cardinality(Told(n)) = 0
<1>1. StmtsBefore(n) = 1..(n - 1)
  BY DEF StmtsBefore
<1>2. \A m \in 1..(n - 1) : ~ Positional(calling.stmts[m])
  BY <1>1 DEF Displaced
<1>3. \A m \in 1..(n - 1) : QuestionMarks(m) = {}
  BY <1>2, NoMarks
<1>4. Told(n) = {}
  BY <1>3 DEF Told
<1>5. QED
  BY <1>4, FS_EmptySet

(* A prepared statement has the first places of the call.                  *)
LEMMA PlacePrepared ==
  ASSUME calling.mode = "prepare", NEW n, NEW k \in Nat
  PROVE  PlaceOf(n, k) = k + 0
<1>1. StmtsBefore(n) = {}
  BY DEF StmtsBefore
<1>2. UNION {QuestionMarks(m) : m \in {}} = {}
  OBVIOUS
<1>3. QED
  BY <1>1, <1>2, FS_EmptySet DEF PlaceOf

(* What a CREATE TABLE with question marks leaves.                         *)
LEMMA RestShrinks ==
  ASSUME GivenType, NEW values, NEW u, Remains(values, u), NEW n \in Nat, n <= Len(values)
  PROVE  Remains(SubSeq(values, n + 1, Len(values)), u + n)
<1> DEFINE m == Len(values)
           left == SubSeq(values, n + 1, m)
<1>1. values \in Seq(ArgType) /\ u \in Nat /\ u + m = Len(calling.given)
  BY DEF Remains
<1>2. \A i \in 1..m : values[i] = calling.given[u + i]
  BY DEF Remains
<1>3. m \in Nat /\ DOMAIN values = 1..m
  BY <1>1, SeqIs, Zenon
<1>0. n <= m
  OBVIOUS
<1>4. \A i \in (n + 1)..m : values[i] \in ArgType
  <2> HIDE DEF ArgType
  <2>1. \A i \in 1..m : values[i] \in ArgType
    BY <1>1
  <2>2. QED
    BY <1>3, <2>1
<1>5. /\ left \in Seq(ArgType)
      /\ Len(left) = IF n + 1 <= m THEN m - (n + 1) + 1 ELSE 0
      /\ \A i \in 1..(m - (n + 1) + 1) : left[i] = values[(n + 1) + i - 1]
  <2>1. n + 1 \in Int /\ m \in Int
    BY <1>3
  <2> HIDE DEF ArgType, m
  <2>2. QED
    BY <1>4, <2>1, SubSeqProperties
<1> HIDE DEF left, m
<1>6. Len(left) = m - n
  BY <1>0, <1>3, <1>5
<1>7. \A i \in 1..Len(left) : left[i] = calling.given[(u + n) + i]
  <2> TAKE i \in 1..Len(left)
  <2>1. i \in 1..(m - (n + 1) + 1) /\ (n + 1) + i - 1 = n + i /\ n + i \in 1..m /\ u + (n + i) = (u + n) + i
    BY <1>1, <1>3, <1>6
  <2>2. left[i] = values[n + i]
    BY <1>5, <2>1
  <2>3. values[n + i] = calling.given[u + (n + i)]
    BY <1>2, <2>1
  <2>4. QED
    BY <2>1, <2>2, <2>3
<1>8. u + n \in Nat /\ (u + n) + Len(left) = Len(calling.given)
  BY <1>1, <1>3, <1>6
<1>9. Remains(left, u + n)
  BY <1>5, <1>7, <1>8 DEF Remains
<1>10. QED
  BY <1>9 DEF left, m

---------------------------------------------------------------------------
(* A complete call: what is left is enough for the next statement.         *)
LEMMA MarksEnough ==
  ASSUME NEW stmt \in StmtType, WellFormed(stmt), ~ MixedMode(stmt), Positional(stmt), InOrder(stmt),
         GivenType, NEW values, NEW u, Remains(values, u),
         \A k \in 1..Len(stmt.params) : Fits(stmt.params[k], k + u)
  PROVE  CanGetArgs(values, ParamsOf(stmt))
<1> DEFINE params == ParamsOf(stmt)
           n == Len(stmt.params)
           given == calling.given
<1>1. /\ Len(params) = n /\ params \in Seq(ParamType)
      /\ \A i \in 1..n : stmt.params[i].name = "" /\ params[i] = stmt.params[i]
  BY PositionalSlots, SlotsFound
<1>2. n \in Nat /\ DOMAIN params = 1..n
  BY <1>1, SeqIs, Zenon
<1>3. /\ u \in Nat /\ u + Len(values) = Len(given) /\ Len(values) \in Nat
      /\ DOMAIN given = 1..Len(given)
  <2>1. given \in Seq(ArgType) /\ values \in Seq(ArgType)
    BY DEF GivenType, Remains
  <2>2. Len(values) \in Nat /\ DOMAIN given = 1..Len(given)
    BY <2>1, SeqIs, Zenon
  <2>3. QED
    BY <2>2 DEF Remains
<1>4. \A i \in 1..n : i + u \in DOMAIN given /\ CanEncode(given[i + u], params[i].type)
  BY <1>1 DEF Fits
<1>5. \A i \in DOMAIN params : ValueFor(values, params[i], i) = values[i]
  BY <1>1, <1>2 DEF ValueFor
<1>6. \A i \in 1..Len(values) : values[i] = given[u + i]
  BY DEF Remains
<1> HIDE DEF params, n, given
<1>7. Len(values) >= n
  <2>1. CASE n = 0
    BY <1>3, <2>1
  <2>2. CASE n # 0
    <3>1. n \in 1..n
      BY <1>2, <2>2
    <3>2. n + u \in 1..Len(given)
      BY <1>3, <1>4, <3>1
    <3>3. QED
      BY <1>2, <1>3, <3>2
  <2>3. QED
    BY <2>1, <2>2
<1>8. \A i \in DOMAIN params : CanEncode(ValueFor(values, params[i], i), params[i].type)
  <2> TAKE i \in DOMAIN params
  <2>1. i \in 1..n /\ i \in 1..Len(values) /\ u + i = i + u
    BY <1>2, <1>3, <1>7
  <2>2. ValueFor(values, params[i], i) = given[i + u]
    BY <1>5, <1>6, <2>1
  <2>3. QED
    BY <1>4, <2>1, <2>2
<1>9. QED
  BY <1>1, <1>7, <1>8 DEF CanGetArgs, params, n

LEMMA NamesEnough ==
  ASSUME NEW stmt \in StmtType, WellFormed(stmt), ~ Positional(stmt), GivenType,
         \A p \in Range(stmt.params) :
           OfName(p.name) # {} /\ CanEncode(calling.given[LastOf(OfName(p.name))], p.type)
  PROVE  CanGetArgs(calling.given, ParamsOf(stmt))
<1> DEFINE params == ParamsOf(stmt)
           n == Len(params)
           given == calling.given
           f == [i \in 1..n |-> LastOf(OfName(params[i].name))]
<1>1. /\ params \in Seq(ParamType)
      /\ \A i, j \in 1..n : params[i].name = params[j].name /\ params[i].name # "" => i = j
      /\ \A i \in 1..n : params[i] \in Range(stmt.params)
  BY SlotsFound
<1>2. n \in Nat /\ DOMAIN params = 1..n
  BY <1>1, SeqIs, Zenon
<1>3. \A i \in 1..n : params[i].name # ""
  BY NamedSlots
<1>4. DOMAIN given = 1..Len(given) /\ Len(given) \in Nat
  <2>1. given \in Seq(ArgType)
    BY DEF GivenType
  <2>2. QED
    BY <2>1, SeqIs, Zenon
<1>5. \A i \in 1..n : OfName(params[i].name) # {} /\ CanEncode(given[LastOf(OfName(params[i].name))], params[i].type)
  BY <1>1
<1>6. \A i \in 1..n :
        /\ LastOf(OfName(params[i].name)) \in DOMAIN given
        /\ ValueFor(given, params[i], i) = given[LastOf(OfName(params[i].name))]
        /\ ValueFor(given, params[i], i).name = params[i].name
  <2> TAKE i \in 1..n
  <2>1. params[i].name # "" /\ OfName(params[i].name) # {}
    BY <1>3, <1>5
  <2> DEFINE p == params[i]
  <2>2. p.name # "" /\ OfName(p.name) # {}
    BY <2>1
  <2> HIDE DEF p
  <2>3. /\ LastOf(OfName(p.name)) \in DOMAIN calling.given
        /\ ValueFor(calling.given, p, i) = calling.given[LastOf(OfName(p.name))]
        /\ ValueFor(calling.given, p, i).name = p.name
    BY <2>2, ValueIs
  <2>4. QED
    BY <2>3 DEF p
<1>7. f \in Injection(1..n, 1..Len(given))
  <2>1. f \in [1..n -> 1..Len(given)]
    BY <1>4, <1>6
  <2>2. ASSUME NEW i \in 1..n, NEW j \in 1..n, f[i] = f[j] PROVE i = j
    <3>1. given[f[i]].name = params[i].name /\ given[f[j]].name = params[j].name
      BY <1>6
    <3>2. params[i].name = params[j].name
      BY <2>2, <3>1
    <3>3. QED
      BY <1>1, <1>3, <3>2
  <2> HIDE DEF f
  <2>3. QED
    BY <2>1, <2>2 DEF Injection, IsInjective
<1>8. n <= Len(given)
  <2>1. /\ IsFiniteSet(1..Len(given)) /\ Cardinality(1..Len(given)) = Len(given)
        /\ Cardinality(1..n) = n
    <3>1. 1 \in Int /\ n \in Int /\ Len(given) \in Int
      BY <1>2, <1>4
    <3>2. /\ IsFiniteSet(1..Len(given)) /\ Cardinality(1..Len(given)) = IF 1 > Len(given) THEN 0 ELSE Len(given) - 1 + 1
          /\ Cardinality(1..n) = IF 1 > n THEN 0 ELSE n - 1 + 1
      BY <3>1, FS_Interval
    <3> HIDE DEF n, given
    <3>3. QED
      BY <1>2, <1>4, <3>2
  <2> HIDE DEF f, n
  <2>2. Cardinality(1..n) <= Cardinality(1..Len(given))
    BY <1>7, <2>1, FS_Injection
  <2>3. QED
    BY <2>1, <2>2
<1>9. \A i \in DOMAIN params : CanEncode(ValueFor(given, params[i], i), params[i].type)
  BY <1>2, <1>5, <1>6
<1>10. Len(given) >= Len(params)
  <2> HIDE DEF params, given
  <2>1. QED
    BY <1>2, <1>4, <1>8
<1>11. QED
  BY <1>9, <1>10 DEF CanGetArgs

(* The arguments that fit are enough for getArgsFromParams.                *)
LEMMA Enough ==
  ASSUME NEW stmt \in StmtType, WellFormed(stmt), ~ MixedMode(stmt), InOrder(stmt),
         GivenType, NEW values, NEW u, Remains(values, u), ~ Positional(stmt) => u = 0,
         Positional(stmt) => \A k \in 1..Len(stmt.params) : Fits(stmt.params[k], k + u),
         \A k \in 1..Len(stmt.params) : \E place : Fits(stmt.params[k], place)
  PROVE  CanGetArgs(values, ParamsOf(stmt))
<1>1. DOMAIN stmt.params = 1..Len(stmt.params)
  BY StmtFields
<1>2. CASE Positional(stmt)
  <2>1. \A k \in 1..Len(stmt.params) : Fits(stmt.params[k], k + u)
    BY <1>2
  <2>2. QED
    BY <1>2, <2>1, MarksEnough
<1>3. CASE ~ Positional(stmt)
  <2>1. values = calling.given
    BY <1>3, NothingUsed
  <2>2. ASSUME NEW p \in Range(stmt.params)
        PROVE  OfName(p.name) # {} /\ CanEncode(calling.given[LastOf(OfName(p.name))], p.type)
    <3>1. PICK k \in 1..Len(stmt.params) : stmt.params[k] = p
      BY <1>1 DEF Range
    <3>2. p.name # ""
      BY <1>3 DEF Positional
    <3>3. QED
      BY <3>1, <3>2 DEF Fits
  <2>3. QED
    BY <1>3, <2>1, <2>2, NamesEnough
<1>4. QED
  BY <1>2, <1>3

---------------------------------------------------------------------------
(* A statement that is no CREATE TABLE, DML or query may have no parameter *)
(* and then needs no argument.                                             *)
LEMMA NoParams ==
  ASSUME NEW stmt \in StmtType, WellFormed(stmt), stmt.params = <<>>,
         NEW values \in Seq(ArgType)
  PROVE  CanGetArgs(values, ParamsOf(stmt))
<1>1. Len(stmt.params) = 0
  OBVIOUS
<1>2. /\ ParamsOf(stmt) \in Seq(ParamType)
      /\ \A i \in 1..Len(ParamsOf(stmt)) : ParamsOf(stmt)[i] \in Range(stmt.params)
  BY SlotsFound
<1>3. Range(stmt.params) = {}
  BY DEF Range
<1>4. DOMAIN ParamsOf(stmt) = 1..Len(ParamsOf(stmt)) /\ Len(ParamsOf(stmt)) \in Nat /\ Len(values) \in Nat
  BY <1>2, SeqIs, Zenon
<1>5. DOMAIN ParamsOf(stmt) = {}
  BY <1>2, <1>3, <1>4
<1>6. Len(ParamsOf(stmt)) = 0
  <2>1. Len(ParamsOf(stmt)) > 0 => 1 \in 1..Len(ParamsOf(stmt))
    BY <1>4
  <2>2. QED
    BY <1>4, <1>5, <2>1
<1>7. QED
  BY <1>4, <1>5, <1>6 DEF CanGetArgs

(* What the arguments left to a statement are.                             *)
RestIs(n) == IsFiniteSet(Told(n)) /\ Remains(rest, Cardinality(Told(n)))
AnsweredBy(n, x) == \A k \in DOMAIN x : Reached(calling.stmts[n], k, PlaceOf(n, k), x[k])
Answered(n) == \A x \in {bound[n]} : AnsweredBy(n, x)

ArgumentsIInv ==
  /\ CallType
  /\ (\E S : bound \in Seq(S)) /\ Len(bound) <= Len(calling.stmts)
  /\ calling.mode = "exec" => \A n \in {Len(bound) + 1} : RestIs(n)
  /\ \A n \in 1..Len(bound) : Executed(n) /\ ~ Displaced(n) => Answered(n)
  /\ refused => ~ Complete

(* The inductive invariant says what was to be shown of the statements     *)
(* that ran and of the refusal.                                            *)
LEMMA IInvReaches == ArgumentsIInv => ArgumentsReach
<1> SUFFICES ASSUME ArgumentsIInv PROVE ArgumentsReach
  OBVIOUS
<1>1. PICK S : bound \in Seq(S)
  BY DEF ArgumentsIInv
<1>2. DOMAIN bound = 1..Len(bound)
  BY <1>1, SeqIs, Zenon
<1>3. /\ \A n \in 1..Len(bound) : Executed(n) /\ ~ Displaced(n) => Answered(n)
      /\ refused => ~ Complete
  BY DEF ArgumentsIInv
<1>4. QED
  BY <1>2, <1>3, Zenon DEF ArgumentsReach, Answered, AnsweredBy

(* Analyze begins with all arguments and no statement.                     *)
LEMMA ArgumentsInitIInv == ArgumentsInit => ArgumentsIInv
<1> SUFFICES ASSUME ArgumentsInit PROVE ArgumentsIInv
  OBVIOUS
<1>1. PICK i \in DOMAIN ArgumentInputs :
        \E m \in ArgumentInputs[i].modes, g \in ArgumentInputs[i].givens, s \in ArgumentInputs[i].scripts :
          calling = [mode |-> m, given |-> g, stmts |-> s]
  BY DEF ArgumentsInit
<1>2. PICK m \in ArgumentInputs[i].modes, g \in ArgumentInputs[i].givens, s \in ArgumentInputs[i].scripts :
        calling = [mode |-> m, given |-> g, stmts |-> s]
  BY <1>1
<1>3. calling.mode = m /\ calling.given = g /\ calling.stmts = s
  BY <1>2
<1>4. /\ m \in {"exec", "prepare"}
      /\ g \in Seq(ArgType) /\ \A j \in DOMAIN g : g[j].id = j
      /\ s \in Seq(StmtType) /\ \A n \in DOMAIN s : WellFormed(s[n])
  BY <1>2, ArgumentInputsType, Zenon
<1>5. DOMAIN g = 1..Len(g) /\ Len(g) \in Nat /\ DOMAIN s = 1..Len(s) /\ Len(s) \in Nat
  BY <1>4, SeqIs, Zenon
<1>6. CallType
  BY <1>3, <1>4, <1>5, Zenon DEF CallType, GivenType
<1>7. rest = g /\ bound = <<>> /\ ~ refused
  BY <1>3 DEF ArgumentsInit
<1>8. Told(1) = {}
  BY DEF Told
<1>9. RestIs(1)
  <2>1. IsFiniteSet(Told(1)) /\ Cardinality(Told(1)) = 0
    BY <1>8, FS_EmptySet
  <2>2. 0 + Len(g) = Len(g) /\ \A j \in 1..Len(g) : 0 + j = j
    BY <1>5
  <2>3. Remains(rest, 0)
    BY <1>3, <1>4, <1>7, <2>2 DEF Remains
  <2>4. QED
    BY <2>1, <2>3 DEF RestIs
<1>10. /\ bound \in Seq({}) /\ Len(bound) = 0
       /\ 1..Len(bound) = {}
  BY <1>7
<1>11. QED
  BY <1>3, <1>5, <1>6, <1>7, <1>9, <1>10 DEF ArgumentsIInv

(* The call does not change, nor what is said about it alone.              *)
LEMMA CallStays ==
  ASSUME calling' = calling
  PROVE  /\ CallType' = CallType
         /\ Complete' = Complete
         /\ \A n : Told(n)' = Told(n)
         /\ \A n : Executed(n)' = Executed(n)
         /\ \A n : Displaced(n)' = Displaced(n)
<1>1. CallType' = CallType
  BY DEF CallType, GivenType
<1>2. Complete' = Complete
  BY DEF Complete, Fits, OfName, Displaced, StmtsBefore, PlaceOf, QuestionMarks, Executed
<1>3. ASSUME NEW n PROVE Told(n)' = Told(n)
  BY DEF Told, QuestionMarks
<1>4. ASSUME NEW n PROVE Executed(n)' = Executed(n)
  BY DEF Executed
<1>5. ASSUME NEW n PROVE Displaced(n)' = Displaced(n)
  BY DEF Displaced, StmtsBefore
<1>6. QED
  BY <1>1, <1>2, <1>3, <1>4, <1>5

(* What a parameter holds is judged by the call alone, which stays.        *)
LEMMA AnsweredByStays ==
  ASSUME NEW n, NEW x, calling' = calling
  PROVE  AnsweredBy(n, x)' = AnsweredBy(n, x)
BY DEF AnsweredBy, Reached, OfName, PlaceOf, QuestionMarks, StmtsBefore

LEMMA AnsweredStays ==
  ASSUME NEW n, calling' = calling, bound'[n] = bound[n], Answered(n)
  PROVE  Answered(n)'
BY AnsweredByStays DEF Answered

LEMMA AnsweredNow ==
  ASSUME NEW n, calling' = calling, NEW x, bound'[n] = x, AnsweredBy(n, x)
  PROVE  Answered(n)'
BY AnsweredByStays DEF Answered

LEMMA RestNow ==
  ASSUME NEW n, calling' = calling, IsFiniteSet(Told(n)), Remains(rest', Cardinality(Told(n)))
  PROVE  RestIs(n)'
<1>1. Told(n)' = Told(n)
  BY CallStays
<1>2. QED
  BY <1>1 DEF RestIs, Remains

(* One more statement has run.                                             *)
LEMMA Ran ==
  ASSUME ArgumentsIInv, NEW n, n = Len(bound) + 1, n <= Len(calling.stmts),
         NEW x, bound' = Append(bound, x), calling' = calling, refused' = refused,
         Executed(n) /\ ~ Displaced(n) => AnsweredBy(n, x),
         calling.mode = "exec" => RestIs(n + 1)'
  PROVE  ArgumentsIInv'
<1>1. PICK S : bound \in Seq(S)
  BY DEF ArgumentsIInv
<1>2. Len(bound) \in Nat /\ DOMAIN bound = 1..Len(bound)
  BY <1>1, SeqIs, Zenon
<1>3. /\ Len(bound') = n
      /\ \A m \in 1..Len(bound) : bound'[m] = bound[m]
      /\ bound'[n] = x
      /\ n \in 1..n /\ \A m \in 1..n : m \in 1..Len(bound) \/ m = n
  <2>1. /\ Len(bound') = Len(bound) + 1
        /\ \A m \in 1..Len(bound) : bound'[m] = bound[m]
        /\ bound'[Len(bound) + 1] = x
    BY <1>1
  <2>2. QED
    BY <1>2, <2>1
<1>4. bound' \in Seq(S \union {x})
  BY <1>1
<1>5. CallType' /\ Len(bound') <= Len(calling'.stmts)
  BY <1>3, CallStays DEF ArgumentsIInv
<1>6. calling'.mode = "exec" => \A m \in {Len(bound') + 1} : RestIs(m)'
  BY <1>3
<1>7. ASSUME NEW m \in 1..Len(bound'), Executed(m)', ~ Displaced(m)' PROVE Answered(m)'
  <2>1. Executed(m) /\ ~ Displaced(m)
    BY <1>7, CallStays
  <2>2. CASE m \in 1..Len(bound)
    <3>1. Answered(m)
      BY <2>1, <2>2 DEF ArgumentsIInv
    <3>2. QED
      BY <1>3, <2>2, <3>1, AnsweredStays
  <2>3. CASE m = n
    <3>1. AnsweredBy(n, x)
      BY <2>1, <2>3
    <3>2. QED
      BY <1>3, <2>3, <3>1, AnsweredNow
  <2>4. QED
    BY <1>3, <2>2, <2>3
<1>8. refused' => ~ Complete'
  BY CallStays DEF ArgumentsIInv
<1>9. QED
  BY <1>4, <1>5, <1>6, <1>7, <1>8 DEF ArgumentsIInv

(* A call is refused that is not complete.                                 *)
LEMMA Refused ==
  ASSUME ArgumentsIInv, Refuse, ~ Complete
  PROVE  ArgumentsIInv'
<1>1. calling' = calling /\ rest' = rest /\ bound' = bound /\ refused'
  BY DEF Refuse
<1>2. CallType' /\ ~ Complete'
  BY <1>1, CallStays DEF ArgumentsIInv
<1>3. calling'.mode = "exec" => \A n \in {Len(bound') + 1} : RestIs(n)'
  <2> SUFFICES ASSUME calling.mode = "exec", NEW n, n = Len(bound) + 1 PROVE RestIs(n)'
    BY <1>1
  <2>1. RestIs(n)
    BY DEF ArgumentsIInv
  <2>2. QED
    BY <1>1, <2>1, RestNow DEF RestIs
<1>4. ASSUME NEW n \in 1..Len(bound'), Executed(n)', ~ Displaced(n)' PROVE Answered(n)'
  <2>1. Executed(n) /\ ~ Displaced(n) /\ n \in 1..Len(bound)
    BY <1>1, <1>4, CallStays
  <2>2. Answered(n)
    BY <2>1 DEF ArgumentsIInv
  <2>3. QED
    BY <1>1, <2>2, AnsweredStays
<1>5. (\E S : bound' \in Seq(S)) /\ Len(bound') <= Len(calling'.stmts)
  BY <1>1 DEF ArgumentsIInv
<1>6. QED
  BY <1>2, <1>3, <1>4, <1>5 DEF ArgumentsIInv

(* What a statement of an executed script is given.                        *)
LEMMA CanRunGets ==
  ASSUME NEW stmt \in StmtType, WellFormed(stmt), rest \in Seq(ArgType), CanRun(stmt)
  PROVE  ~ MixedMode(stmt) /\ CanGetArgs(rest, ParamsOf(stmt))
<1>1. CASE TakesArguments(stmt)
  BY <1>1 DEF CanRun
<1>2. CASE ~ TakesArguments(stmt)
  <2>1. stmt.params = <<>> /\ ~ MixedMode(stmt)
    BY <1>2 DEF CanRun
  <2>2. QED
    BY <2>1, NoParams
<1>3. QED
  BY <1>1, <1>2

LEMMA UsedIs ==
  ASSUME calling.mode = "exec", NEW n, RestIs(n), ~ Displaced(n)
  PROVE  \E u : /\ Remains(rest, u)
                /\ ~ Positional(calling.stmts[n]) => u = 0
                /\ Positional(calling.stmts[n]) => \A k : PlaceOf(n, k) = k + u
<1> DEFINE u == Cardinality(Told(n))
<1>1. Remains(rest, u)
  BY DEF RestIs
<1>2. ~ Positional(calling.stmts[n]) => u = 0
  BY NothingTold
<1>3. Positional(calling.stmts[n]) => \A k : PlaceOf(n, k) = k + u
  BY PlaceTold
<1>4. QED
  BY <1>1, <1>2, <1>3

(* A statement that can run answers its parameters.                        *)
LEMMA Answers ==
  ASSUME CallType, NEW n \in 1..Len(calling.stmts), ~ MixedMode(calling.stmts[n]),
         NEW values, NEW u, Remains(values, u),
         CanGetArgs(values, ParamsOf(calling.stmts[n])),
         ~ Positional(calling.stmts[n]) => u = 0,
         Positional(calling.stmts[n]) => \A k \in Nat : PlaceOf(n, k) = k + u,
         NEW x, x = BoundTo(calling.stmts[n], GetArgs(values, ParamsOf(calling.stmts[n])))
  PROVE  AnsweredBy(n, x)
<1> DEFINE stmt == calling.stmts[n]
<1>1. stmt \in StmtType /\ WellFormed(stmt) /\ GivenType
  BY StmtOf DEF CallType
<1>2. Slots(stmt) \in Seq(ParamType)
  BY <1>1, SlotsFound
<1>3. DOMAIN x = 1..Len(Slots(stmt)) /\ Len(Slots(stmt)) \in Nat
  <2>1. DOMAIN Slots(stmt) = 1..Len(Slots(stmt)) /\ Len(Slots(stmt)) \in Nat
    BY <1>2, SeqIs, Zenon
  <2>2. QED
    BY <2>1, BoundDomain
<1>4. ASSUME NEW k \in DOMAIN x PROVE Reached(stmt, k, PlaceOf(n, k), x[k])
  <2>1. k \in 1..Len(Slots(stmt)) /\ k \in Nat
    BY <1>3
  <2>2. Positional(stmt) => PlaceOf(n, k) = k + u
    BY <2>1
  <2> HIDE DEF stmt
  <2>3. Reached(stmt, k, PlaceOf(n, k), BoundTo(stmt, GetArgs(values, ParamsOf(stmt)))[k])
    BY <1>1, <2>1, <2>2, StmtReached DEF stmt
  <2>4. QED
    BY <2>3 DEF stmt
<1>5. QED
  BY <1>4 DEF AnsweredBy

(* ExecContext, QueryContext: what a CREATE TABLE used is gone.            *)
LEMMA RunKeepsRest ==
  ASSUME ArgumentsIInv, calling.mode = "exec", NEW n, n = Len(bound) + 1, n \in 1..Len(calling.stmts),
         CanRun(calling.stmts[n]), calling' = calling,
         rest' = Remaining(calling.stmts[n], GetArgs(rest, ParamsOf(calling.stmts[n])))
  PROVE  RestIs(n + 1)'
<1> DEFINE stmt == calling.stmts[n]
           params == ParamsOf(stmt)
           passed == GetArgs(rest, params)
           u == Cardinality(Told(n))
<1>1. /\ CallType /\ GivenType
      /\ IsFiniteSet(Told(n)) /\ Remains(rest, u)
  BY DEF ArgumentsIInv, RestIs, CallType
<1>2. stmt \in StmtType /\ WellFormed(stmt)
  BY <1>1, StmtOf
<1>3. rest \in Seq(ArgType)
  BY <1>1 DEF Remains
<1>4. ~ MixedMode(stmt) /\ CanGetArgs(rest, params)
  BY <1>2, <1>3, CanRunGets
<1>5. /\ IsFiniteSet(Told(n + 1))
      /\ Cardinality(Told(n + 1)) = IF Positional(stmt) /\ stmt.kind = "create table" THEN u + Len(params) ELSE u
  BY <1>1, <1>4, ToldNext
<1>6. CASE Positional(stmt) /\ stmt.kind = "create table"
  <2>1. params \in Seq(ParamType)
    BY <1>2, SlotsFound
  <2>2. Len(params) \in Nat /\ DOMAIN params = 1..Len(params)
    BY <2>1, SeqIs, Zenon
  <2>3. Len(passed) = Len(params)
    <3>1. passed = [i \in 1..Len(params) |-> Carried(ValueFor(rest, params[i], i), params[i].type)]
      BY <2>2 DEF GetArgs
    <3> HIDE DEF passed, params
    <3>2. QED
      BY <2>2, <3>1
  <2>4. Len(params) <= Len(rest)
    <3>1. Len(rest) >= Len(params)
      BY <1>4 DEF CanGetArgs
    <3>2. Len(rest) \in Nat
      BY <1>3, SeqIs, Zenon
    <3> HIDE DEF params
    <3>3. QED
      BY <2>2, <3>1, <3>2
  <2>5. rest' = SubSeq(rest, Len(params) + 1, Len(rest))
    BY <1>6, <2>3 DEF Remaining
  <2>6. Remains(rest', u + Len(params))
    BY <1>1, <2>2, <2>4, <2>5, RestShrinks
  <2>7. QED
    BY <1>5, <1>6, <2>6, RestNow
<1>7. CASE ~ (Positional(stmt) /\ stmt.kind = "create table")
  <2>1. rest' = rest
    BY <1>7 DEF Remaining
  <2>2. QED
    BY <1>1, <1>5, <1>7, <2>1, RestNow
<1>8. QED
  BY <1>6, <1>7

(* ExecContext, QueryContext: the statement ran and answers its            *)
(* parameters.                                                             *)
LEMMA RunKeepsIInv ==
  ASSUME ArgumentsIInv, calling.mode = "exec", NEW n, n = Len(bound) + 1, n \in 1..Len(calling.stmts),
         CanRun(calling.stmts[n]), UNCHANGED <<calling, refused>>,
         bound' = Append(bound, BoundTo(calling.stmts[n], GetArgs(rest, ParamsOf(calling.stmts[n])))),
         rest' = Remaining(calling.stmts[n], GetArgs(rest, ParamsOf(calling.stmts[n])))
  PROVE  ArgumentsIInv'
<1>1. RestIs(n + 1)'
  BY RunKeepsRest
<1>2. CallType /\ RestIs(n)
  BY DEF ArgumentsIInv
<1>3. calling.stmts[n] \in StmtType /\ WellFormed(calling.stmts[n]) /\ rest \in Seq(ArgType)
  BY <1>2, StmtOf DEF RestIs, Remains
<1>4. ~ MixedMode(calling.stmts[n]) /\ CanGetArgs(rest, ParamsOf(calling.stmts[n]))
  BY <1>3, CanRunGets
<1>5. PICK x : x = BoundTo(calling.stmts[n], GetArgs(rest, ParamsOf(calling.stmts[n])))
  OBVIOUS
<1>6. ASSUME ~ Displaced(n) PROVE AnsweredBy(n, x)
  <2>1. PICK u : /\ Remains(rest, u)
                 /\ ~ Positional(calling.stmts[n]) => u = 0
                 /\ Positional(calling.stmts[n]) => \A k : PlaceOf(n, k) = k + u
    BY <1>2, <1>6, UsedIs
  <2>2. QED
    BY <1>2, <1>4, <1>5, <2>1, Answers
<1>7. bound' = Append(bound, x) /\ n <= Len(calling.stmts)
  <2>1. Len(calling.stmts) \in Nat
    <3>1. calling.stmts \in Seq(StmtType)
      BY <1>2 DEF CallType
    <3>2. QED
      BY <3>1, SeqIs, Zenon
  <2>2. QED
    BY <1>5, <2>1
<1>8. QED
  BY <1>1, <1>6, <1>7, Ran


(* When the call is complete no statement is refused.                      *)
LEMMA CompleteStmt ==
  ASSUME CallType, Complete, NEW n \in 1..Len(calling.stmts)
  PROVE  /\ ~ MixedMode(calling.stmts[n])
         /\ Executed(n) =>
              /\ InOrder(calling.stmts[n]) /\ ~ Displaced(n)
              /\ \/ calling.stmts[n].kind \in {"dml", "query"}
                 \/ calling.mode = "exec" /\ (calling.stmts[n].kind = "create table" \/ calling.stmts[n].params = <<>>)
              /\ \A k \in DOMAIN calling.stmts[n].params : Fits(calling.stmts[n].params[k], PlaceOf(n, k))
              /\ calling.mode = "prepare" => Len(calling.given) = Len(Once(calling.stmts[n].params))
<1>1. calling.stmts \in Seq(StmtType)
  BY DEF CallType
<1>2. n \in DOMAIN calling.stmts
  BY <1>1, SeqIs, Zenon
<1>3. QED
  BY <1>2, Zenon DEF Complete

(* A statement of a complete call finds its arguments among those that are *)
(* left, as many as it needs and of the types it needs.                    *)
LEMMA CompleteRuns ==
  ASSUME ArgumentsIInv, Complete, calling.mode = "exec",
         NEW n, n = Len(bound) + 1, n \in 1..Len(calling.stmts)
  PROVE  CanRun(calling.stmts[n])
<1> DEFINE stmt == calling.stmts[n]
<1>1. CallType /\ GivenType /\ RestIs(n)
  BY DEF ArgumentsIInv, CallType
<1>2. stmt \in StmtType /\ WellFormed(stmt)
  BY <1>1, StmtOf
<1>3. Executed(n)
  BY DEF Executed
<1>4. /\ ~ MixedMode(stmt) /\ InOrder(stmt) /\ ~ Displaced(n)
      /\ stmt.kind \in {"dml", "query"} \/ stmt.kind = "create table" \/ stmt.params = <<>>
      /\ \A k \in DOMAIN stmt.params : Fits(stmt.params[k], PlaceOf(n, k))
  BY <1>1, <1>3, CompleteStmt
<1>5. PICK u : /\ Remains(rest, u)
               /\ ~ Positional(stmt) => u = 0
               /\ Positional(stmt) => \A k : PlaceOf(n, k) = k + u
  BY <1>1, <1>4, UsedIs
<1>6. DOMAIN stmt.params = 1..Len(stmt.params)
  BY <1>2, StmtFields
<1> HIDE DEF stmt
<1>7. Positional(stmt) => \A k \in 1..Len(stmt.params) : Fits(stmt.params[k], k + u)
  BY <1>4, <1>5, <1>6
<1>8. \A k \in 1..Len(stmt.params) : \E place : Fits(stmt.params[k], place)
  BY <1>4, <1>6
<1>9. CanGetArgs(rest, ParamsOf(stmt))
  BY <1>1, <1>2, <1>4, <1>5, <1>7, <1>8, Enough
<1>10. TakesArguments(stmt) \/ stmt.params = <<>>
  BY <1>4 DEF TakesArguments
<1>11. CanRun(stmt)
  BY <1>4, <1>9, <1>10 DEF CanRun
<1>12. QED
  BY <1>11 DEF stmt

(* ExecContext and QueryContext, refused or not.                           *)
LEMMA RunStmtKeepsIInv ==
  ASSUME ArgumentsIInv, RunStmt
  PROVE  ArgumentsIInv'
<1>1. calling.mode = "exec" /\ Len(bound) < Len(calling.stmts)
  BY DEF RunStmt
<1>2. PICK n : n = Len(bound) + 1
  OBVIOUS
<1>3. n \in 1..Len(calling.stmts)
  <2>1. calling.stmts \in Seq(StmtType) /\ \E S : bound \in Seq(S)
    BY DEF ArgumentsIInv, CallType
  <2>2. Len(calling.stmts) \in Nat /\ Len(bound) \in Nat
    BY <2>1, SeqIs, Zenon
  <2>3. QED
    BY <1>1, <1>2, <2>2
<1>4. NextStmt = calling.stmts[n]
  BY <1>2 DEF NextStmt
<1>5. CASE ~ CanRun(calling.stmts[n])
  <2>1. Refuse
    BY <1>4, <1>5 DEF RunStmt
  <2>2. ~ Complete
    BY <1>1, <1>2, <1>3, <1>5, CompleteRuns
  <2>3. QED
    BY <2>1, <2>2, Refused
<1>6. CASE CanRun(calling.stmts[n])
  <2>1. /\ UNCHANGED <<calling, refused>>
        /\ bound' = Append(bound, BoundTo(calling.stmts[n], GetArgs(rest, ParamsOf(calling.stmts[n]))))
        /\ rest' = Remaining(calling.stmts[n], GetArgs(rest, ParamsOf(calling.stmts[n])))
    BY <1>4, <1>6 DEF RunStmt
  <2>2. QED
    BY <1>1, <1>2, <1>3, <1>6, <2>1, RunKeepsIInv
<1>7. QED
  BY <1>5, <1>6

(* PrepareContext: the statements before the last are analysed only.       *)
LEMMA PrepareKeepsIInv ==
  ASSUME ArgumentsIInv, PrepareStmts
  PROVE  ArgumentsIInv'
<1>1. calling.mode = "prepare" /\ Len(bound) < Len(calling.stmts) - 1
  BY DEF PrepareStmts
<1>2. PICK n : n = Len(bound) + 1
  OBVIOUS
<1>3. CallType
  BY DEF ArgumentsIInv
<1>4. n \in 1..Len(calling.stmts) /\ n # Len(calling.stmts) /\ n <= Len(calling.stmts)
  <2>1. calling.stmts \in Seq(StmtType) /\ \E S : bound \in Seq(S)
    BY DEF ArgumentsIInv, CallType
  <2>2. Len(calling.stmts) \in Nat /\ Len(bound) \in Nat
    BY <2>1, SeqIs, Zenon
  <2>3. QED
    BY <1>1, <1>2, <2>2
<1>5. NextStmt = calling.stmts[n]
  BY <1>2 DEF NextStmt
<1>6. ~ Executed(n)
  BY <1>1, <1>4 DEF Executed
<1>7. CASE MixedMode(calling.stmts[n])
  <2>1. Refuse
    BY <1>5, <1>7 DEF PrepareStmts
  <2>2. ~ Complete
    BY <1>3, <1>4, <1>7, CompleteStmt
  <2>3. QED
    BY <2>1, <2>2, Refused
<1>8. CASE ~ MixedMode(calling.stmts[n])
  <2>1. bound' = Append(bound, <<>>) /\ UNCHANGED <<calling, rest, refused>>
    BY <1>5, <1>8 DEF PrepareStmts
  <2>2. PICK x : x = <<>>
    OBVIOUS
  <2>3. QED
    BY <1>1, <1>2, <1>4, <1>6, <2>1, <2>2, Ran
<1>9. QED
  BY <1>7, <1>8

(* The prepared statement is given all arguments of the call.              *)
LEMMA AllRemain ==
  ASSUME GivenType
  PROVE  Remains(calling.given, 0)
<1>1. calling.given \in Seq(ArgType)
  BY DEF GivenType
<1>2. Len(calling.given) \in Nat
  BY <1>1, SeqIs, Zenon
<1>3. 0 + Len(calling.given) = Len(calling.given) /\ \A j \in 1..Len(calling.given) : 0 + j = j
  BY <1>2
<1>4. QED
  BY <1>1, <1>3 DEF Remains

(* database/sql and the statement of a complete prepared call accept the   *)
(* arguments.                                                              *)
LEMMA CompletePrepared ==
  ASSUME CallType, Complete, calling.mode = "prepare", NEW n, n = Len(calling.stmts), n \in 1..Len(calling.stmts)
  PROVE  /\ ~ MixedMode(calling.stmts[n])
         /\ calling.stmts[n].kind \in {"dml", "query"}
         /\ Len(calling.given) = Len(ParamsOf(calling.stmts[n]))
         /\ CanGetArgs(calling.given, ParamsOf(calling.stmts[n]))
<1> DEFINE stmt == calling.stmts[n]
<1>1. stmt \in StmtType /\ WellFormed(stmt) /\ GivenType
  BY StmtOf DEF CallType
<1>2. Executed(n)
  BY DEF Executed
<1>3. /\ ~ MixedMode(stmt) /\ InOrder(stmt)
      /\ stmt.kind \in {"dml", "query"}
      /\ \A k \in DOMAIN stmt.params : Fits(stmt.params[k], PlaceOf(n, k))
      /\ Len(calling.given) = Len(Once(stmt.params))
  BY <1>2, CompleteStmt
<1>4. DOMAIN stmt.params = 1..Len(stmt.params) /\ Len(stmt.params) \in Nat
  BY <1>1, StmtFields
<1> HIDE DEF stmt
<1>5. ParamsOf(stmt) = Once(stmt.params)
  BY <1>1, <1>3, SlotsFound DEF Slots
<1>6. \A k \in 1..Len(stmt.params) : PlaceOf(n, k) = k + 0
  BY <1>4, PlacePrepared
<1>7. \A k \in 1..Len(stmt.params) : Fits(stmt.params[k], k + 0)
  BY <1>3, <1>4, <1>6
<1>8. \A k \in 1..Len(stmt.params) : \E place : Fits(stmt.params[k], place)
  BY <1>7
<1>9. CanGetArgs(calling.given, ParamsOf(stmt))
  <2>1. PICK u : u = 0
    OBVIOUS
  <2>2. Remains(calling.given, u)
    BY <1>1, <2>1, AllRemain
  <2>3. Positional(stmt) => \A k \in 1..Len(stmt.params) : Fits(stmt.params[k], k + u)
    BY <1>7, <2>1
  <2>4. QED
    BY <1>1, <1>3, <1>8, <2>1, <2>2, <2>3, Enough
<1>10. QED
  BY <1>3, <1>5, <1>9 DEF stmt

(* The client executes what it has prepared, refused or not.               *)
LEMMA RunPreparedKeepsIInv ==
  ASSUME ArgumentsIInv, RunPrepared
  PROVE  ArgumentsIInv'
<1>1. calling.mode = "prepare" /\ Len(bound) = Len(calling.stmts) - 1
  BY DEF RunPrepared
<1>2. PICK n : n = Len(calling.stmts)
  OBVIOUS
<1>3. CallType /\ GivenType
  BY DEF ArgumentsIInv, CallType
<1>4. n \in 1..Len(calling.stmts) /\ n = Len(bound) + 1 /\ n <= Len(calling.stmts)
  <2>1. calling.stmts \in Seq(StmtType) /\ \E S : bound \in Seq(S)
    BY DEF ArgumentsIInv, CallType
  <2>2. Len(calling.stmts) \in Nat /\ Len(bound) \in Nat
    BY <2>1, SeqIs, Zenon
  <2>3. QED
    BY <1>1, <1>2, <2>2
<1>5. LastStmt = calling.stmts[n]
  BY <1>2 DEF LastStmt, Last
<1> DEFINE stmt == calling.stmts[n]
           found == ParamsOf(stmt)
           refuse == \/ MixedMode(stmt) \/ stmt.kind \notin {"dml", "query"}
                     \/ Len(calling.given) # Len(found) \/ ~ CanGetArgs(calling.given, found)
<1>6. CASE refuse
  <2>1. Refuse
    BY <1>5, <1>6 DEF RunPrepared
  <2>2. ~ Complete
    BY <1>1, <1>2, <1>3, <1>4, <1>6, CompletePrepared
  <2>3. QED
    BY <2>1, <2>2, Refused
<1>7. CASE ~ refuse
  <2>1. PICK x : x = BoundTo(stmt, GetArgs(calling.given, found))
    OBVIOUS
  <2>2. bound' = Append(bound, x) /\ UNCHANGED <<calling, rest, refused>>
    BY <1>5, <1>7, <2>1 DEF RunPrepared
  <2>3. PICK u : u = 0
    OBVIOUS
  <2>4. \A k \in Nat : PlaceOf(n, k) = k + u
    BY <1>1, <2>3, PlacePrepared
  <2>5. Remains(calling.given, u)
    BY <1>3, <2>3, AllRemain
  <2>6. AnsweredBy(n, x)
    BY <1>3, <1>4, <1>7, <2>1, <2>3, <2>4, <2>5, Answers
  <2>7. QED
    BY <1>1, <1>4, <2>2, <2>6, Ran
<1>8. QED
  BY <1>6, <1>7

(* Every step of a call keeps the invariant.                               *)
LEMMA ArgumentsNextIInv ==
  ArgumentsIInv /\ [ArgumentsNext]_argumentVars => ArgumentsIInv'
<1> SUFFICES ASSUME ArgumentsIInv, [ArgumentsNext]_argumentVars PROVE ArgumentsIInv'
  OBVIOUS
<1>1. CASE RunStmt
  BY <1>1, RunStmtKeepsIInv
<1>2. CASE PrepareStmts
  BY <1>2, PrepareKeepsIInv
<1>3. CASE RunPrepared
  BY <1>3, RunPreparedKeepsIInv
<1>4. CASE UNCHANGED argumentVars
  <2>1. calling' = calling /\ rest' = rest /\ bound' = bound /\ refused' = refused
    BY <1>4 DEF argumentVars
  <2>2. CallType' /\ (\E S : bound' \in Seq(S)) /\ Len(bound') <= Len(calling'.stmts)
    BY <2>1, CallStays DEF ArgumentsIInv
  <2>3. calling'.mode = "exec" => \A n \in {Len(bound') + 1} : RestIs(n)'
    <3> SUFFICES ASSUME calling.mode = "exec", NEW n, n = Len(bound) + 1 PROVE RestIs(n)'
      BY <2>1
    <3>1. RestIs(n)
      BY DEF ArgumentsIInv
    <3>2. QED
      BY <2>1, <3>1, RestNow DEF RestIs
  <2>4. ASSUME NEW n \in 1..Len(bound'), Executed(n)', ~ Displaced(n)' PROVE Answered(n)'
    <3>1. Executed(n) /\ ~ Displaced(n) /\ n \in 1..Len(bound)
      BY <2>1, <2>4, CallStays
    <3>2. Answered(n)
      BY <3>1 DEF ArgumentsIInv
    <3>3. QED
      BY <2>1, <3>2, AnsweredStays
  <2>5. refused' => ~ Complete'
    BY <2>1, CallStays DEF ArgumentsIInv
  <2>6. QED
    BY <2>2, <2>3, <2>4, <2>5 DEF ArgumentsIInv
<1>5. QED
  BY <1>1, <1>2, <1>3, <1>4 DEF ArgumentsNext

(* For every script and every list of arguments, executed or prepared:     *)
(* each parameter of each statement that runs holds the argument with its  *)
(* name or in its place, encoded in its type, and a call whose arguments   *)
(* are there is not refused (Analyze, getArgsFromParams, DMLStmt and       *)
(* QueryStmt).                                                             *)
THEOREM ArgumentsAlwaysReach == ArgumentsSpec => []ArgumentsReach
<1>1. ArgumentsInit => ArgumentsIInv
  BY ArgumentsInitIInv
<1>2. ArgumentsIInv /\ [ArgumentsNext]_argumentVars => ArgumentsIInv'
  BY ArgumentsNextIInv
<1>3. ArgumentsIInv => ArgumentsReach
  BY IInvReaches
<1>4. QED
  BY <1>1, <1>2, <1>3, PTL DEF ArgumentsSpec

================================================================================
