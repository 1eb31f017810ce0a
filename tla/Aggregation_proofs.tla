-------------------------- MODULE Aggregation_proofs --------------------------
(***************************************************************************)
(* Proof that the status of a window function holds the values of the rows *)
(* in the frame, for partitions of any length and frames of any kind.      *)
(*                                                                         *)
(* Enter appends a value, Leave removes the first value that Go finds      *)
(* equal.  That this is the value of the row that leaves, which entered    *)
(* before the others, is the invariant itself: the first value of the      *)
(* status is that of the first row inside the frame.                       *)
(*                                                                         *)
(* When SQLite asks for a value, the rows inside are the frame of the row  *)
(* asked for; so some functions are shown to answer from that frame alone. *)
(*                                                                         *)
(* A group has one aggregator, to which its rows are given in the order in *)
(* which SQLite reads them.  What each function keeps is shown to be a     *)
(* function of the values of the rows that count so far, and its result    *)
(* with it.                                                                *)
(***************************************************************************)
EXTENDS MCAggregation, SequenceTheorems, FiniteSetTheorems, WellFoundedInduction, TLAPS

(* A set of natural numbers that is not empty has a least element.         *)
LEMMA LeastNat ==
  ASSUME NEW T \in SUBSET Nat, T # {}
  PROVE  \E x \in T : \A y \in T : x <= y
<1> DEFINE R == OpToRel(<, Nat)
<1>1. IsWellFoundedOn(R, Nat)
  BY NatLessThanWellFounded
<1>2. \A i, j \in Nat : <<i, j>> \in R <=> i < j
  BY DEF OpToRel
<1> HIDE DEF R
<1>3. PICK x \in T : \A y \in T : ~ (<<y, x>> \in R)
  BY <1>1, WFMin
<1>4. \A y \in T : ~ (y < x)
  <2> TAKE y \in T
  <2>1. x \in Nat /\ y \in Nat
    OBVIOUS
  <2>2. QED
    BY <1>2, <1>3, <2>1
<1>5. x \in Nat /\ T \subseteq Nat
  OBVIOUS
<1>6. QED
  BY <1>4, <1>5, SMT

(* The largest element of a set of numbers is what Max chooses.            *)
LEMMA MaxIs ==
  ASSUME NEW T \in SUBSET Nat, NEW m \in T, \A x \in T : x <= m
  PROVE  Max(T) = m
<1>1. \A y \in T : m >= y
  OBVIOUS
<1>2. \A x \in T : (\A y \in T : x >= y) => x = m
  OBVIOUS
<1>3. QED
  BY <1>1, <1>2, Zenon DEF Max

---------------------------------------------------------------------------
(* NonNull is a fold, which is defined by a table of the results for every *)
(* set of indices.  There is such a table up to every index: no index is   *)
(* the first one up to which there is none.                                *)
FoldsTo(table, vs, indices) ==
    table = [s \in SUBSET indices |->
                IF s = {} THEN <<>> ELSE KeepNonNull(table[s \ {Max(s)}], vs[Max(s)])]

LEMMA FoldTable ==
  ASSUME NEW vs, NEW m \in Nat
  PROVE  \E h : FoldsTo(h, vs, 1..m)
<1> DEFINE Step1(h, s) == IF s = {} THEN <<>> ELSE KeepNonNull(h[s \ {Max(s)}], vs[Max(s)])
           Table(k, h) == FoldsTo(h, vs, 1..k)
           T == {k \in Nat : ~ \E h : Table(k, h)}
<1> USE DEF FoldsTo
<1>1. T # {} => FALSE
  <2> SUFFICES ASSUME T # {} PROVE FALSE
    OBVIOUS
  <2>1. PICK k \in T : \A j \in T : k <= j
    BY LeastNat
  <2>2. k # 0
    <3> DEFINE h == [s \in SUBSET (1..0) |-> <<>>]
    <3>1. \A s \in SUBSET (1..0) : s = {}
      OBVIOUS
    <3>2. Table(0, h)
      BY <3>1
    <3>3. QED
      BY <2>1, <3>2
  <2>3. k \in Nat /\ k - 1 \in Nat
    BY <2>2
  <2>4. PICK h : Table(k - 1, h)
    <3>1. k - 1 \notin T
      <4> HIDE DEF T
      <4>1. QED
        BY <2>1, <2>3
    <3>2. QED
      BY <2>3, <3>1, Zenon
  <2> DEFINE g == [s \in SUBSET (1..k) |->
                     IF k \in s THEN KeepNonNull(h[s \ {k}], vs[k]) ELSE h[s]]
  <2>5. ASSUME NEW s \in SUBSET (1..k) PROVE g[s] = Step1(g, s)
    <3>1. CASE k \in s
      <4>1. Max(s) = k
        <5>1. s \in SUBSET Nat /\ \A x \in s : x <= k
          BY <2>3
        <5>2. QED
          BY <3>1, <5>1, MaxIs
      <4>2. s \ {k} \in SUBSET (1..k) /\ k \notin s \ {k} /\ s # {}
        BY <3>1
      <4>3. g[s \ {k}] = h[s \ {k}]
        BY <4>2
      <4>4. QED
        BY <3>1, <4>1, <4>2, <4>3
    <3>2. CASE k \notin s
      <4>1. s \in SUBSET (1..(k - 1)) /\ s \ {Max(s)} \in SUBSET (1..k) /\ k \notin s \ {Max(s)}
        <5>1. \A x \in s : x \in 1..(k - 1)
          BY <2>3, <3>2
        <5>2. QED
          BY <3>2, <5>1, Zenon
      <4>2. h[s] = Step1(h, s)
        BY <2>4, <4>1
      <4>3. g[s \ {Max(s)}] = h[s \ {Max(s)}] /\ g[s] = h[s]
        BY <3>2, <4>1
      <4>4. QED
        BY <4>2, <4>3
    <3>3. QED
      BY <3>1, <3>2
  <2>6. Table(k, g)
    BY <2>5
  <2>7. QED
    BY <2>1, <2>6
<1>2. QED
  BY <1>1

(* What NonNull has kept after each of the values.                         *)
Kept(h, vs) ==
    /\ h[0] = <<>>
    /\ \A k \in 1..Len(vs) : h[k] = KeepNonNull(h[k - 1], vs[k])

LEMMA FoldSteps ==
  ASSUME NEW S, NEW vs \in Seq(S)
  PROVE  \E h : Kept(h, vs) /\ NonNull(vs) = h[Len(vs)]
<1> DEFINE table == CHOOSE t : FoldsTo(t, vs, DOMAIN vs)
<1>1. FoldsTo(table, vs, DOMAIN vs)
  <2>1. DOMAIN vs = 1..Len(vs) /\ Len(vs) \in Nat
    OBVIOUS
  <2>2. QED
    BY <2>1, FoldTable, Zenon
<1>2. NonNull(vs) = table[DOMAIN vs]
  BY Zenon DEF NonNull, FoldLeft, MapThenFoldSet, FoldsTo
<1> HIDE DEF table
<1> USE DEF FoldsTo
<1> DEFINE h == [k \in 0..Len(vs) |-> table[1..k]]
<1>3. h[0] = <<>>
  BY <1>1
<1>4. ASSUME NEW k \in 1..Len(vs) PROVE h[k] = KeepNonNull(h[k - 1], vs[k])
  <2>1. DOMAIN vs = 1..Len(vs) /\ Len(vs) \in Nat
    OBVIOUS
  <2>2. /\ 1..k \in SUBSET DOMAIN vs /\ k \in 1..k
        /\ k - 1 \in 0..Len(vs) /\ k \in 0..Len(vs)
    BY <2>1
  <2>3. (1..k) \ {k} = 1..(k - 1)
    BY <2>1
  <2>4. Max(1..k) = k
    BY MaxIs
  <2>5. table[1..k] = KeepNonNull(table[(1..k) \ {Max(1..k)}], vs[Max(1..k)])
    BY <1>1, <2>2
  <2>6. QED
    BY <2>2, <2>3, <2>4, <2>5
<1>5. NonNull(vs) = h[Len(vs)]
  BY <1>2
<1> HIDE DEF h
<1>6. QED
  BY <1>3, <1>4, <1>5 DEF Kept

(* The kept values are a sequence without NULL.                            *)
LEMMA KeptType ==
  ASSUME NEW S, NEW vs \in Seq(S), NEW h, Kept(h, vs), NEW k \in 0..Len(vs)
  PROVE  h[k] \in Seq(S \ {Null})
<1> DEFINE T == {j \in 0..Len(vs) : h[j] \notin Seq(S \ {Null})}
<1>1. T = {}
  <2> SUFFICES ASSUME T # {} PROVE FALSE
    OBVIOUS
  <2>1. PICK j \in T : \A i \in T : j <= i
    <3>1. T \in SUBSET Nat
      OBVIOUS
    <3> HIDE DEF T
    <3>2. QED
      BY <3>1, LeastNat
  <2>2. j # 0
    <3>1. h[0] = <<>> /\ <<>> \in Seq(S \ {Null})
      BY DEF Kept
    <3>2. QED
      BY <2>1, <3>1
  <2>3. j \in 1..Len(vs) /\ j - 1 \in 0..Len(vs) /\ j - 1 \notin T
    BY <2>1, <2>2
  <2>4. h[j - 1] \in Seq(S \ {Null}) /\ vs[j] \in S
    BY <2>3
  <2>5. h[j] = KeepNonNull(h[j - 1], vs[j])
    BY <2>3 DEF Kept
  <2>6. h[j] \in Seq(S \ {Null})
    BY <2>4, <2>5 DEF KeepNonNull
  <2>7. QED
    BY <2>1, <2>6
<1>2. QED
  BY <1>1

LEMMA NonNullType ==
  ASSUME NEW S, NEW vs \in Seq(S)
  PROVE  NonNull(vs) \in Seq(S \ {Null})
<1>1. PICK h : Kept(h, vs) /\ NonNull(vs) = h[Len(vs)]
  BY FoldSteps
<1>2. Len(vs) \in 0..Len(vs)
  OBVIOUS
<1>3. QED
  BY <1>1, <1>2, KeptType

(* Two tables of what is kept agree where their values do.                 *)
LEMMA KeptAgree ==
  ASSUME NEW S, NEW vs \in Seq(S), NEW ws \in Seq(S), NEW g, NEW h, Kept(g, vs), Kept(h, ws),
         NEW n \in Nat, n <= Len(vs), n <= Len(ws), \A k \in 1..n : vs[k] = ws[k]
  PROVE  g[n] = h[n]
<1> DEFINE T == {j \in 0..n : g[j] # h[j]}
<1>1. T = {}
  <2> SUFFICES ASSUME T # {} PROVE FALSE
    OBVIOUS
  <2>1. PICK j \in T : \A i \in T : j <= i
    <3>1. T \in SUBSET Nat
      OBVIOUS
    <3> HIDE DEF T
    <3>2. QED
      BY <3>1, LeastNat
  <2>2. j # 0
    BY <2>1 DEF Kept
  <2>3. j \in 1..n /\ j - 1 \in 0..n /\ j - 1 \notin T
    BY <2>1, <2>2
  <2>4. j \in 1..Len(vs) /\ j \in 1..Len(ws)
    BY <2>3
  <2>5. g[j - 1] = h[j - 1] /\ vs[j] = ws[j]
    BY <2>3
  <2>6. g[j] = h[j]
    BY <2>4, <2>5 DEF Kept
  <2>7. QED
    BY <2>1, <2>6
<1>2. QED
  BY <1>1

(* No values are kept of none.                                             *)
LEMMA NonNullEmpty == NonNull(<<>>) = <<>>
<1>1. <<>> \in Seq({}) /\ Len(<<>>) = 0
  OBVIOUS
<1>2. PICK h : Kept(h, <<>>) /\ NonNull(<<>>) = h[Len(<<>>)]
  BY <1>1, FoldSteps
<1>3. QED
  BY <1>1, <1>2 DEF Kept

(* A value that is appended is kept unless it is NULL.                     *)
LEMMA NonNullAppend ==
  ASSUME NEW S, NEW vs \in Seq(S), NEW v \in S
  PROVE  NonNull(Append(vs, v)) = KeepNonNull(NonNull(vs), v)
<1> DEFINE ws == Append(vs, v)
           n == Len(vs)
<1>1. /\ ws \in Seq(S) /\ Len(ws) = n + 1 /\ n \in Nat
      /\ \A k \in 1..n : vs[k] = ws[k]
      /\ ws[n + 1] = v
  OBVIOUS
<1> HIDE DEF ws
<1>2. PICK g : Kept(g, vs) /\ NonNull(vs) = g[n]
  BY FoldSteps
<1>3. PICK h : Kept(h, ws) /\ NonNull(ws) = h[Len(ws)]
  BY <1>1, FoldSteps
<1>4. g[n] = h[n]
  <2>1. n <= Len(vs) /\ n <= Len(ws)
    BY <1>1
  <2>2. QED
    BY <1>1, <1>2, <1>3, <2>1, KeptAgree
<1>5. h[n + 1] = KeepNonNull(h[n], ws[n + 1])
  <2>1. n + 1 \in 1..Len(ws) /\ (n + 1) - 1 = n
    BY <1>1
  <2>2. QED
    BY <1>3, <2>1 DEF Kept
<1>6. NonNull(ws) = KeepNonNull(NonNull(vs), v)
  BY <1>1, <1>2, <1>3, <1>4, <1>5
<1>7. QED
  BY <1>6 DEF ws

(* The first value is kept first.                                          *)
LEMMA NonNullHead ==
  ASSUME NEW S, NEW vs \in Seq(S), vs # <<>>
  PROVE  NonNull(vs) = KeepNonNull(<<>>, vs[1]) \o NonNull(Tail(vs))
<1> DEFINE first == KeepNonNull(<<>>, vs[1])
           rest == Tail(vs)
           n == Len(rest)
<1>1. /\ rest \in Seq(S) /\ n \in Nat /\ Len(vs) = n + 1
      /\ \A k \in 1..n : rest[k] = vs[k + 1]
      /\ vs[1] \in S
  OBVIOUS
<1>2. first \in Seq(S)
  <2>1. <<>> \in Seq(S) /\ Append(<<>>, vs[1]) \in Seq(S)
    BY <1>1
  <2>2. QED
    BY <2>1 DEF KeepNonNull
<1> HIDE DEF first, rest
<1>0. ASSUME NEW b \in Seq(S), NEW v \in S
      PROVE  KeepNonNull(first \o b, v) = first \o KeepNonNull(b, v)
  <2>1. Append(first \o b, v) = (first \o b) \o <<v>> /\ Append(b, v) = b \o <<v>>
    <3>1. first \o b \in Seq(S)
      BY <1>2
    <3>2. QED
      BY <3>1, AppendIsConcat
  <2>2. (first \o b) \o <<v>> = first \o (b \o <<v>>)
    <3>1. <<v>> \in Seq(S)
      OBVIOUS
    <3>2. QED
      BY <1>2, <3>1, ConcatAssociative
  <2>3. Append(first \o b, v) = first \o Append(b, v)
    BY <2>1, <2>2, Zenon
  <2>4. QED
    BY <2>3 DEF KeepNonNull
<1>3. PICK g : Kept(g, vs) /\ NonNull(vs) = g[Len(vs)]
  BY FoldSteps
<1>4. PICK h : Kept(h, rest) /\ NonNull(rest) = h[n]
  BY <1>1, FoldSteps
<1>5. ASSUME NEW k \in 0..n PROVE h[k] \in Seq(S)
  <2>1. h[k] \in Seq(S \ {Null})
    BY <1>1, <1>4, KeptType
  <2>2. QED
    BY <2>1
<1> DEFINE T == {k \in 0..n : g[k + 1] # first \o h[k]}
<1>6. T = {}
  <2> SUFFICES ASSUME T # {} PROVE FALSE
    OBVIOUS
  <2>1. PICK k \in T : \A i \in T : k <= i
    <3>1. T \in SUBSET Nat
      OBVIOUS
    <3> HIDE DEF T
    <3>2. QED
      BY <3>1, LeastNat
  <2>2. /\ k \in 0..n /\ g[k + 1] # first \o h[k]
        /\ \A i \in 0..n : i < k => g[i + 1] = first \o h[i]
    <3>1. k \in 0..n /\ g[k + 1] # first \o h[k]
      BY <2>1
    <3>2. ASSUME NEW i \in 0..n, i < k PROVE g[i + 1] = first \o h[i]
      <4>1. i \notin T
        <5> HIDE DEF T
        <5>1. \A j \in T : k <= j
          BY <2>1
        <5>2. QED
          BY <1>1, <3>1, <3>2, <5>1
      <4>2. QED
        BY <4>1
    <3>3. QED
      BY <3>1, <3>2
  <2> HIDE DEF n, T
  <2>3. k # 0
    <3>1. 1 \in 1..Len(vs) /\ 1 - 1 = 0
      BY <1>1
    <3>2. g[0] = <<>> /\ g[1] = KeepNonNull(g[1 - 1], vs[1]) /\ h[0] = <<>>
      BY <1>3, <1>4, <3>1 DEF Kept
    <3>3. g[1] = first
      BY <3>1, <3>2 DEF first
    <3>4. first \o <<>> = first
      BY <1>2
    <3>5. g[0 + 1] = first \o h[0]
      BY <3>2, <3>3, <3>4
    <3>6. QED
      BY <2>2, <3>5
  <2>4. k \in 1..n /\ k - 1 \in 0..n /\ k - 1 < k /\ (k - 1) + 1 = k
    BY <1>1, <2>2, <2>3
  <2>5. g[k] = first \o h[k - 1]
    BY <2>2, <2>4
  <2>6. k + 1 \in 1..Len(vs) /\ (k + 1) - 1 = k /\ rest[k] = vs[k + 1] /\ vs[k + 1] \in S
    BY <1>1, <2>4
  <2>7. g[k + 1] = KeepNonNull(g[k], vs[k + 1])
    BY <1>3, <2>6 DEF Kept
  <2>8. h[k] = KeepNonNull(h[k - 1], vs[k + 1])
    BY <1>4, <2>4, <2>6 DEF Kept, n
  <2>9. h[k - 1] \in Seq(S)
    BY <1>5, <2>4
  <2>10. KeepNonNull(first \o h[k - 1], vs[k + 1]) = first \o KeepNonNull(h[k - 1], vs[k + 1])
    BY <1>0, <2>6, <2>9
  <2>11. g[k + 1] = first \o h[k]
    BY <2>5, <2>7, <2>8, <2>10
  <2>12. QED
    BY <2>2, <2>11
<1>7. g[n + 1] = first \o h[n]
  BY <1>1, <1>6
<1>8. NonNull(vs) = first \o NonNull(rest)
  BY <1>1, <1>3, <1>4, <1>7
<1>9. QED
  BY <1>8 DEF first, rest

---------------------------------------------------------------------------
(* Inverse of a value that is first in the status takes that one away.     *)
LEMMA RemoveHead ==
  ASSUME NEW S, NEW s, NEW v, NEW ws \in Seq(S), v \in S, SameInGo(v, v),
         DOMAIN s = {"values", "opt", "nStep", "nTotal"}, s.values = <<v>> \o ws
  PROVE  RemoveEqual(s, v).values = ws
<1> DEFINE hits == {i \in DOMAIN s.values : SameInGo(s.values[i], v)}
           first == CHOOSE i \in hits : \A j \in hits : i <= j
<1>1. /\ DOMAIN s.values = 1..(Len(ws) + 1) /\ Len(ws) \in Nat
      /\ s.values[1] = v /\ Len(s.values) = Len(ws) + 1
  OBVIOUS
<1>2. 1 \in hits /\ \A j \in hits : 1 <= j /\ j \in Nat
  BY <1>1
<1>3. first = 1
  <2> HIDE DEF hits
  <2>1. \A i \in hits : (\A j \in hits : i <= j) => i = 1
    BY <1>2
  <2>2. QED
    BY <1>2, <2>1
<1>4. SubSeq(s.values, 1, first - 1) \o SubSeq(s.values, first + 1, Len(s.values)) = ws
  <2>1. SubSeq(s.values, 1, 0) = <<>>
    OBVIOUS
  <2>2. SubSeq(s.values, 2, Len(ws) + 1) = ws
    OBVIOUS
  <2>3. <<>> \o ws = ws
    OBVIOUS
  <2> HIDE DEF first
  <2>4. QED
    BY <1>1, <1>3, <2>1, <2>2, <2>3
<1>5. RemoveEqual(s, v) =
        [s EXCEPT !.values = SubSeq(@, 1, first - 1) \o SubSeq(@, first + 1, Len(@))]
  <2>1. hits # {}
    BY <1>2
  <2>2. QED
    BY <2>1 DEF RemoveEqual
<1> HIDE DEF first, hits
<1>6. QED
  BY <1>4, <1>5

(* Inverse of a value the status does not hold does nothing.               *)
LEMMA RemoveNothing ==
  ASSUME NEW s, NEW v, \A i \in DOMAIN s.values : s.values[i] # v
  PROVE  RemoveEqual(s, v) = s
<1>1. {i \in DOMAIN s.values : SameInGo(s.values[i], v)} = {}
  BY DEF SameInGo
<1>2. QED
  BY <1>1 DEF RemoveEqual

---------------------------------------------------------------------------
(* The values of the rows after l up to e.                                 *)
ValsBetween(r, l, e) == Vals(SubSeq(r, l + 1, e))
RowVals(r) == {r[i].val : i \in DOMAIN r}
NextVals(r, l, n) == [i \in 1..n |-> r[l + i].val]

Within(r, l, e) == /\ IsSeq(r) /\ l \in Nat /\ e \in Nat
                   /\ l <= e /\ e <= Len(r)

LEMMA BetweenIs ==
  ASSUME NEW r, NEW l, NEW e, Within(r, l, e)
  PROVE  /\ ValsBetween(r, l, e) = NextVals(r, l, e - l)
         /\ ValsBetween(r, l, e) \in Seq(RowVals(r))
         /\ DOMAIN SubSeq(r, l + 1, e) = 1..(e - l)
<1> DEFINE R == {r[i] : i \in DOMAIN r}
           part == SubSeq(r, l + 1, e)
<1>1. r \in Seq(R) /\ l \in Nat /\ e \in Nat /\ l <= e /\ e <= Len(r)
  BY DEF Within, IsSeq
<1> HIDE DEF R
<1>2. DOMAIN r = 1..Len(r) /\ Len(r) \in Nat
  BY <1>1
<1>3. DOMAIN part = 1..(e - l) /\ \A i \in 1..(e - l) : part[i] = r[l + i]
  <2>1. part = [i \in 1..(e - (l + 1) + 1) |-> r[i + (l + 1) - 1]]
    BY <1>1, <1>2
  <2>2. e - (l + 1) + 1 = e - l
    BY <1>1
  <2>3. part = [i \in 1..(e - l) |-> r[i + (l + 1) - 1]]
    BY <2>1, <2>2
  <2>4. \A i \in 1..(e - l) : i + (l + 1) - 1 = l + i
    BY <1>1
  <2> HIDE DEF part
  <2>5. QED
    BY <2>3, <2>4
<1> HIDE DEF part
<1>4. Vals(part) = [i \in 1..(e - l) |-> r[l + i].val]
  BY <1>3 DEF Vals
<1>5. \A i \in 1..(e - l) : r[l + i].val \in RowVals(r)
  <2>1. \A i \in 1..(e - l) : l + i \in DOMAIN r
    BY <1>1, <1>2
  <2>2. QED
    BY <2>1 DEF RowVals
<1>6. [i \in 1..(e - l) |-> r[l + i].val] \in Seq(RowVals(r))
  <2>1. e - l \in Nat
    BY <1>1
  <2> HIDE DEF RowVals
  <2>2. QED
    BY <1>5, <2>1
<1>7. QED
  BY <1>3, <1>4, <1>6 DEF ValsBetween, NextVals, part

(* A row that enters brings its value to the end.                          *)
LEMMA EnterVals ==
  ASSUME NEW r, NEW l, NEW e, Within(r, l, e), e + 1 <= Len(r)
  PROVE  /\ Within(r, l, e + 1)
         /\ ValsBetween(r, l, e + 1) = Append(ValsBetween(r, l, e), r[e + 1].val)
         /\ r[e + 1].val \in RowVals(r)
<1> DEFINE V == ValsBetween(r, l, e)
           W == ValsBetween(r, l, e + 1)
<1>1. Within(r, l, e + 1)
  BY DEF Within
<1>2. l \in Nat /\ e \in Nat /\ l <= e /\ DOMAIN r = 1..Len(r) /\ Len(r) \in Nat
  BY DEF Within, IsSeq
<1>3. r[e + 1].val \in RowVals(r)
  <2>1. e + 1 \in DOMAIN r
    BY <1>2
  <2>2. QED
    BY <2>1 DEF RowVals
<1>4. /\ V = [i \in 1..(e - l) |-> r[l + i].val] /\ V \in Seq(RowVals(r))
      /\ W = [i \in 1..((e + 1) - l) |-> r[l + i].val]
  <2>1. V = NextVals(r, l, e - l) /\ V \in Seq(RowVals(r)) /\ W = NextVals(r, l, (e + 1) - l)
    BY <1>1, BetweenIs
  <2>2. QED
    BY <2>1 DEF NextVals
<1>5. Len(V) = e - l
  BY <1>2, <1>4
<1> HIDE DEF V, W
<1>6. Append(V, r[e + 1].val) = W
  <2> DEFINE A == Append(V, r[e + 1].val)
             n == e - l
  <2>1. n \in Nat /\ (e + 1) - l = n + 1 /\ l + (n + 1) = e + 1
    BY <1>2
  <2>2. A = [i \in 1..(n + 1) |-> IF i = n + 1 THEN r[e + 1].val ELSE V[i]]
    BY <1>4, <1>5, <2>1
  <2>3. W = [i \in 1..(n + 1) |-> r[l + i].val] /\ V = [i \in 1..n |-> r[l + i].val]
    BY <1>4, <2>1
  <2> HIDE DEF A
  <2>4. \A i \in 1..(n + 1) : A[i] = W[i]
    BY <2>1, <2>2, <2>3
  <2>5. A = W
    BY <2>2, <2>3, <2>4
  <2>6. QED
    BY <2>5 DEF A
<1>7. QED
  BY <1>1, <1>3, <1>6 DEF V, W

(* The row that leaves had the first value.                                *)
LEMMA LeaveVals ==
  ASSUME NEW r, NEW l, NEW e, Within(r, l, e), l < e
  PROVE  /\ Within(r, l + 1, e)
         /\ ValsBetween(r, l, e) # <<>>
         /\ ValsBetween(r, l, e)[1] = r[l + 1].val
         /\ Tail(ValsBetween(r, l, e)) = ValsBetween(r, l + 1, e)
<1> DEFINE V == ValsBetween(r, l, e)
           W == ValsBetween(r, l + 1, e)
           n == e - l
<1>1. Within(r, l + 1, e)
  BY DEF Within
<1>2. l \in Nat /\ e \in Nat /\ n \in Nat /\ n >= 1 /\ e - (l + 1) = n - 1 /\ n - 1 \in Nat
  BY DEF Within
<1>3. /\ V = [i \in 1..n |-> r[l + i].val] /\ V \in Seq(RowVals(r))
      /\ W = [i \in 1..(e - (l + 1)) |-> r[(l + 1) + i].val]
  <2>1. V = NextVals(r, l, n) /\ V \in Seq(RowVals(r)) /\ W = NextVals(r, l + 1, e - (l + 1))
    BY <1>1, BetweenIs
  <2>2. QED
    BY <2>1 DEF NextVals
<1>4. W = [i \in 1..(n - 1) |-> r[(l + 1) + i].val]
  BY <1>2, <1>3
<1> HIDE DEF V, W, n
<1>5. Len(V) = n /\ V # <<>> /\ V[1] = r[l + 1].val
  BY <1>2, <1>3
<1>6. Tail(V) = [i \in 1..(n - 1) |-> V[i + 1]]
  BY <1>2, <1>3, <1>5
<1>7. \A i \in 1..(n - 1) : V[i + 1] = W[i]
  <2>1. \A i \in 1..(n - 1) : i + 1 \in 1..n /\ l + (i + 1) = (l + 1) + i
    BY <1>2
  <2>2. QED
    BY <1>3, <1>4, <2>1
<1>8. Tail(V) = W
  BY <1>4, <1>6, <1>7
<1>9. QED
  BY <1>1, <1>5, <1>8 DEF V, W

---------------------------------------------------------------------------
(* What a status holds of the values V of the rows inside the frame, for   *)
(* the three constructors that append to it.                               *)
Appending == {"single", "count", "constant"}
StatusFields == {"values", "opt", "nStep", "nTotal"}

Held(b, V) ==
    CASE b = "single" -> V
      [] b = "count" -> NonNull(V)
      [] b = "constant" -> [i \in DOMAIN V |-> IntV(1)]

Holds(b, s, V) == DOMAIN s = StatusFields /\ s.values = Held(b, V)

(* Step appends to what is held.                                           *)
LEMMA StepHolds ==
  ASSUME NEW S, NEW b \in Appending, NEW s, NEW V \in Seq(S), NEW v \in S, Holds(b, s, V)
  PROVE  Holds(b, Step(b, s, v), Append(V, v))
<1> DEFINE w == IF b = "constant" THEN IntV(1) ELSE v
<1>1. DOMAIN s = StatusFields /\ s.values = Held(b, V)
  BY DEF Holds
<1>2. DOMAIN AppendValue(s, w) = StatusFields /\ AppendValue(s, w).values = Append(s.values, w)
  <2>1. AppendValue(s, w) = [s EXCEPT !.values = Append(s.values, w)]
    BY DEF AppendValue
  <2> HIDE DEF w
  <2>2. QED
    BY <1>1, <2>1 DEF StatusFields
<1>3. CASE b = "single"
  <2>1. Step(b, s, v) = AppendValue(s, w) /\ Held(b, V) = V /\ Held(b, Append(V, v)) = Append(V, v)
    BY <1>3 DEF Step, Held
  <2>2. w = v
    BY <1>3
  <2> HIDE DEF w
  <2>3. QED
    BY <1>1, <1>2, <2>1, <2>2 DEF Holds
<1>4. CASE b = "count"
  <2>1. Held(b, V) = NonNull(V) /\ Held(b, Append(V, v)) = KeepNonNull(NonNull(V), v)
    BY <1>4, NonNullAppend DEF Held
  <2>2. Step(b, s, v) = IF v = Null THEN s ELSE AppendValue(s, w)
    BY <1>4 DEF Step
  <2>3. w = v
    BY <1>4
  <2> HIDE DEF w
  <2>4. QED
    BY <1>1, <1>2, <2>1, <2>2, <2>3 DEF Holds, KeepNonNull
<1>5. CASE b = "constant"
  <2>1. Step(b, s, v) = AppendValue(s, w)
    BY <1>5 DEF Step
  <2>2. s.values = [i \in DOMAIN V |-> IntV(1)]
        /\ Held(b, Append(V, v)) = [i \in DOMAIN Append(V, v) |-> IntV(1)]
    BY <1>1, <1>5 DEF Held
  <2>3. DOMAIN V = 1..Len(V) /\ DOMAIN Append(V, v) = 1..(Len(V) + 1) /\ Len(V) \in Nat
    OBVIOUS
  <2>4. w = IntV(1)
    BY <1>5
  <2> HIDE DEF w
  <2>5. Append(s.values, w) = [i \in 1..(Len(V) + 1) |-> IntV(1)]
    <3> DEFINE one == IntV(1)
               ones == [i \in 1..Len(V) |-> one]
    <3>1. s.values = ones
      BY <2>2, <2>3
    <3> HIDE DEF one
    <3>2. Append(ones, one) = [i \in 1..(Len(V) + 1) |-> one]
      BY <2>3
    <3> HIDE DEF ones
    <3>3. Append(s.values, w) = [i \in 1..(Len(V) + 1) |-> one]
      BY <2>4, <3>1, <3>2 DEF one
    <3>4. QED
      BY <3>3 DEF one
  <2>6. QED
    BY <1>2, <2>1, <2>2, <2>3, <2>5 DEF Holds
<1>6. QED
  BY <1>3, <1>4, <1>5 DEF Appending

(* RemoveEqual changes the values only.                                    *)
LEMMA RemoveFields ==
  ASSUME NEW s, NEW v, DOMAIN s = StatusFields
  PROVE  DOMAIN RemoveEqual(s, v) = StatusFields
BY DEF RemoveEqual, StatusFields

(* Inverse of the value of the first row takes away what that row brought. *)
LEMMA InverseHolds ==
  ASSUME NEW S, NEW b \in Appending, NEW s, NEW V \in Seq(S), V # <<>>, Holds(b, s, V),
         b # "constant" => SameInGo(V[1], V[1])
  PROVE  Holds(b, WindowInverse(b, s, V[1]), Tail(V))
<1>1. DOMAIN s = StatusFields /\ s.values = Held(b, V)
  BY DEF Holds
<1>2. Tail(V) \in Seq(S) /\ V[1] \in S /\ V = <<V[1]>> \o Tail(V)
  OBVIOUS
<1>3. CASE b = "single"
  <2>1. /\ WindowInverse(b, s, V[1]) = RemoveEqual(s, V[1])
        /\ Held(b, Tail(V)) = Tail(V) /\ s.values = V
    BY <1>1, <1>3 DEF WindowInverse, Held
  <2>2. SameInGo(V[1], V[1]) /\ s.values = <<V[1]>> \o Tail(V)
    BY <1>2, <1>3, <2>1
  <2>3. RemoveEqual(s, V[1]).values = Tail(V)
    <3>1. DOMAIN s = {"values", "opt", "nStep", "nTotal"}
      BY <1>1 DEF StatusFields
    <3>2. QED
      BY <1>2, <2>2, <3>1, RemoveHead, Zenon
  <2>4. QED
    BY <1>1, <2>1, <2>3, RemoveFields DEF Holds
<1>4. CASE b = "count"
  <2> DEFINE rest == NonNull(Tail(V))
             v == V[1]
  <2>1. /\ WindowInverse(b, s, v) = RemoveEqual(s, v)
        /\ Held(b, Tail(V)) = rest /\ s.values = NonNull(V)
    BY <1>1, <1>4 DEF WindowInverse, Held
  <2>2. NonNull(V) = KeepNonNull(<<>>, v) \o rest
    BY NonNullHead
  <2>3. rest \in Seq(S \ {Null})
    BY <1>2, NonNullType
  <2>4. v \in S /\ SameInGo(v, v)
    BY <1>2, <1>4
  <2> HIDE DEF rest, v
  <2>5. CASE v = Null
    <3>1. KeepNonNull(<<>>, v) = <<>> /\ <<>> \o rest = rest
      BY <2>3, <2>5 DEF KeepNonNull
    <3>2. s.values = rest
      BY <2>1, <2>2, <3>1
    <3>3. \A i \in DOMAIN s.values : s.values[i] # v
      BY <2>3, <2>5, <3>2
    <3>4. RemoveEqual(s, v) = s
      BY <3>3, RemoveNothing
    <3>5. QED
      BY <1>1, <2>1, <3>2, <3>4 DEF Holds, v
  <2>6. CASE v # Null
    <3>1. KeepNonNull(<<>>, v) = <<v>>
      BY <2>6 DEF KeepNonNull
    <3>2. s.values = <<v>> \o rest
      BY <2>1, <2>2, <3>1
    <3>3. v \in S \ {Null}
      BY <2>4, <2>6
    <3>4. RemoveEqual(s, v).values = rest
      <4>1. DOMAIN s = {"values", "opt", "nStep", "nTotal"}
        BY <1>1 DEF StatusFields
      <4>2. QED
        BY <2>3, <2>4, <3>2, <3>3, <4>1, RemoveHead, Zenon
    <3>5. QED
      BY <1>1, <2>1, <3>4, RemoveFields DEF Holds, v
  <2>7. QED
    BY <2>5, <2>6
<1>5. CASE b = "constant"
  <2> DEFINE one == IntV(1)
             ones == [i \in 1..Len(Tail(V)) |-> one]
  <2>1. WindowInverse(b, s, V[1]) = RemoveEqual(s, one)
    BY <1>5 DEF WindowInverse
  <2>2. s.values = [i \in DOMAIN V |-> one] /\ Held(b, Tail(V)) = [i \in DOMAIN Tail(V) |-> one]
    BY <1>1, <1>5 DEF Held
  <2>3. /\ DOMAIN V = 1..(Len(Tail(V)) + 1) /\ DOMAIN Tail(V) = 1..Len(Tail(V))
        /\ Len(Tail(V)) \in Nat
    BY <1>2
  <2>4. SameInGo(one, one)
    BY DEF SameInGo, IntV, Result
  <2> HIDE DEF one
  <2>5. ones \in Seq({one}) /\ [i \in 1..(Len(Tail(V)) + 1) |-> one] = <<one>> \o ones
    BY <2>3
  <2>6. s.values = <<one>> \o ones
    BY <2>2, <2>3, <2>5
  <2>7. Held(b, Tail(V)) = ones
    BY <2>2, <2>3
  <2> HIDE DEF ones
  <2>8. RemoveEqual(s, one).values = ones
    <3>1. DOMAIN s = {"values", "opt", "nStep", "nTotal"} /\ ones \in Seq({one}) /\ one \in {one}
      BY <1>1, <2>5 DEF StatusFields
    <3>2. QED
      BY <2>4, <2>6, <3>1, RemoveHead, Zenon
  <2>9. QED
    BY <1>1, <2>1, <2>7, <2>8, RemoveFields DEF Holds
<1>6. QED
  BY <1>3, <1>4, <1>5 DEF Appending

---------------------------------------------------------------------------
(* The values whose rows leave a frame are compared by value: in Go those  *)
(* are all but the ones that decoding makes anew, such as NUMERIC.         *)
ComparedByValue ==
    \A b \in {"single", "count"} \cap DOMAIN Inputs : \A r \in Inputs[b] :
        \A i \in DOMAIN r : SameInGo(r[i].val, r[i].val)

Sliding == call.builder \in Appending /\ ~call.frame.exclude

Status(s) == Holds(call.builder, s, ValsBetween(rows, left, entered))

(* The inductive invariant.                                                *)
CallInv ==
    /\ call \in Calls
    /\ rows \in Inputs[call.builder]

FrameIInv ==
    /\ CallInv
    /\ Within(rows, left, entered)
    /\ Sliding => Status(agg)

LEMMA FrameInit ==
  ASSUME Init
  PROVE  FrameIInv
<1>1. call \in Calls /\ rows \in Inputs[call.builder] /\ IsSeq(rows) /\ left = 0 /\ entered = 0
  BY InputsType DEF Init
<1>2. Within(rows, 0, 0)
  <2>1. Len(rows) \in Nat
    BY <1>1 DEF IsSeq
  <2>2. QED
    BY <1>1, <2>1 DEF Within
<1>3. ASSUME Sliding PROVE Status(agg)
  <2>1. ~ IsGroup
    BY <1>3 DEF Sliding, Appending, IsGroup
  <2>2. agg = NewStatus(call.opt)
    BY <2>1 DEF Init, New
  <2>3. DOMAIN agg = StatusFields /\ agg.values = <<>>
    BY <2>2 DEF NewStatus, StatusFields
  <2>4. ValsBetween(rows, 0, 0) = NextVals(rows, 0, 0 - 0)
    BY <1>2, BetweenIs
  <2>5. ValsBetween(rows, 0, 0) = <<>>
    BY <2>4 DEF NextVals
  <2>6. Held(call.builder, <<>>) = <<>>
    BY <1>3, NonNullEmpty DEF Sliding, Appending, Held
  <2>7. QED
    BY <1>1, <2>3, <2>5, <2>6 DEF Status, Holds
<1>4. QED
  BY <1>1, <1>2, <1>3 DEF FrameIInv, CallInv

(* The parts of the invariant a step leaves alone.                         *)
LEMMA SameCall ==
  ASSUME CallInv, UNCHANGED <<call, rows>>
  PROVE  CallInv' /\ (Sliding' <=> Sliding)
BY DEF CallInv, Sliding

LEMMA FrameStep ==
  ASSUME ComparedByValue, FrameIInv, [Next]_vars
  PROVE  FrameIInv'
<1> DEFINE b == call.builder
           V == ValsBetween(rows, left, entered)
<1>0. /\ CallInv /\ Within(rows, left, entered) /\ IsSeq(rows)
      /\ Sliding => Holds(b, agg, V)
  BY DEF FrameIInv, Status, Within
<1>1. DOMAIN rows = 1..Len(rows) /\ Len(rows) \in Nat /\ left \in Nat /\ entered \in Nat
      /\ left <= entered /\ entered <= Len(rows)
  BY <1>0 DEF Within, IsSeq
<1>2. CASE StepGroup
  <2>1. UNCHANGED <<call, rows>> /\ left' = left /\ entered' = entered + 1 /\ ~ Sliding
    BY <1>2 DEF StepGroup, IsGroup, Sliding, Appending
  <2>2. entered + 1 <= Len(rows)
    BY <1>1, <1>2 DEF StepGroup
  <2>3. Within(rows, left, entered + 1)
    BY <1>0, <2>2, EnterVals
  <2>4. QED
    BY <1>0, <2>1, <2>3, SameCall DEF FrameIInv
<1>3. CASE ~ IsGroup /\ Enter
  <2>1. UNCHANGED <<call, rows>> /\ left' = left /\ entered' = entered + 1
    BY <1>3 DEF Enter
  <2>2. entered + 1 \in DOMAIN rows
    BY <1>3 DEF Enter, UpToEnd
  <2>3. entered + 1 <= Len(rows)
    BY <1>1, <2>2
  <2>4. /\ Within(rows, left, entered + 1)
        /\ ValsBetween(rows, left, entered + 1) = Append(V, rows[entered + 1].val)
        /\ rows[entered + 1].val \in RowVals(rows)
    BY <1>0, <2>3, EnterVals
  <2>5. ASSUME Sliding PROVE Status(agg)'
    <3>1. agg' = Step(b, agg, rows[entered + 1].val)
      BY <1>3 DEF Enter, StepRow
    <3>2. V \in Seq(RowVals(rows)) /\ b \in Appending /\ Holds(b, agg, V)
      BY <1>0, <2>5, BetweenIs DEF Sliding
    <3> HIDE DEF V, b
    <3>3. Holds(b, agg', Append(V, rows[entered + 1].val))
      BY <2>4, <3>1, <3>2, StepHolds
    <3>4. QED
      BY <2>1, <2>4, <3>3 DEF Status, b
  <2>6. QED
    BY <1>0, <2>1, <2>4, <2>5, SameCall DEF FrameIInv
<1>4. CASE ~ IsGroup /\ Leave
  <2>1. UNCHANGED <<call, rows>> /\ left' = left + 1 /\ entered' = entered /\ left < entered
    BY <1>4 DEF Leave
  <2>2. /\ Within(rows, left + 1, entered)
        /\ V # <<>> /\ V[1] = rows[left + 1].val
        /\ Tail(V) = ValsBetween(rows, left + 1, entered)
    BY <1>0, <2>1, LeaveVals
  <2>3. ASSUME Sliding PROVE Status(agg)'
    <3>1. agg' = WindowInverse(b, agg, V[1])
      BY <1>4, <2>2 DEF Leave
    <3>2. V \in Seq(RowVals(rows)) /\ b \in Appending /\ Holds(b, agg, V)
      BY <1>0, <2>3, BetweenIs DEF Sliding
    <3>3. b # "constant" => SameInGo(rows[left + 1].val, rows[left + 1].val)
      <4>1. left + 1 \in DOMAIN rows
        BY <1>1, <2>1
      <4>2. b \in DOMAIN Inputs /\ rows \in Inputs[b]
        BY <1>0, InputsType DEF CallInv
      <4> HIDE DEF b
      <4>3. QED
        BY <3>2, <4>1, <4>2 DEF ComparedByValue, Appending
    <3> HIDE DEF V, b
    <3>4. Holds(b, agg', Tail(V))
      BY <2>2, <3>1, <3>2, <3>3, InverseHolds
    <3>5. QED
      BY <2>1, <2>2, <3>4 DEF Status, b
  <2>4. QED
    BY <1>0, <2>1, <2>2, <2>3, SameCall DEF FrameIInv
<1>5. CASE ~ IsGroup /\ Return
  <2>1. UNCHANGED <<call, rows, entered, left>> /\ agg' = AfterDone(b, agg)
    BY <1>5 DEF Return
  <2>2. b \in Appending => AfterDone(b, agg) = agg
    BY DEF AfterDone, Appending
  <2>3. QED
    BY <1>0, <2>1, <2>2, SameCall DEF FrameIInv, Status, Sliding
<1>6. CASE ~ IsGroup /\ Rescan
  <2>1. UNCHANGED <<call, rows, entered, left>> /\ ~ Sliding
    BY <1>6 DEF Rescan, Sliding
  <2>2. QED
    BY <1>0, <2>1, SameCall DEF FrameIInv
<1>7. CASE UNCHANGED vars
  BY <1>0, <1>7, SameCall DEF FrameIInv, Status, Sliding, vars
<1>8. QED
  BY <1>2, <1>3, <1>4, <1>5, <1>6, <1>7 DEF Next

LEMMA FrameImplied ==
  ASSUME FrameIInv
  PROVE  FrameKept
<1>1. Within(rows, left, entered) /\ (Sliding => Status(agg))
  BY DEF FrameIInv
<1>2. ValsBetween(rows, left, entered) = Vals(InFrame) /\ DOMAIN Vals(InFrame) = DOMAIN InFrame
  BY DEF ValsBetween, InFrame, Vals
<1>3. Sliding => agg.values = Held(call.builder, Vals(InFrame))
  BY <1>1, <1>2 DEF Status, Holds
<1>4. QED
  BY <1>2, <1>3 DEF FrameKept, Sliding, Appending, Held

(* As a frame slides over a partition, however entering and leaving        *)
(* interleave and however long both are, a status holds exactly the values *)
(* of the rows inside the frame, in their order, for every function whose  *)
(* constructor appends to it (WindowFuncAggregatedStatus.Step, Inverse).   *)
(* What Inverse compares by identity it cannot find, so the values must be *)
(* of those that Go compares by value.                                     *)
THEOREM StatusHoldsFrame ==
  ASSUME ComparedByValue
  PROVE  Spec => []FrameKept
<1>1. Init => FrameIInv
  BY FrameInit
<1>2. FrameIInv /\ [Next]_vars => FrameIInv'
  BY FrameStep
<1>3. FrameIInv => FrameKept
  BY FrameImplied
<1>4. QED
  BY <1>1, <1>2, <1>3, PTL DEF Spec
---------------------------------------------------------------------------
(* When SQLite asks for a value, the rows inside are the frame of the row  *)
(* whose value it is: what has entered is within the end of its frame, and *)
(* what has left is before its start, also those of the rows before.       *)
Windowed == ~ IsGroup /\ ~ call.frame.exclude

FrameReached ==
    /\ at \in Nat \ {0}
    /\ at \in DOMAIN rows => 1..entered \subseteq UpToEnd(at) /\ 1..left \subseteq Before(at)

ReachedIInv ==
    /\ CallInv
    /\ Within(rows, left, entered)
    /\ Windowed => FrameReached

(* No row is further from a row than from one before that.                 *)
LEMMA GroupsGrow ==
  ASSUME IsSeq(rows), NEW i \in DOMAIN rows, NEW j \in DOMAIN rows, i <= j
  PROVE  GroupOf(i) \in Nat /\ GroupOf(j) \in Nat /\ GroupOf(i) <= GroupOf(j)
<1> DEFINE keys(k) == {rows[m].key : m \in 1..k}
<1>1. i \in Nat /\ j \in Nat
  BY DEF IsSeq
<1>2. IsFiniteSet(keys(j)) /\ keys(i) \subseteq keys(j)
  <2>1. IsFiniteSet(1..j)
    BY <1>1, FS_Interval
  <2>2. keys(i) \subseteq keys(j)
    BY <1>1
  <2> DEFINE f == [m \in 1..j |-> rows[m].key]
  <2>3. f \in Surjection(1..j, keys(j))
    BY DEF Surjection
  <2> HIDE DEF f, keys
  <2>4. IsFiniteSet(keys(j))
    BY <2>1, <2>3, FS_Surjection
  <2>5. QED
    BY <2>2, <2>4
<1>3. GroupOf(i) = Cardinality(keys(i)) /\ GroupOf(j) = Cardinality(keys(j))
  BY DEF GroupOf
<1> HIDE DEF keys
<1>4. IsFiniteSet(keys(i)) /\ Cardinality(keys(i)) <= Cardinality(keys(j))
  BY <1>2, FS_Subset
<1>5. QED
  BY <1>2, <1>3, <1>4, FS_CardinalityType

LEMMA DistanceFalls ==
  ASSUME CallInv, IsSeq(rows), ~ IsGroup,
         NEW i \in DOMAIN rows, NEW k \in DOMAIN rows, i <= k, NEW j \in DOMAIN rows
  PROVE  Distance(i, j) \in Int /\ Distance(k, j) \in Int /\ Distance(k, j) <= Distance(i, j)
<1>1. call \in Calls /\ rows \in Inputs[call.builder] /\ call.builder # "group"
  BY DEF CallInv, IsGroup
<1>2. /\ call.frame.unit \in {"ROWS", "GROUPS", "RANGE"}
      /\ call.frame.unit = "RANGE" => KeySorted(rows)
  BY <1>1, PartitionsType DEF IsFrame
<1>3. i \in Int /\ j \in Int /\ k \in Int
  BY DEF IsSeq
<1>4. CASE call.frame.unit = "ROWS"
  BY <1>3, <1>4 DEF Distance
<1>5. CASE call.frame.unit = "GROUPS"
  <2>1. /\ GroupOf(i) \in Nat /\ GroupOf(k) \in Nat /\ GroupOf(i) <= GroupOf(k)
    BY GroupsGrow
  <2>2. GroupOf(j) \in Nat
    <3>1. j <= j
      BY <1>3
    <3>2. QED
      BY <3>1, GroupsGrow
  <2>3. \A m \in {i, k} : Distance(m, j) = GroupOf(j) - GroupOf(m)
    BY <1>5 DEF Distance
  <2>4. QED
    BY <2>1, <2>2, <2>3
<1>6. CASE call.frame.unit = "RANGE"
  <2>1. \A m \in {i, k} : Distance(m, j) = Num(rows[j].key[1]) - Num(rows[m].key[1])
    BY <1>6 DEF Distance
  <2>2. /\ Num(rows[i].key[1]) \in Int /\ Num(rows[j].key[1]) \in Int /\ Num(rows[k].key[1]) \in Int
        /\ Num(rows[i].key[1]) <= Num(rows[k].key[1])
    BY <1>2, <1>6 DEF KeySorted
  <2>3. QED
    BY <2>1, <2>2
<1>7. QED
  BY <1>2, <1>4, <1>5, <1>6

LEMMA FramesGrow ==
  ASSUME CallInv, IsSeq(rows), ~ IsGroup,
         NEW i \in DOMAIN rows, NEW k \in DOMAIN rows, i <= k
  PROVE  UpToEnd(i) \subseteq UpToEnd(k) /\ Before(i) \subseteq Before(k)
<1>1. call.frame.start \in Int /\ call.frame.end \in Int
  BY PartitionsType DEF CallInv, IsGroup, IsFrame
<1>2. ASSUME NEW j \in DOMAIN rows
      PROVE  Distance(i, j) \in Int /\ Distance(k, j) \in Int /\ Distance(k, j) <= Distance(i, j)
  BY DistanceFalls
<1>3. ASSUME NEW j \in UpToEnd(i) PROVE j \in UpToEnd(k)
  <2>1. j \in DOMAIN rows /\ Distance(i, j) <= call.frame.end
    BY <1>3 DEF UpToEnd
  <2>2. Distance(k, j) <= call.frame.end
    BY <1>1, <1>2, <2>1
  <2>3. QED
    BY <2>1, <2>2 DEF UpToEnd
<1>4. ASSUME NEW j \in Before(i) PROVE j \in Before(k)
  <2>1. j \in DOMAIN rows /\ Distance(i, j) < call.frame.start
    BY <1>4 DEF Before
  <2>2. Distance(k, j) < call.frame.start
    BY <1>1, <1>2, <2>1
  <2>3. QED
    BY <2>1, <2>2 DEF Before
<1>5. QED
  BY <1>3, <1>4

LEMMA ReachedStep ==
  ASSUME ReachedIInv, [Next]_vars
  PROVE  ReachedIInv'
<1>0. /\ CallInv /\ Within(rows, left, entered) /\ IsSeq(rows)
      /\ Windowed => FrameReached
  BY DEF ReachedIInv, Within
<1>1. DOMAIN rows = 1..Len(rows) /\ Len(rows) \in Nat /\ left \in Nat /\ entered \in Nat
      /\ left <= entered /\ entered <= Len(rows)
  BY <1>0 DEF Within, IsSeq
<1>2. ASSUME UNCHANGED <<call, rows>>
      PROVE  /\ CallInv' /\ (Windowed' <=> Windowed)
             /\ \A i : UpToEnd(i)' = UpToEnd(i) /\ Before(i)' = Before(i)
  BY <1>0, <1>2 DEF CallInv, Windowed, IsGroup, UpToEnd, Before, Distance, GroupOf
<1>3. CASE StepGroup
  <2>1. UNCHANGED <<call, rows>> /\ left' = left /\ entered' = entered + 1 /\ ~ Windowed
    BY <1>3 DEF StepGroup, Windowed
  <2>2. entered + 1 <= Len(rows)
    BY <1>1, <1>3 DEF StepGroup
  <2>3. Within(rows, left, entered + 1)
    BY <1>0, <2>2, EnterVals
  <2>4. QED
    BY <1>2, <2>1, <2>3 DEF ReachedIInv
<1>4. CASE ~ IsGroup /\ Enter
  <2>1. UNCHANGED <<call, rows>> /\ left' = left /\ entered' = entered + 1 /\ at' = at
    BY <1>4 DEF Enter
  <2>2. entered + 1 \in DOMAIN rows /\ entered + 1 \in UpToEnd(at)
    BY <1>4 DEF Enter, UpToEnd
  <2>3. Within(rows, left, entered + 1)
    <3>1. entered + 1 <= Len(rows)
      BY <1>1, <2>2
    <3>2. QED
      BY <1>0, <3>1, EnterVals
  <2>4. Windowed => FrameReached'
    <3>1. 1..(entered + 1) = 1..entered \cup {entered + 1}
      BY <1>1
    <3>2. QED
      BY <1>0, <1>2, <2>1, <2>2, <3>1 DEF FrameReached
  <2>5. QED
    BY <1>2, <2>1, <2>3, <2>4 DEF ReachedIInv
<1>5. CASE ~ IsGroup /\ Leave
  <2>1. /\ UNCHANGED <<call, rows>> /\ left' = left + 1 /\ entered' = entered /\ at' = at
        /\ left < entered /\ left + 1 \in Before(at)
    BY <1>5 DEF Leave
  <2>2. Within(rows, left + 1, entered)
    BY <1>0, <2>1, LeaveVals
  <2>3. Windowed => FrameReached'
    <3>1. 1..(left + 1) = 1..left \cup {left + 1}
      BY <1>1
    <3>2. QED
      BY <1>0, <1>2, <2>1, <3>1 DEF FrameReached
  <2>4. QED
    BY <1>2, <2>1, <2>2, <2>3 DEF ReachedIInv
<1>6. CASE ~ IsGroup /\ Return
  <2>1. UNCHANGED <<call, rows, entered, left>> /\ at' = at + Cardinality(Peers) /\ at <= Len(rows)
    BY <1>6 DEF Return, Ready, Due
  <2>2. ASSUME Windowed PROVE FrameReached'
    <3>1. at \in Nat \ {0} /\ at \in DOMAIN rows
      BY <1>0, <1>1, <2>1, <2>2 DEF FrameReached
    <3>2. Cardinality(Peers) \in Nat
      <4>1. IsFiniteSet(DOMAIN rows)
        BY <1>1, FS_Interval
      <4>2. Peers \subseteq DOMAIN rows
        BY <3>1 DEF Peers
      <4>3. QED
        BY <4>1, <4>2, FS_Subset, FS_CardinalityType
    <3>3. at' \in Nat \ {0} /\ at <= at'
      BY <2>1, <3>1, <3>2
    <3>4. ASSUME at' \in DOMAIN rows
          PROVE  1..entered \subseteq UpToEnd(at') /\ 1..left \subseteq Before(at')
      <4>1. UpToEnd(at) \subseteq UpToEnd(at') /\ Before(at) \subseteq Before(at')
        BY <1>0, <2>2, <3>1, <3>3, <3>4, FramesGrow DEF Windowed
      <4>2. QED
        BY <1>0, <2>2, <3>1, <4>1 DEF FrameReached
    <3>5. QED
      BY <1>2, <2>1, <3>3, <3>4 DEF FrameReached
  <2>3. QED
    BY <1>0, <1>2, <2>1, <2>2 DEF ReachedIInv
<1>7. CASE ~ IsGroup /\ Rescan
  <2>1. UNCHANGED <<call, rows, entered, left>> /\ ~ Windowed
    BY <1>7 DEF Rescan, Windowed
  <2>2. QED
    BY <1>0, <1>2, <2>1 DEF ReachedIInv
<1>8. CASE UNCHANGED vars
  <2>1. UNCHANGED <<call, rows, entered, left, at>>
    BY <1>8 DEF vars
  <2>2. FrameReached' <=> FrameReached
    BY <1>2, <2>1 DEF FrameReached
  <2>3. QED
    BY <1>0, <1>2, <2>1, <2>2 DEF ReachedIInv
<1>9. QED
  BY <1>3, <1>4, <1>5, <1>6, <1>7, <1>8 DEF Next

LEMMA ReachedInit ==
  ASSUME Init
  PROVE  ReachedIInv
<1>1. call \in Calls /\ rows \in Inputs[call.builder] /\ entered = 0 /\ left = 0 /\ at = 1
  BY DEF Init
<1>2. CallInv
  BY <1>1 DEF CallInv
<1>3. IsSeq(rows)
  BY <1>1, InputsType
<1>4. Within(rows, left, entered)
  BY <1>1, <1>3 DEF Within, IsSeq
<1>5. FrameReached
  BY <1>1 DEF FrameReached
<1>6. QED
  BY <1>2, <1>4, <1>5 DEF ReachedIInv

(* The rows whose values the status holds are those of the frame.          *)
InsideIsFrame == Windowed /\ Ready => FrameRows(at) = (left + 1)..entered

LEMMA ReachedImplies ==
  ASSUME ReachedIInv
  PROVE  InsideIsFrame
<1> SUFFICES ASSUME Windowed, Ready PROVE FrameRows(at) = (left + 1)..entered
  BY DEF InsideIsFrame
<1>1. /\ Within(rows, left, entered) /\ IsSeq(rows) /\ FrameReached
  BY DEF ReachedIInv, Within
<1>2. DOMAIN rows = 1..Len(rows) /\ Len(rows) \in Nat /\ left \in Nat /\ entered \in Nat
      /\ left <= entered /\ entered <= Len(rows)
  BY <1>1 DEF Within, IsSeq
<1>3. /\ at \in DOMAIN rows
      /\ 1..entered \subseteq UpToEnd(at) /\ 1..left \subseteq Before(at)
  BY <1>1, <1>2 DEF FrameReached, Ready, Due
<1>4. /\ \A j \in UpToEnd(at) : j <= entered
      /\ \A j \in Before(at) : j <= left \/ j > entered
      /\ UpToEnd(at) \subseteq DOMAIN rows
  BY DEF Ready, UpToEnd
<1>5. FrameRows(at) = UpToEnd(at) \ Before(at)
  BY DEF FrameRows, Windowed
<1>6. ASSUME NEW j \in UpToEnd(at) \ Before(at) PROVE j \in (left + 1)..entered
  <2>1. j \in 1..Len(rows) /\ j <= entered /\ ~ (j \in 1..left)
    BY <1>2, <1>3, <1>4, <1>6
  <2>2. QED
    BY <1>2, <2>1
<1>7. ASSUME NEW j \in (left + 1)..entered PROVE j \in UpToEnd(at) \ Before(at)
  <2>1. j \in 1..entered /\ ~ (j <= left \/ j > entered)
    BY <1>2, <1>7
  <2>2. QED
    BY <1>3, <1>4, <2>1
<1>8. QED
  BY <1>5, <1>6, <1>7

(* When SQLite asks WindowAggregator.Done for the value of a row, the rows *)
(* that were stepped and not taken back are exactly the rows of its frame, *)
(* however Step and WindowInverse came before: after FrameKept, Done       *)
(* computes from the values of the frame, in their order, and no others.   *)
THEOREM RowsInsideAreFrame == Spec => []InsideIsFrame
<1>1. Init => ReachedIInv
  BY ReachedInit
<1>2. ReachedIInv /\ [Next]_vars => ReachedIInv'
  BY ReachedStep
<1>3. ReachedIInv => InsideIsFrame
  BY ReachedImplies
<1>4. QED
  BY <1>1, <1>2, <1>3, PTL DEF Spec

---------------------------------------------------------------------------
(* How many values NonNull keeps.                                          *)
LEMMA NonNullLength ==
  ASSUME NEW S, NEW vs \in Seq(S)
  PROVE  Len(NonNull(vs)) = Cardinality({i \in DOMAIN vs : vs[i] # Null})
<1> DEFINE kept(k) == {i \in 1..k : vs[i] # Null}
<1>1. PICK h : Kept(h, vs) /\ NonNull(vs) = h[Len(vs)]
  BY FoldSteps
<1>2. DOMAIN vs = 1..Len(vs) /\ Len(vs) \in Nat
  OBVIOUS
<1>3. ASSUME NEW k \in 0..Len(vs) PROVE IsFiniteSet(kept(k))
  <2>1. IsFiniteSet(1..k) /\ kept(k) \subseteq 1..k
    BY <1>2, FS_Interval
  <2> HIDE DEF kept
  <2>2. QED
    BY <2>1, FS_Subset
<1> DEFINE T == {k \in 0..Len(vs) : Len(h[k]) # Cardinality(kept(k))}
<1>4. T = {}
  <2> SUFFICES ASSUME T # {} PROVE FALSE
    OBVIOUS
  <2>1. PICK j \in T : \A i \in T : j <= i
    <3>1. T \in SUBSET Nat
      BY <1>2
    <3> HIDE DEF T
    <3>2. QED
      BY <3>1, LeastNat
  <2>2. j # 0
    <3>1. kept(0) = {} /\ h[0] = <<>>
      BY <1>1 DEF Kept
    <3>2. Len(h[0]) = Cardinality(kept(0))
      BY <3>1, FS_EmptySet
    <3>3. QED
      BY <2>1, <3>2
  <2>3. j \in 1..Len(vs) /\ j - 1 \in 0..Len(vs) /\ j - 1 \notin T
    BY <1>2, <2>1, <2>2
  <2>4. Len(h[j - 1]) = Cardinality(kept(j - 1))
    BY <2>3
  <2>5. h[j] = KeepNonNull(h[j - 1], vs[j]) /\ h[j - 1] \in Seq(S \ {Null})
    BY <1>1, <2>3, KeptType DEF Kept
  <2>6. kept(j) = IF vs[j] = Null THEN kept(j - 1) ELSE kept(j - 1) \cup {j}
    BY <1>2, <2>3
  <2>7. j \notin kept(j - 1)
    BY <1>2, <2>3
  <2>8. IsFiniteSet(kept(j - 1))
    BY <1>3, <2>3
  <2>9. vs[j] \in S
    BY <1>2, <2>3
  <2> HIDE DEF kept
  <2>10. Cardinality(kept(j - 1)) \in Nat
    BY <2>8, FS_CardinalityType
  <2>11. CASE vs[j] = Null
    <3>1. kept(j) = kept(j - 1) /\ h[j] = h[j - 1]
      BY <2>5, <2>6, <2>11 DEF KeepNonNull
    <3>2. QED
      BY <2>4, <3>1
  <2>12. CASE vs[j] # Null
    <3> DEFINE before == kept(j - 1)
               seen == h[j - 1]
    <3>1. kept(j) = before \cup {j} /\ h[j] = Append(seen, vs[j])
      BY <2>5, <2>6, <2>12 DEF KeepNonNull
    <3> HIDE DEF before
    <3>2. Cardinality(before \cup {j}) = Cardinality(before) + 1
      BY <2>7, <2>8, FS_AddElement DEF before
    <3>3. Cardinality(kept(j)) = Cardinality(before) + 1
      BY <3>1, <3>2
    <3>4. seen \in Seq(S \ {Null}) /\ vs[j] \in S \ {Null}
      BY <2>5, <2>9, <2>12
    <3> HIDE DEF seen
    <3>5. Len(Append(seen, vs[j])) = Len(seen) + 1
      BY <3>4
    <3>6. Len(h[j]) = Len(seen) + 1
      BY <3>1, <3>5
    <3>7. Len(seen) = Cardinality(before)
      BY <2>4 DEF before, seen
    <3>8. QED
      BY <3>3, <3>6, <3>7
  <2>13. QED
    BY <2>1, <2>11, <2>12
<1>5. Len(vs) \in 0..Len(vs)
  BY <1>2
<1>6. Len(h[Len(vs)]) = Cardinality(kept(Len(vs)))
  BY <1>4, <1>5
<1>7. QED
  BY <1>1, <1>2, <1>6

(* The options of a status stay those of the call.                         *)
AnswerIInv ==
    /\ FrameIInv
    /\ ReachedIInv
    /\ Sliding => agg.opt = call.opt

LEMMA AnswerInit ==
  ASSUME Init
  PROVE  AnswerIInv
<1>1. ASSUME Sliding PROVE agg.opt = call.opt
  <2>1. agg = NewStatus(call.opt)
    BY <1>1 DEF Init, New, Sliding, Appending, IsGroup
  <2>2. QED
    BY <2>1 DEF NewStatus
<1>2. QED
  BY <1>1, FrameInit, ReachedInit DEF AnswerIInv

LEMMA OptionsStay ==
  ASSUME NEW b \in Appending, NEW s, NEW v, DOMAIN s = StatusFields
  PROVE  /\ Step(b, s, v).opt = s.opt
         /\ WindowInverse(b, s, v).opt = s.opt
         /\ AfterDone(b, s) = s
<1>1. \A w : AppendValue(s, w).opt = s.opt
  BY DEF AppendValue, StatusFields
<1>2. \A w : RemoveEqual(s, w).opt = s.opt
  BY DEF RemoveEqual, StatusFields
<1>3. b \in {"single", "count", "constant"}
  BY DEF Appending
<1>4. Step(b, s, v).opt = s.opt
  BY <1>1, <1>3 DEF Step
<1>5. WindowInverse(b, s, v).opt = s.opt
  BY <1>2, <1>3 DEF WindowInverse
<1>6. AfterDone(b, s) = s
  BY <1>3 DEF AfterDone
<1>7. QED
  BY <1>4, <1>5, <1>6

LEMMA AnswerStep ==
  ASSUME ComparedByValue, AnswerIInv, [Next]_vars
  PROVE  AnswerIInv'
<1>1. FrameIInv' /\ ReachedIInv'
  BY FrameStep, ReachedStep DEF AnswerIInv
<1>2. ASSUME Sliding' PROVE agg'.opt = call'.opt
  <2>1. UNCHANGED call /\ Sliding
    BY <1>2 DEF Next, StepGroup, Enter, Leave, Return, Rescan, vars, Sliding
  <2>2. /\ call.builder \in Appending /\ ~ call.frame.exclude /\ ~ IsGroup
        /\ agg.opt = call.opt /\ DOMAIN agg = StatusFields
    BY <2>1 DEF Sliding, Appending, IsGroup, AnswerIInv, FrameIInv, Status, Holds
  <2>3. CASE Enter
    <3>1. agg' = Step(call.builder, agg, rows[entered + 1].val)
      BY <2>2, <2>3 DEF Enter, StepRow
    <3>2. QED
      BY <2>1, <2>2, <3>1, OptionsStay
  <2>4. CASE Leave
    <3>1. agg' = WindowInverse(call.builder, agg, rows[left + 1].val)
      BY <2>4 DEF Leave
    <3>2. QED
      BY <2>1, <2>2, <3>1, OptionsStay
  <2>5. CASE Return
    <3>1. agg' = AfterDone(call.builder, agg)
      BY <2>5 DEF Return
    <3>2. QED
      BY <2>1, <2>2, <3>1, OptionsStay
  <2>6. CASE UNCHANGED vars
    BY <2>1, <2>2, <2>6 DEF vars
  <2>7. QED
    BY <2>2, <2>3, <2>4, <2>5, <2>6 DEF Next, StepGroup, Rescan
<1>3. QED
  BY <1>1, <1>2 DEF AnswerIInv

---------------------------------------------------------------------------
(* What Done answers, without DISTINCT and IGNORE NULLS, in terms of the   *)
(* frame of the row asked for: COUNT( * ) its rows, COUNT those that are   *)
(* not NULL, and the three functions of a position the value of the first  *)
(* row, of the last or of the one counted to.                              *)
WithoutOptions == ~ call.opt.distinct /\ ~ call.opt.ignoreNulls

FirstRow(S, j) == j \in S /\ \A k \in S : j <= k
LastRow(S, j) == j \in S /\ \A k \in S : k <= j
CountedTo(S, j, n) == j \in S /\ n = Cardinality({k \in S : k <= j})

CountsMean ==
    /\ call.builder = "constant" => ListDone("count_star", agg) = IntV(Cardinality(FrameRows(at)))
    /\ call.builder = "count" =>
         ListDone("count", agg) = IntV(Cardinality({j \in FrameRows(at) : rows[j].val # Null}))

PositionsMean(arg) ==
    call.builder = "single" =>
        /\ FrameRows(at) = {} =>
              /\ NavigationDone("first_value", agg, arg) = Null
              /\ NavigationDone("last_value", agg, arg) = Null
        /\ \A j : FirstRow(FrameRows(at), j) =>
              NavigationDone("first_value", agg, arg) = rows[j].val
        /\ \A j : LastRow(FrameRows(at), j) =>
              NavigationDone("last_value", agg, arg) = rows[j].val
        /\ \A j : CountedTo(FrameRows(at), j, arg.offset) =>
              NavigationDone("nth_value", agg, arg) = rows[j].val
        /\ Cardinality(FrameRows(at)) < arg.offset =>
              NavigationDone("nth_value", agg, arg) = Null

AnswersMean(arg) == Windowed /\ Ready /\ WithoutOptions => CountsMean /\ PositionsMean(arg)

(* The frame as an interval, and what is held of its values.               *)
LEMMA StatusHeld ==
  ASSUME AnswerIInv, Windowed, Ready, call.builder \in Appending
  PROVE  /\ FrameRows(at) = (left + 1)..entered
         /\ Within(rows, left, entered)
         /\ agg.values = Held(call.builder, ValsBetween(rows, left, entered))
         /\ agg.opt = call.opt
<1>1. FrameRows(at) = (left + 1)..entered
  BY ReachedImplies DEF AnswerIInv, InsideIsFrame
<1>2. Within(rows, left, entered)
  BY DEF AnswerIInv, FrameIInv
<1>3. Sliding
  BY DEF Windowed, Sliding
<1>4. /\ agg.values = Held(call.builder, ValsBetween(rows, left, entered))
      /\ agg.opt = call.opt
  BY <1>3 DEF AnswerIInv, FrameIInv, Status, Holds
<1>5. QED
  BY <1>1, <1>2, <1>4

LEMMA FrameHeld ==
  ASSUME AnswerIInv, Windowed, Ready, WithoutOptions, call.builder \in Appending
  PROVE  /\ FrameRows(at) = (left + 1)..entered
         /\ Within(rows, left, entered)
         /\ RelevantValues(agg) = Held(call.builder, ValsBetween(rows, left, entered))
         /\ agg.values = Held(call.builder, ValsBetween(rows, left, entered))
<1>1. RelevantValues(agg) = agg.values
  BY StatusHeld DEF WithoutOptions, RelevantValues
<1>2. QED
  BY <1>1, StatusHeld

LEMMA CountsImplied ==
  ASSUME AnswerIInv, Windowed, Ready, WithoutOptions
  PROVE  CountsMean
<1> DEFINE V == ValsBetween(rows, left, entered)
           n == entered - left
<1>1. ASSUME call.builder \in Appending
      PROVE  /\ FrameRows(at) = (left + 1)..entered
             /\ Within(rows, left, entered)
             /\ RelevantValues(agg) = Held(call.builder, V)
  BY <1>1, FrameHeld
<1>2. ASSUME Within(rows, left, entered)
      PROVE  /\ V = [i \in 1..n |-> rows[left + i].val] /\ V \in Seq(RowVals(rows))
             /\ n \in Nat /\ left \in Nat /\ entered \in Nat /\ entered = left + n
  <2>1. V = NextVals(rows, left, n) /\ V \in Seq(RowVals(rows))
    BY <1>2, BetweenIs
  <2>2. n \in Nat /\ left \in Nat /\ entered \in Nat /\ entered = left + n
    BY <1>2 DEF Within
  <2> HIDE DEF V, n
  <2>3. QED
    BY <2>1, <2>2 DEF NextVals
<1> HIDE DEF V, n
<1>3. CASE call.builder = "constant"
  <2>1. /\ FrameRows(at) = (left + 1)..entered /\ Within(rows, left, entered)
        /\ RelevantValues(agg) = Held("constant", V)
    BY <1>1, <1>3 DEF Appending
  <2>2. /\ DOMAIN V = 1..n /\ n \in Nat /\ left \in Nat /\ entered \in Nat /\ entered = left + n
    BY <1>2, <2>1
  <2>3. Cardinality(FrameRows(at)) = n
    <3>1. Cardinality((left + 1)..entered) = IF left + 1 > entered THEN 0 ELSE entered - (left + 1) + 1
      BY <2>2, FS_Interval
    <3>2. QED
      BY <2>1, <2>2, <3>1
  <2>4. Len(RelevantValues(agg)) = n
    <3> DEFINE one == IntV(1)
    <3>1. RelevantValues(agg) = [i \in 1..n |-> one]
      BY <2>1, <2>2 DEF Held
    <3> HIDE DEF one
    <3>2. QED
      BY <2>2, <3>1
  <2>5. ListDone("count_star", agg) = IntV(Len(RelevantValues(agg)))
    BY DEF ListDone
  <2>6. QED
    BY <1>3, <2>3, <2>4, <2>5 DEF CountsMean
<1>4. CASE call.builder = "count"
  <2>1. /\ FrameRows(at) = (left + 1)..entered /\ Within(rows, left, entered)
        /\ RelevantValues(agg) = NonNull(V)
    BY <1>1, <1>4 DEF Appending, Held
  <2>2. /\ V = [i \in 1..n |-> rows[left + i].val] /\ V \in Seq(RowVals(rows))
        /\ n \in Nat /\ left \in Nat /\ entered \in Nat /\ entered = left + n
    BY <1>2, <2>1
  <2> DEFINE kept == {i \in 1..n : V[i] # Null}
             counted == {j \in FrameRows(at) : rows[j].val # Null}
             f == [i \in kept |-> left + i]
  <2>3. Len(NonNull(V)) = Cardinality(kept)
    <3>1. DOMAIN V = 1..n
      BY <2>2
    <3>2. Len(NonNull(V)) = Cardinality({i \in DOMAIN V : V[i] # Null})
      BY <2>2, NonNullLength
    <3>3. QED
      BY <3>1, <3>2
  <2>4. f \in Bijection(kept, counted)
    <3>1. \A i \in kept : left + i \in counted
      BY <2>1, <2>2
    <3>2. \A j \in counted : j - left \in kept /\ j = left + (j - left)
      <4> TAKE j \in counted
      <4>1. j \in (left + 1)..entered /\ rows[j].val # Null
        BY <2>1
      <4>2. j - left \in 1..n /\ j = left + (j - left)
        BY <2>2, <4>1
      <4>3. V[j - left] = rows[j].val
        BY <2>2, <4>2
      <4>4. QED
        BY <4>1, <4>2, <4>3
    <3>3. \A a, b \in kept : left + a = left + b => a = b
      BY <2>2
    <3> HIDE DEF kept, counted
    <3>4. f \in [kept -> counted] /\ \A j \in counted : \E i \in kept : f[i] = j
      BY <3>1, <3>2
    <3>5. \A a, b \in kept : f[a] = f[b] => a = b
      BY <3>3
    <3> HIDE DEF f
    <3>6. QED
      BY <3>4, <3>5 DEF Bijection, Injection, Surjection, IsInjective
  <2>5. IsFiniteSet(kept)
    <3>1. IsFiniteSet(1..n) /\ kept \subseteq 1..n
      BY <2>2, FS_Interval
    <3> HIDE DEF kept
    <3>2. QED
      BY <3>1, FS_Subset
  <2> HIDE DEF kept, counted, f
  <2>6. Cardinality(counted) = Cardinality(kept)
    BY <2>4, <2>5, FS_Bijection DEF ExistsBijection
  <2>7. ListDone("count", agg) = IntV(Len(RelevantValues(agg)))
    BY DEF ListDone
  <2>8. ListDone("count", agg) = IntV(Cardinality(counted))
    BY <2>1, <2>3, <2>6, <2>7
  <2>9. QED
    BY <1>4, <2>8 DEF CountsMean, counted
<1>5. QED
  BY <1>3, <1>4 DEF CountsMean

LEMMA PositionsImplied ==
  ASSUME NEW arg, AnswerIInv, Windowed, Ready, WithoutOptions
  PROVE  PositionsMean(arg)
<1> SUFFICES ASSUME call.builder = "single" PROVE PositionsMean(arg)
  BY DEF PositionsMean
<1> DEFINE V == ValsBetween(rows, left, entered)
           n == entered - left
           S == FrameRows(at)
<1>1. S = (left + 1)..entered /\ Within(rows, left, entered) /\ RelevantValues(agg) = V
  BY FrameHeld DEF Appending, Held
<1>2. /\ V = [i \in 1..n |-> rows[left + i].val]
      /\ n \in Nat /\ left \in Nat /\ entered \in Nat /\ entered = left + n
  <2>1. V = NextVals(rows, left, n)
    BY <1>1, BetweenIs
  <2>2. n \in Nat /\ left \in Nat /\ entered \in Nat /\ entered = left + n
    BY <1>1 DEF Within
  <2> HIDE DEF V, n
  <2>3. QED
    BY <2>1, <2>2 DEF NextVals
<1> HIDE DEF V, n, S
<1>3. Len(V) = n /\ (V = <<>> <=> n = 0) /\ \A j \in S : j - left \in 1..n /\ V[j - left] = rows[j].val
  <2>1. \A j \in S : j - left \in 1..n /\ left + (j - left) = j
    BY <1>1, <1>2
  <2>2. QED
    BY <1>2, <2>1
<1>4. /\ NavigationDone("first_value", agg, arg) = IF V = <<>> THEN Null ELSE V[1]
      /\ NavigationDone("last_value", agg, arg) = IF V = <<>> THEN Null ELSE V[Len(V)]
  BY <1>1 DEF NavigationDone
<1>5. NavigationDone("nth_value", agg, arg) =
        IF arg.offset = 0 THEN Panic ELSE IF Len(V) < arg.offset THEN Null ELSE V[arg.offset]
  BY <1>1 DEF NavigationDone
<1>6. S = {} => n = 0
  BY <1>1, <1>2
<1>7. ASSUME NEW j, FirstRow(S, j) PROVE j - left = 1 /\ n # 0
  <2>1. j \in (left + 1)..entered /\ left + 1 \in S
    BY <1>1, <1>2, <1>7 DEF FirstRow
  <2>2. QED
    BY <1>2, <1>7, <2>1 DEF FirstRow
<1>8. ASSUME NEW j, LastRow(S, j) PROVE j - left = n /\ n # 0
  <2>1. j \in (left + 1)..entered /\ entered \in S
    BY <1>1, <1>2, <1>8 DEF LastRow
  <2>2. QED
    BY <1>2, <1>8, <2>1 DEF LastRow
<1>9. ASSUME NEW j, CountedTo(S, j, arg.offset) PROVE arg.offset = j - left /\ j \in S
  <2>1. j \in S /\ j \in Int /\ arg.offset = Cardinality({k \in S : k <= j})
    BY <1>1, <1>9 DEF CountedTo
  <2>2. {k \in S : k <= j} = (left + 1)..j
    BY <1>1, <1>2, <2>1
  <2>3. Cardinality((left + 1)..j) = IF left + 1 > j THEN 0 ELSE j - (left + 1) + 1
    BY <1>2, <2>1, FS_Interval
  <2>4. left + 1 <= j
    BY <1>1, <1>2, <2>1
  <2>5. Cardinality((left + 1)..j) = j - left
    BY <1>2, <2>1, <2>3, <2>4
  <2>6. arg.offset = Cardinality((left + 1)..j)
    BY <2>1, <2>2, Zenon
  <2>7. QED
    BY <2>1, <2>5, <2>6
<1>10. Cardinality(S) = n
  <2>1. Cardinality((left + 1)..entered) = IF left + 1 > entered THEN 0 ELSE entered - (left + 1) + 1
    BY <1>2, FS_Interval
  <2>2. QED
    BY <1>1, <1>2, <2>1
<1>11. S = {} => /\ NavigationDone("first_value", agg, arg) = Null
                 /\ NavigationDone("last_value", agg, arg) = Null
  BY <1>3, <1>4, <1>6
<1>12. ASSUME NEW j, FirstRow(S, j) PROVE NavigationDone("first_value", agg, arg) = rows[j].val
  BY <1>3, <1>4, <1>7, <1>12 DEF FirstRow
<1>13. ASSUME NEW j, LastRow(S, j) PROVE NavigationDone("last_value", agg, arg) = rows[j].val
  BY <1>3, <1>4, <1>8, <1>13 DEF LastRow
<1>14. ASSUME NEW j, CountedTo(S, j, arg.offset)
       PROVE  NavigationDone("nth_value", agg, arg) = rows[j].val
  <2>1. arg.offset \in 1..n /\ V[arg.offset] = rows[j].val
    BY <1>3, <1>9, <1>14
  <2>2. arg.offset # 0 /\ ~ (Len(V) < arg.offset)
    BY <1>2, <1>3, <2>1
  <2>3. QED
    BY <1>5, <2>1, <2>2
<1>15. Cardinality(S) < arg.offset => NavigationDone("nth_value", agg, arg) = Null
  <2> HAVE Cardinality(S) < arg.offset
  <2>1. arg.offset # 0 /\ Len(V) < arg.offset
    BY <1>2, <1>3, <1>10
  <2>2. QED
    BY <1>5, <2>1
<1>16. QED
  BY <1>11, <1>12, <1>13, <1>14, <1>15 DEF PositionsMean, S

(* Without DISTINCT and IGNORE NULLS the functions answer from the frame   *)
(* of the row they are asked for: window COUNT( * ) is the number of its   *)
(* rows, COUNT that of its values but NULL, FIRST_VALUE, LAST_VALUE and    *)
(* NTH_VALUE are the values at their place in the frame, and NULL where    *)
(* there is none (WINDOW_COUNT_STAR.Done, WINDOW_COUNT.Done,               *)
(* WINDOW_FIRST_VALUE.Done, WINDOW_LAST_VALUE.Done, WINDOW_NTH_VALUE.Done  *)
(* over the status that WindowAggregator keeps).                           *)
THEOREM FrameAnswers ==
  ASSUME ComparedByValue, NEW CONSTANT arg
  PROVE  Spec => []AnswersMean(arg)
<1>1. Init => AnswerIInv
  BY AnswerInit
<1>2. AnswerIInv /\ [Next]_vars => AnswerIInv'
  BY AnswerStep
<1>3. AnswerIInv => AnswersMean(arg)
  BY CountsImplied, PositionsImplied DEF AnswersMean
<1>4. QED
  BY <1>1, <1>2, <1>3, PTL DEF Spec

---------------------------------------------------------------------------
(* The folds over values, which are defined by a table of the results for  *)
(* every set of indices.  Six operators are folded, named by a kind.       *)
FoldBase(kind) ==
    CASE kind \in {"sum", "true"} -> 0 [] kind = "option" -> Parsed(<<>>, NoOptions)
      [] kind = "distinct" -> <<>> [] kind \in {"max", "min"} -> Null
FoldStep(kind, a, v) ==
    CASE kind = "sum" -> AddValue(a, v) [] kind = "option" -> ParseOption(a, v) [] kind = "distinct" -> KeepNew(a, v)
      [] kind = "true" -> AddTrue(a, v) [] kind = "max" -> Larger(a, v) [] kind = "min" -> Smaller(a, v)

TableOf(kind, table, vs, indices) ==
    table = [s \in SUBSET indices |->
                IF s = {} THEN FoldBase(kind) ELSE FoldStep(kind, table[s \ {Max(s)}], vs[Max(s)])]

(* For every sequence of values there is such a table.                     *)
LEMMA TableExists ==
  ASSUME NEW kind, NEW vs, NEW m \in Nat
  PROVE  \E h : TableOf(kind, h, vs, 1..m)
<1> DEFINE Step1(h, s) == IF s = {} THEN FoldBase(kind) ELSE FoldStep(kind, h[s \ {Max(s)}], vs[Max(s)])
           Table(k, h) == TableOf(kind, h, vs, 1..k)
           T == {k \in Nat : ~ \E h : Table(k, h)}
<1> USE DEF TableOf
<1>1. T # {} => FALSE
  <2> SUFFICES ASSUME T # {} PROVE FALSE
    OBVIOUS
  <2>1. PICK k \in T : \A j \in T : k <= j
    BY LeastNat
  <2>2. k # 0
    <3> DEFINE h == [s \in SUBSET (1..0) |-> FoldBase(kind)]
    <3>1. \A s \in SUBSET (1..0) : s = {}
      OBVIOUS
    <3>2. Table(0, h)
      BY <3>1
    <3>3. QED
      BY <2>1, <3>2
  <2>3. k \in Nat /\ k - 1 \in Nat
    BY <2>2
  <2>4. PICK h : Table(k - 1, h)
    <3>1. k - 1 \notin T
      <4> HIDE DEF T
      <4>1. QED
        BY <2>1, <2>3
    <3>2. QED
      BY <2>3, <3>1, Zenon
  <2> DEFINE g == [s \in SUBSET (1..k) |->
                     IF k \in s THEN FoldStep(kind, h[s \ {k}], vs[k]) ELSE h[s]]
  <2>5. ASSUME NEW s \in SUBSET (1..k) PROVE g[s] = Step1(g, s)
    <3>1. CASE k \in s
      <4>1. Max(s) = k
        <5>1. s \in SUBSET Nat /\ \A x \in s : x <= k
          BY <2>3
        <5>2. QED
          BY <3>1, <5>1, MaxIs
      <4>2. s \ {k} \in SUBSET (1..k) /\ k \notin s \ {k} /\ s # {}
        BY <3>1
      <4>3. g[s \ {k}] = h[s \ {k}]
        BY <4>2
      <4>4. QED
        BY <3>1, <4>1, <4>2, <4>3
    <3>2. CASE k \notin s
      <4>1. s \in SUBSET (1..(k - 1)) /\ s \ {Max(s)} \in SUBSET (1..k) /\ k \notin s \ {Max(s)}
        <5>1. \A x \in s : x \in 1..(k - 1)
          BY <2>3, <3>2
        <5>2. QED
          BY <3>2, <5>1, Zenon
      <4>2. h[s] = Step1(h, s)
        BY <2>4, <4>1
      <4>3. g[s \ {Max(s)}] = h[s \ {Max(s)}] /\ g[s] = h[s]
        BY <3>2, <4>1
      <4>4. QED
        BY <4>2, <4>3
    <3>3. QED
      BY <3>1, <3>2
  <2>6. Table(k, g)
    BY <2>5
  <2>7. QED
    BY <2>1, <2>6
<1>2. QED
  BY <1>1

(* The results after each of the values.                                   *)
Steps(kind, h, vs) ==
    /\ h[0] = FoldBase(kind)
    /\ \A k \in 1..Len(vs) : h[k] = FoldStep(kind, h[k - 1], vs[k])

(* The table says what each value makes of the result before it.           *)
LEMMA TableSteps ==
  ASSUME NEW kind, NEW S, NEW vs \in Seq(S), NEW table, TableOf(kind, table, vs, DOMAIN vs)
  PROVE  \E h : Steps(kind, h, vs) /\ table[DOMAIN vs] = h[Len(vs)]
<1> USE DEF TableOf
<1> DEFINE h == [k \in 0..Len(vs) |-> table[1..k]]
<1>3. h[0] = FoldBase(kind)
  OBVIOUS
<1>4. ASSUME NEW k \in 1..Len(vs) PROVE h[k] = FoldStep(kind, h[k - 1], vs[k])
  <2>1. DOMAIN vs = 1..Len(vs) /\ Len(vs) \in Nat
    OBVIOUS
  <2>2. /\ 1..k \in SUBSET DOMAIN vs /\ k \in 1..k
        /\ k - 1 \in 0..Len(vs) /\ k \in 0..Len(vs)
    BY <2>1
  <2>3. (1..k) \ {k} = 1..(k - 1)
    BY <2>1
  <2>4. Max(1..k) = k
    BY MaxIs
  <2>5. table[1..k] = FoldStep(kind, table[(1..k) \ {Max(1..k)}], vs[Max(1..k)])
    BY <2>2
  <2>6. QED
    BY <2>2, <2>3, <2>4, <2>5
<1>5. table[DOMAIN vs] = h[Len(vs)]
  <2>1. DOMAIN vs = 1..Len(vs) /\ Len(vs) \in 0..Len(vs)
    OBVIOUS
  <2>2. QED
    BY <2>1
<1> HIDE DEF h
<1>6. QED
  BY <1>3, <1>4, <1>5 DEF Steps

(* SumOf, the count of the sums in function_aggregate.go, is such a fold.  *)
LEMMA SumSteps ==
  ASSUME NEW S, NEW vs \in Seq(S)
  PROVE  \E h : Steps("sum", h, vs) /\ SumOf(vs) = h[Len(vs)]
<1> DEFINE Sums(t) == t = [s \in SUBSET DOMAIN vs |-> IF s = {} THEN 0 ELSE AddValue(t[s \ {Max(s)}], vs[Max(s)])]
           table == CHOOSE t : Sums(t)
<1>1. DOMAIN vs = 1..Len(vs) /\ Len(vs) \in Nat
  OBVIOUS
<1>2. PICK t : TableOf("sum", t, vs, DOMAIN vs)
  BY <1>1, TableExists, Zenon
<1>3. \A g : TableOf("sum", g, vs, DOMAIN vs) <=> Sums(g)
  BY DEF TableOf, FoldBase, FoldStep
<1>4. SumOf(vs) = table[DOMAIN vs]
  BY Zenon DEF SumOf, FoldLeft, MapThenFoldSet
<1> HIDE DEF Sums
<1>5. Sums(table)
  BY <1>2, <1>3
<1> HIDE DEF table
<1>6. TableOf("sum", table, vs, DOMAIN vs)
  BY <1>3, <1>5
<1>7. QED
  BY <1>4, <1>6, TableSteps

(* So is parseAggregateOptions.                                            *)
LEMMA OptionSteps ==
  ASSUME NEW S, NEW vs \in Seq(S)
  PROVE  \E h : Steps("option", h, vs) /\ ParseAggregateOptions(vs) = h[Len(vs)]
<1> DEFINE Options(t) == t = [s \in SUBSET DOMAIN vs |->
                                IF s = {} THEN Parsed(<<>>, NoOptions) ELSE ParseOption(t[s \ {Max(s)}], vs[Max(s)])]
           table == CHOOSE t : Options(t)
<1>1. DOMAIN vs = 1..Len(vs) /\ Len(vs) \in Nat
  OBVIOUS
<1>2. PICK t : TableOf("option", t, vs, DOMAIN vs)
  BY <1>1, TableExists, Zenon
<1>3. \A g : TableOf("option", g, vs, DOMAIN vs) <=> Options(g)
  BY DEF TableOf, FoldBase, FoldStep
<1>4. ParseAggregateOptions(vs) = table[DOMAIN vs]
  BY Zenon DEF ParseAggregateOptions, FoldLeft, MapThenFoldSet
<1> HIDE DEF Options
<1>5. Options(table)
  BY <1>2, <1>3
<1> HIDE DEF table
<1>6. TableOf("option", table, vs, DOMAIN vs)
  BY <1>3, <1>5
<1>7. QED
  BY <1>4, <1>6, TableSteps

(* Two tables agree where their values do; one value more is one step.     *)
LEMMA StepsAgree ==
  ASSUME NEW kind, NEW S, NEW vs \in Seq(S), NEW ws \in Seq(S), NEW g, NEW h, Steps(kind, g, vs), Steps(kind, h, ws),
         NEW n \in Nat, n <= Len(vs), n <= Len(ws), \A k \in 1..n : vs[k] = ws[k]
  PROVE  g[n] = h[n]
<1> DEFINE T == {j \in 0..n : g[j] # h[j]}
<1>1. T = {}
  <2> SUFFICES ASSUME T # {} PROVE FALSE
    OBVIOUS
  <2>1. PICK j \in T : \A i \in T : j <= i
    <3>1. T \in SUBSET Nat
      OBVIOUS
    <3> HIDE DEF T
    <3>2. QED
      BY <3>1, LeastNat
  <2>2. j # 0
    BY <2>1 DEF Steps
  <2>3. j \in 1..n /\ j - 1 \in 0..n /\ j - 1 \notin T
    BY <2>1, <2>2
  <2>4. j \in 1..Len(vs) /\ j \in 1..Len(ws)
    BY <2>3
  <2>5. g[j - 1] = h[j - 1] /\ vs[j] = ws[j]
    BY <2>3
  <2>6. g[j] = h[j]
    BY <2>4, <2>5 DEF Steps
  <2>7. QED
    BY <2>1, <2>6
<1>2. QED
  BY <1>1

(* A fold of one value more takes one step more.                           *)
LEMMA StepsAppend ==
  ASSUME NEW kind, NEW S, NEW vs \in Seq(S), NEW v \in S, NEW g, NEW h,
         Steps(kind, g, vs), Steps(kind, h, Append(vs, v))
  PROVE  h[Len(Append(vs, v))] = FoldStep(kind, g[Len(vs)], v)
<1> DEFINE ws == Append(vs, v)
           n == Len(vs)
<1>1. /\ ws \in Seq(S) /\ Len(ws) = n + 1 /\ n \in Nat
      /\ \A k \in 1..n : vs[k] = ws[k]
      /\ ws[n + 1] = v
  OBVIOUS
<1> HIDE DEF ws
<1>2. g[n] = h[n]
  <2>1. n <= Len(vs) /\ n <= Len(ws)
    BY <1>1
  <2>2. Steps(kind, h, ws)
    BY DEF ws
  <2>3. ws \in Seq(S) /\ n \in Nat /\ \A k \in 1..n : vs[k] = ws[k]
    BY <1>1
  <2> HIDE DEF n
  <2>4. Steps(kind, g, vs)
    OBVIOUS
  <2>5. QED
    BY <2>1, <2>2, <2>3, <2>4, StepsAgree
<1>3. h[n + 1] = FoldStep(kind, h[n], ws[n + 1])
  <2>1. n + 1 \in 1..Len(ws) /\ (n + 1) - 1 = n
    BY <1>1
  <2>2. Steps(kind, h, ws)
    BY DEF ws
  <2>3. QED
    BY <2>1, <2>2 DEF Steps
<1>4. QED
  BY <1>1, <1>2, <1>3 DEF ws

(* So SumOf adds the last value to the sum of those before it.             *)
LEMMA SumAppend ==
  ASSUME NEW S, NEW vs \in Seq(S), NEW v \in S
  PROVE  SumOf(Append(vs, v)) = SumOf(vs) + Num(v)
<1>1. PICK g : Steps("sum", g, vs) /\ SumOf(vs) = g[Len(vs)]
  BY SumSteps
<1>2. Append(vs, v) \in Seq(S)
  OBVIOUS
<1>3. PICK h : Steps("sum", h, Append(vs, v)) /\ SumOf(Append(vs, v)) = h[Len(Append(vs, v))]
  BY <1>2, SumSteps
<1>4. SumOf(Append(vs, v)) = FoldStep("sum", SumOf(vs), v)
  BY <1>1, <1>3, StepsAppend
<1>5. QED
  BY <1>4 DEF FoldStep, AddValue

(* The sum of no values is zero.                                           *)
LEMMA SumEmpty == SumOf(<<>>) = 0
<1>1. <<>> \in Seq({}) /\ Len(<<>>) = 0
  OBVIOUS
<1>2. PICK h : Steps("sum", h, <<>>) /\ SumOf(<<>>) = h[Len(<<>>)]
  BY <1>1, SumSteps
<1>3. QED
  BY <1>1, <1>2 DEF Steps, FoldBase

(* And parseAggregateOptions parses the last argument last.                *)
LEMMA OptionAppend ==
  ASSUME NEW S, NEW vs \in Seq(S), NEW v \in S
  PROVE  ParseAggregateOptions(Append(vs, v)) = ParseOption(ParseAggregateOptions(vs), v)
<1>1. PICK g : Steps("option", g, vs) /\ ParseAggregateOptions(vs) = g[Len(vs)]
  BY OptionSteps
<1>2. Append(vs, v) \in Seq(S)
  OBVIOUS
<1>3. PICK h : Steps("option", h, Append(vs, v)) /\ ParseAggregateOptions(Append(vs, v)) = h[Len(Append(vs, v))]
  BY <1>2, OptionSteps
<1>4. ParseAggregateOptions(Append(vs, v)) = FoldStep("option", ParseAggregateOptions(vs), v)
  BY <1>1, <1>3, StepsAppend
<1>5. QED
  BY <1>4 DEF FoldStep

(* No arguments: no values and no options.                                 *)
LEMMA OptionEmpty == ParseAggregateOptions(<<>>) = Parsed(<<>>, NoOptions)
<1>1. <<>> \in Seq({}) /\ Len(<<>>) = 0
  OBVIOUS
<1>2. PICK h : Steps("option", h, <<>>) /\ ParseAggregateOptions(<<>>) = h[Len(<<>>)]
  BY <1>1, OptionSteps
<1>3. QED
  BY <1>1, <1>2 DEF Steps, FoldBase

---------------------------------------------------------------------------
(* parseAggregateOptions: the value comes first, and an option is parsed   *)
(* wherever it stands behind it.                                           *)
IsOption(arg) == arg # Null /\ arg[1] = "option"
HasOption(args, n, type) == \E m \in 2..n : args[m][2] = type
OptFields == {"distinct", "ignoreNulls", "limit", "orderBy", "having"}

ParsedTo(p, v, d, i) ==
    /\ DOMAIN p = {"values", "opt"} /\ p.values = <<v>> /\ DOMAIN p.opt = OptFields
    /\ p.opt.distinct \in BOOLEAN /\ (p.opt.distinct <=> d)
    /\ p.opt.ignoreNulls \in BOOLEAN /\ (p.opt.ignoreNulls <=> i)

(* The first argument is the value.                                        *)
LEMMA FirstParsed ==
  ASSUME NEW v, IsInt(v)
  PROVE  ParsedTo(ParseOption(Parsed(<<>>, NoOptions), v), v, FALSE, FALSE)
<1>1. v = Null \/ v[1] # "option"
  <2>1. CASE v = Null
    BY <2>1
  <2>2. CASE v = IntV(Num(v))
    <3>1. v[1] = "int"
      BY <2>2 DEF IntV, Result
    <3>2. QED
      BY <3>1
  <2>3. QED
    BY <2>1, <2>2 DEF IsInt
<1>2. ParseOption(Parsed(<<>>, NoOptions), v) = Parsed(Append(<<>>, v), NoOptions)
  BY <1>1 DEF ParseOption, Parsed
<1>3. Append(<<>>, v) = <<v>>
  OBVIOUS
<1>4. ParsedTo(Parsed(<<v>>, NoOptions), v, FALSE, FALSE)
  BY DEF ParsedTo, Parsed, NoOptions, OptFields
<1>5. QED
  BY <1>2, <1>3, <1>4

(* An option sets its field and leaves the values alone.                   *)
LEMMA OptionParsed ==
  ASSUME NEW p, NEW v, NEW d \in BOOLEAN, NEW i \in BOOLEAN, ParsedTo(p, v, d, i), NEW arg, IsOption(arg)
  PROVE  ParsedTo(ParseOption(p, arg), v, d \/ arg[2] = "distinct", i \/ arg[2] = "ignore_nulls")
<1>1. /\ DOMAIN p = {"values", "opt"} /\ p.values = <<v>> /\ DOMAIN p.opt = OptFields
      /\ p.opt.distinct \in BOOLEAN /\ (p.opt.distinct <=> d)
      /\ p.opt.ignoreNulls \in BOOLEAN /\ (p.opt.ignoreNulls <=> i)
  BY DEF ParsedTo
<1>2. ~ (arg = Null \/ arg[1] # "option")
  BY DEF IsOption
<1>3. ASSUME NEW f \in OptFields, NEW x
      PROVE  LET q == [p EXCEPT !.opt[f] = x]
             IN  /\ DOMAIN q = {"values", "opt"} /\ q.values = <<v>> /\ DOMAIN q.opt = OptFields
                 /\ q.opt[f] = x /\ \A g \in OptFields \ {f} : q.opt[g] = p.opt[g]
  BY <1>1
<1>4. CASE arg[2] = "distinct"
  <2>1. ParseOption(p, arg) = [p EXCEPT !.opt["distinct"] = TRUE]
    BY <1>2, <1>4 DEF ParseOption
  <2> DEFINE q == ParseOption(p, arg)
  <2>2. /\ DOMAIN q = {"values", "opt"} /\ q.values = <<v>> /\ DOMAIN q.opt = OptFields
        /\ q.opt["distinct"] = TRUE /\ q.opt["ignoreNulls"] = p.opt["ignoreNulls"]
    BY <1>3, <2>1 DEF OptFields
  <2> HIDE DEF q
  <2>3. ParsedTo(q, v, d \/ arg[2] = "distinct", i \/ arg[2] = "ignore_nulls")
    BY <1>1, <1>4, <2>2 DEF ParsedTo
  <2>4. QED
    BY <2>3 DEF q
<1>5. CASE arg[2] = "ignore_nulls"
  <2>1. ParseOption(p, arg) = [p EXCEPT !.opt["ignoreNulls"] = TRUE]
    BY <1>2, <1>5 DEF ParseOption
  <2> DEFINE q == ParseOption(p, arg)
  <2>2. /\ DOMAIN q = {"values", "opt"} /\ q.values = <<v>> /\ DOMAIN q.opt = OptFields
        /\ q.opt["ignoreNulls"] = TRUE /\ q.opt["distinct"] = p.opt["distinct"]
    BY <1>3, <2>1 DEF OptFields
  <2> HIDE DEF q
  <2>3. ParsedTo(q, v, d \/ arg[2] = "distinct", i \/ arg[2] = "ignore_nulls")
    BY <1>1, <1>5, <2>2 DEF ParsedTo
  <2>4. QED
    BY <2>3 DEF q
<1>6. CASE arg[2] \notin {"distinct", "ignore_nulls"}
  <2>1. \E f \in {"limit", "orderBy", "having"} : \E x : ParseOption(p, arg) = [p EXCEPT !.opt[f] = x]
    <3>1. CASE arg[2] = "limit"
      <4>1. ParseOption(p, arg) = [p EXCEPT !.opt["limit"] = arg[3]]
        BY <1>2, <3>1 DEF ParseOption
      <4>2. QED
        BY <4>1
    <3>2. CASE arg[2] = "order_by"
      <4>1. ParseOption(p, arg) = [p EXCEPT !.opt["orderBy"] = Append(p.opt["orderBy"], arg[3])]
        BY <1>1, <1>2, <3>2 DEF ParseOption
      <4>2. QED
        BY <4>1
    <3>3. CASE arg[2] \notin {"limit", "order_by"}
      <4>1. ParseOption(p, arg) = [p EXCEPT !.opt["having"] = <<arg[2], arg[3]>>]
        BY <1>2, <1>6, <3>3 DEF ParseOption
      <4>2. QED
        BY <4>1
    <3>4. QED
      BY <3>1, <3>2, <3>3
  <2>2. QED
    BY <1>1, <1>3, <1>6, <2>1 DEF ParsedTo, OptFields
<1>7. QED
  BY <1>4, <1>5, <1>6

(* The arguments of a call of the function: the value, then the options.   *)
ArgsOf1(args, v, d, i) ==
    /\ \E S : args \in Seq(S)
    /\ Len(args) >= 1 /\ args[1] = v
    /\ \A m \in 2..Len(args) : IsOption(args[m])
    /\ HasOption(args, Len(args), "distinct") <=> d
    /\ HasOption(args, Len(args), "ignore_nulls") <=> i

(* The value and the two options that pass rows over are found again.      *)
LEMMA ArgsParsed ==
  ASSUME NEW args, NEW v, NEW d, NEW i, IsInt(v), ArgsOf1(args, v, d, i)
  PROVE  ParsedTo(ParseAggregateOptions(args), v, d, i)
<1>1. PICK S : args \in Seq(S)
  BY DEF ArgsOf1
<1>2. Len(args) \in Nat /\ Len(args) >= 1 /\ args[1] = v /\ \A m \in 2..Len(args) : IsOption(args[m])
  BY <1>1 DEF ArgsOf1
<1>3. PICK h : Steps("option", h, args) /\ ParseAggregateOptions(args) = h[Len(args)]
  BY <1>1, OptionSteps
<1>4. /\ h[0] = Parsed(<<>>, NoOptions)
      /\ \A k \in 1..Len(args) : h[k] = ParseOption(h[k - 1], args[k])
  BY <1>3 DEF Steps, FoldBase, FoldStep
<1> DEFINE Has(k, type) == HasOption(args, k, type)
           T == {k \in 1..Len(args) : ~ ParsedTo(h[k], v, Has(k, "distinct"), Has(k, "ignore_nulls"))}
<1>5. T = {}
  <2> SUFFICES ASSUME T # {} PROVE FALSE
    OBVIOUS
  <2>1. PICK k \in T : \A j \in T : k <= j
    <3>1. T \in SUBSET Nat
      OBVIOUS
    <3> HIDE DEF T
    <3>2. QED
      BY <3>1, LeastNat
  <2>2. k \in 1..Len(args) /\ ~ ParsedTo(h[k], v, Has(k, "distinct"), Has(k, "ignore_nulls"))
    OBVIOUS
  <2>3. k # 1
    <3>1. \A type : ~ Has(1, type)
      <4>1. 2..1 = {}
        OBVIOUS
      <4>2. QED
        BY <4>1 DEF HasOption
    <3>2. 1 \in 1..Len(args) /\ 1 - 1 = 0
      BY <1>2
    <3>3. h[1] = ParseOption(Parsed(<<>>, NoOptions), v)
      BY <1>2, <1>4, <3>2
    <3>4. ParsedTo(h[1], v, FALSE, FALSE)
      BY <3>3, FirstParsed
    <3>5. ParsedTo(h[1], v, Has(1, "distinct"), Has(1, "ignore_nulls"))
      BY <3>1, <3>4 DEF ParsedTo
    <3>6. QED
      BY <2>2, <3>5
  <2>4. k \in 2..Len(args) /\ k - 1 \in 1..Len(args) /\ k - 1 \notin T /\ k \in Nat
    <3>1. k \in 2..Len(args) /\ k - 1 \in 1..Len(args) /\ k - 1 < k /\ k \in Nat
      BY <1>2, <2>2, <2>3
    <3>2. k - 1 \notin T
      <4> HIDE DEF T
      <4>1. k - 1 \in Nat
        BY <3>1
      <4>2. QED
        BY <2>1, <3>1, <4>1
    <3>3. QED
      BY <3>1, <3>2
  <2>5. PICK a \in BOOLEAN : a <=> Has(k - 1, "distinct")
    OBVIOUS
  <2>6. PICK b \in BOOLEAN : b <=> Has(k - 1, "ignore_nulls")
    OBVIOUS
  <2>7. ParsedTo(h[k - 1], v, a, b)
    <3>1. ParsedTo(h[k - 1], v, Has(k - 1, "distinct"), Has(k - 1, "ignore_nulls"))
      BY <2>4
    <3>2. QED
      BY <2>5, <2>6, <3>1 DEF ParsedTo
  <2>8. ParsedTo(h[k], v, a \/ args[k][2] = "distinct", b \/ args[k][2] = "ignore_nulls")
    <3>1. h[k] = ParseOption(h[k - 1], args[k]) /\ IsOption(args[k])
      BY <1>2, <1>4, <2>2, <2>4
    <3>2. QED
      BY <2>7, <3>1, OptionParsed
  <2>9. \A type : Has(k, type) <=> Has(k - 1, type) \/ args[k][2] = type
    <3>1. \A m : m \in 2..k <=> m \in 2..(k - 1) \/ m = k
      BY <1>2, <2>4
    <3>2. QED
      BY <3>1 DEF HasOption
  <2>10. ParsedTo(h[k], v, Has(k, "distinct"), Has(k, "ignore_nulls"))
    <3> HIDE DEF Has
    <3>1. (a \/ args[k][2] = "distinct") <=> Has(k, "distinct")
      BY <2>5, <2>9
    <3>2. (b \/ args[k][2] = "ignore_nulls") <=> Has(k, "ignore_nulls")
      BY <2>6, <2>9
    <3>3. QED
      BY <2>8, <3>1, <3>2 DEF ParsedTo
  <2>11. QED
    BY <2>2, <2>10
<1>6. ParsedTo(h[Len(args)], v, Has(Len(args), "distinct"), Has(Len(args), "ignore_nulls"))
  <2>1. Len(args) \in 1..Len(args)
    BY <1>2
  <2>2. QED
    BY <1>5, <2>1
<1>7. QED
  BY <1>3, <1>6 DEF ArgsOf1, ParsedTo

(* Options are appended behind the others.                                 *)
AreOptions(opts) == (\E S : opts \in Seq(S)) /\ \A m \in 1..Len(opts) : IsOption(opts[m])
Among(opts, type) == \E m \in 1..Len(opts) : opts[m][2] = type

(* Options may follow in any number.                                       *)
LEMMA ArgsConcat ==
  ASSUME NEW args, NEW v, NEW d, NEW i, ArgsOf1(args, v, d, i), NEW opts, AreOptions(opts)
  PROVE  ArgsOf1(args \o opts, v, d \/ Among(opts, "distinct"), i \/ Among(opts, "ignore_nulls"))
<1>1. PICK S : args \in Seq(S)
  BY DEF ArgsOf1
<1>2. PICK U : opts \in Seq(U)
  BY DEF AreOptions
<1> DEFINE all == args \o opts
           n == Len(args)
           o == Len(opts)
<1>3. /\ all \in Seq(S \union U) /\ Len(all) = n + o /\ n \in Nat /\ o \in Nat
      /\ \A m \in 1..n : all[m] = args[m]
      /\ \A m \in 1..o : all[n + m] = opts[m]
  <2>1. args \in Seq(S \union U) /\ opts \in Seq(S \union U)
    BY <1>1, <1>2
  <2>2. all \in Seq(S \union U) /\ Len(all) = n + o /\ n \in Nat /\ o \in Nat
    BY <2>1, ConcatProperties
  <2>3. \A m \in 1..(n + o) : all[m] = IF m <= n THEN args[m] ELSE opts[m - n]
    BY <2>1, ConcatProperties
  <2> HIDE DEF all, n, o
  <2>4. \A m \in 1..n : all[m] = args[m]
    BY <2>2, <2>3
  <2>5. \A m \in 1..o : all[n + m] = opts[m]
    <3> TAKE m \in 1..o
    <3>1. n + m \in 1..(n + o) /\ ~ (n + m <= n) /\ (n + m) - n = m
      BY <2>2
    <3>2. QED
      BY <2>3, <3>1
  <2>6. QED
    BY <2>2, <2>4, <2>5
<1>4. /\ n >= 1 /\ args[1] = v /\ \A m \in 2..n : IsOption(args[m])
      /\ HasOption(args, n, "distinct") <=> d
      /\ HasOption(args, n, "ignore_nulls") <=> i
  BY DEF ArgsOf1
<1>5. \A m \in 1..o : IsOption(opts[m])
  BY DEF AreOptions
<1> HIDE DEF all, n, o
<1>6. ASSUME NEW m \in 2..(n + o)
      PROVE  \/ m \in 2..n /\ all[m] = args[m]
             \/ \E k \in 1..o : m = n + k /\ all[m] = opts[k]
  <2>1. CASE m <= n
    BY <1>3, <2>1
  <2>2. CASE m > n
    <3>1. m - n \in 1..o /\ m = n + (m - n)
      BY <1>3, <2>2
    <3>2. QED
      BY <1>3, <3>1
  <2>3. QED
    BY <1>3, <2>1, <2>2
<1>7. \A m \in 2..Len(all) : IsOption(all[m])
  BY <1>3, <1>4, <1>5, <1>6
<1>8. ASSUME NEW type
      PROVE  HasOption(all, Len(all), type) <=> HasOption(args, n, type) \/ Among(opts, type)
  <2>1. ASSUME NEW m \in 2..(n + o), all[m][2] = type
        PROVE  HasOption(args, n, type) \/ Among(opts, type)
    BY <1>6, <2>1 DEF HasOption, Among, o
  <2>2. ASSUME NEW m \in 2..n, args[m][2] = type PROVE \E k \in 2..(n + o) : all[k][2] = type
    <3>1. m \in 2..(n + o) /\ m \in 1..n
      BY <1>3
    <3>2. QED
      BY <1>3, <2>2, <3>1
  <2>3. ASSUME NEW m \in 1..o, opts[m][2] = type PROVE \E k \in 2..(n + o) : all[k][2] = type
    <3>1. n + m \in 2..(n + o)
      BY <1>3, <1>4
    <3>2. QED
      BY <1>3, <2>3, <3>1
  <2>4. QED
    BY <1>3, <2>1, <2>2, <2>3 DEF HasOption, Among, o
<1>9. Len(all) >= 1 /\ all[1] = v
  <2>1. 1 \in 1..n
    BY <1>3, <1>4
  <2>2. QED
    BY <1>3, <1>4, <2>1
<1>10. \E W : all \in Seq(W)
  BY <1>3
<1>11. (HasOption(all, Len(all), "distinct") <=> d \/ Among(opts, "distinct"))
       /\ (HasOption(all, Len(all), "ignore_nulls") <=> i \/ Among(opts, "ignore_nulls"))
  BY <1>4, <1>8
<1>12. ArgsOf1(all, v, d \/ Among(opts, "distinct"), i \/ Among(opts, "ignore_nulls"))
  BY <1>7, <1>9, <1>10, <1>11 DEF ArgsOf1
<1>13. QED
  BY <1>12 DEF all

(* What the analyzer passes for a row says its value and its options.      *)
LEMMA ArgumentsOf ==
  ASSUME NEW node, NEW row, IsNode(node), IsInt(row.val), IsSeq(row.key)
  PROVE  ArgsOf1(Arguments(node, row), row.val, node.distinct, node.ignoreNulls)
<1> DEFINE ordered == [k \in DOMAIN row.key |-> Option("order_by", [value |-> row.key[k], isAsc |-> node.asc])]
           a1 == <<row.val>>
           o1 == IF node.having # "none" THEN <<>> ELSE ordered
           o2 == When(node.distinct, Option("distinct", Null))
           o3 == When(node.limit # Null, Option("limit", node.limit))
           o4 == When(node.having # "none", Option(node.having, row.key[1]))
           o5 == When(node.ignoreNulls, Option("ignore_nulls", Null))
<1>0. \A type, x : IsOption(Option(type, x)) /\ Option(type, x)[2] = type
  BY DEF IsOption, Option, Null
<1>1. ASSUME NEW c, NEW type, NEW x
      PROVE  /\ AreOptions(When(c, Option(type, x)))
             /\ \A t : Among(When(c, Option(type, x)), t) <=> c /\ t = type
  <2> DEFINE o == Option(type, x)
  <2>1. IsOption(o) /\ o[2] = type
    BY <1>0
  <2>2. CASE c
    <3>1. When(c, o) = <<o>>
      BY <2>2, Zenon DEF When
    <3> HIDE DEF o
    <3>2. <<o>> \in Seq({o}) /\ Len(<<o>>) = 1 /\ <<o>>[1] = o
      OBVIOUS
    <3>3. AreOptions(<<o>>)
      <4>1. \A m \in 1..Len(<<o>>) : IsOption(<<o>>[m])
        <5>1. 1..Len(<<o>>) = {1}
          BY <3>2
        <5>2. IsOption(<<o>>[1])
          BY <2>1, <3>2
        <5>3. QED
          BY <5>1, <5>2
      <4>2. \E S : <<o>> \in Seq(S)
        BY <3>2
      <4>3. QED
        BY <4>1, <4>2 DEF AreOptions
    <3>4. \A t : Among(<<o>>, t) <=> t = type
      BY <2>1, <3>2 DEF Among
    <3>5. QED
      BY <2>2, <3>1, <3>3, <3>4 DEF o
  <2>3. CASE ~ c
    <3>1. When(c, o) = <<>>
      BY <2>3, Zenon DEF When
    <3>2. AreOptions(<<>>) /\ \A t : ~ Among(<<>>, t)
      <4>1. <<>> \in Seq({}) /\ Len(<<>>) = 0
        OBVIOUS
      <4>2. QED
        BY <4>1 DEF AreOptions, Among
    <3>3. QED
      BY <2>3, <3>1, <3>2
  <2>4. QED
    BY <2>2, <2>3
<1>2. AreOptions(o1) /\ \A t : Among(o1, t) => t = "order_by"
  <2>1. CASE node.having # "none"
    <3>1. o1 = <<>> /\ <<>> \in Seq({}) /\ Len(<<>>) = 0
      BY <2>1
    <3> HIDE DEF o1
    <3>2. QED
      BY <3>1 DEF AreOptions, Among
  <2>2. CASE ~ (node.having # "none")
    <3>1. o1 = ordered
      BY <2>2
    <3>2. row.key \in Seq({row.key[i] : i \in DOMAIN row.key})
      BY DEF IsSeq
    <3>3. DOMAIN row.key = 1..Len(row.key) /\ Len(row.key) \in Nat
      BY <3>2
    <3> DEFINE W == {ordered[k] : k \in 1..Len(row.key)}
    <3>4. ordered \in Seq(W) /\ Len(ordered) = Len(row.key)
      <4>1. ordered \in [1..Len(row.key) -> W]
        BY <3>3
      <4> HIDE DEF ordered, W
      <4>2. ordered \in Seq(W)
        BY <3>3, <4>1
      <4>3. DOMAIN ordered = 1..Len(row.key)
        BY <4>1
      <4>4. QED
        BY <3>3, <4>2, <4>3
    <3>5. \A k \in 1..Len(ordered) : IsOption(ordered[k]) /\ ordered[k][2] = "order_by"
      <4>1. \A k \in DOMAIN row.key : ordered[k] = Option("order_by", [value |-> row.key[k], isAsc |-> node.asc])
        OBVIOUS
      <4> HIDE DEF ordered
      <4>2. QED
        <5> TAKE k \in 1..Len(ordered)
        <5>1. ordered[k] = Option("order_by", [value |-> row.key[k], isAsc |-> node.asc])
          BY <3>3, <3>4, <4>1, Zenon
        <5>2. QED
          BY <1>0, <5>1, Zenon
    <3> HIDE DEF ordered, o1
    <3>6. QED
      BY <3>1, <3>4, <3>5 DEF AreOptions, Among
  <2>3. QED
    BY <2>1, <2>2
<1>3. AreOptions(o2) /\ \A t : Among(o2, t) <=> node.distinct /\ t = "distinct"
  BY <1>1
<1>30. AreOptions(o3) /\ \A t : Among(o3, t) <=> node.limit # Null /\ t = "limit"
  BY <1>1
<1>31. AreOptions(o4) /\ \A t : Among(o4, t) <=> node.having # "none" /\ t = node.having
  <2>1. PICK c \in BOOLEAN : c <=> node.having # "none"
    OBVIOUS
  <2>2. PICK type : type = node.having
    OBVIOUS
  <2> DEFINE o == Option(type, row.key[1])
  <2>3. o4 = When(c, o)
    BY <2>1, <2>2, Zenon DEF When
  <2>4. AreOptions(When(c, o)) /\ \A t : Among(When(c, o), t) <=> c /\ t = type
    BY <1>1
  <2> HIDE DEF o, o4
  <2>5. QED
    BY <2>1, <2>2, <2>3, <2>4
<1>32. AreOptions(o5) /\ \A t : Among(o5, t) <=> node.ignoreNulls /\ t = "ignore_nulls"
  BY <1>1
<1>4. ArgsOf1(a1, row.val, FALSE, FALSE)
  <2>1. a1 \in Seq({row.val}) /\ Len(a1) = 1 /\ a1[1] = row.val /\ 2..1 = {}
    OBVIOUS
  <2> HIDE DEF a1
  <2>2. \A type : ~ HasOption(a1, Len(a1), type)
    BY <2>1 DEF HasOption
  <2>3. \A m \in 2..Len(a1) : IsOption(a1[m])
    BY <2>1
  <2>4. QED
    BY <2>1, <2>2, <2>3 DEF ArgsOf1
<1>5. Arguments(node, row) = ((((a1 \o o1) \o o2) \o o3) \o o4) \o o5
  BY Zenon DEF Arguments
<1>6. node.having \notin {"distinct", "ignore_nulls"}
  BY DEF IsNode
<1> HIDE DEF a1, o1, o2, o3, o4, o5
<1>7. ASSUME NEW args, NEW opts, NEW d \in BOOLEAN, NEW i \in BOOLEAN,
             NEW e \in BOOLEAN, NEW j \in BOOLEAN, ArgsOf1(args, row.val, d, i), AreOptions(opts),
             e <=> d \/ Among(opts, "distinct"), j <=> i \/ Among(opts, "ignore_nulls")
      PROVE  ArgsOf1(args \o opts, row.val, e, j)
  <2>1. ArgsOf1(args \o opts, row.val, d \/ Among(opts, "distinct"), i \/ Among(opts, "ignore_nulls"))
    BY <1>7, ArgsConcat
  <2>2. QED
    BY <1>7, <2>1 DEF ArgsOf1
<1>8. ArgsOf1(a1 \o o1, row.val, FALSE, FALSE)
  BY <1>2, <1>4, <1>7
<1> DEFINE dist == node.distinct
           ign == node.ignoreNulls
<1>70. dist \in BOOLEAN /\ ign \in BOOLEAN /\ FALSE \in BOOLEAN
  BY DEF IsNode
<1>9. ArgsOf1((a1 \o o1) \o o2, row.val, dist, FALSE)
  <2>1. dist <=> FALSE \/ Among(o2, "distinct")
    BY <1>3
  <2>2. FALSE <=> FALSE \/ Among(o2, "ignore_nulls")
    BY <1>3
  <2> HIDE DEF dist
  <2>3. QED
    BY <1>3, <1>7, <1>8, <1>70, <2>1, <2>2
<1>10. ArgsOf1(((a1 \o o1) \o o2) \o o3, row.val, dist, FALSE)
  <2>1. dist <=> dist \/ Among(o3, "distinct")
    BY <1>30
  <2>2. FALSE <=> FALSE \/ Among(o3, "ignore_nulls")
    BY <1>30
  <2> HIDE DEF dist
  <2>3. QED
    BY <1>30, <1>7, <1>9, <1>70, <2>1, <2>2
<1>11. ArgsOf1((((a1 \o o1) \o o2) \o o3) \o o4, row.val, dist, FALSE)
  <2>1. dist <=> dist \/ Among(o4, "distinct")
    BY <1>31, <1>6
  <2>2. FALSE <=> FALSE \/ Among(o4, "ignore_nulls")
    BY <1>31, <1>6
  <2> HIDE DEF dist
  <2>3. QED
    BY <1>31, <1>7, <1>10, <1>70, <2>1, <2>2
<1>12. ArgsOf1(((((a1 \o o1) \o o2) \o o3) \o o4) \o o5, row.val, dist, ign)
  <2>1. dist <=> dist \/ Among(o5, "distinct")
    BY <1>32
  <2>2. ign <=> FALSE \/ Among(o5, "ignore_nulls")
    BY <1>32
  <2> HIDE DEF dist, ign
  <2>3. QED
    BY <1>32, <1>7, <1>11, <1>70, <2>1, <2>2
<1>13. QED
  BY <1>5, <1>12

IsGroupState(g) == {"acc", "seen"} \subseteq DOMAIN g

(* A row is passed over, or every function takes its value.                *)
Passed(g, opt, v) == (opt.ignoreNulls /\ v = Null) \/ (opt.distinct /\ v \in g.seen)

Taken(s, g, opt, v) ==
    /\ s.seen = IF opt.distinct THEN g.seen \union {v} ELSE g.seen
    /\ \E r : r.val = v /\ s.acc = [f \in GroupFuncs |-> GroupStep(f, g.acc[f], r)]

(* Aggregator.Step does one or the other.                                  *)
LEMMA GroupSteps ==
  ASSUME NEW g, IsGroupState(g), NEW opt, NEW row, IsNode(opt), IsInt(row.val), IsSeq(row.key)
  PROVE  LET s == AggregatorStep(g, Arguments(opt, row))
         IN  /\ IsGroupState(s)
             /\ Passed(g, opt, row.val) => s.acc = g.acc /\ s.seen = g.seen
             /\ ~ Passed(g, opt, row.val) => Taken(s, g, opt, row.val)
<1> DEFINE args == Arguments(opt, row)
           p == ParseAggregateOptions(args)
           s == AggregatorStep(g, args)
<1>1. ParsedTo(p, row.val, opt.distinct, opt.ignoreNulls)
  BY ArgumentsOf, ArgsParsed
<1>2. s = IF p.opt.ignoreNulls /\ p.values[1] = Null THEN NumberAlone(g, p)
          ELSE IF p.opt.distinct /\ p.values[1] \in g.seen THEN g
          ELSE Stepped(g, p)
  BY Zenon DEF AggregatorStep
<1> HIDE DEF p, s
<1>3. p.values[1] = row.val
  <2>1. <<row.val>>[1] = row.val
    OBVIOUS
  <2>2. QED
    BY <1>1, <2>1 DEF ParsedTo
<1>4. p.opt.distinct <=> opt.distinct
  BY <1>1 DEF ParsedTo
<1>5. p.opt.ignoreNulls <=> opt.ignoreNulls
  BY <1>1 DEF ParsedTo
<1>6. NumberAlone(g, p).acc = g.acc /\ NumberAlone(g, p).seen = g.seen /\ IsGroupState(NumberAlone(g, p))
  <2> DEFINE b == g.panicked \/ ~ (p.opt.distinct /\ HowMany \in g.seen)
  <2>1. NumberAlone(g, p) = [g EXCEPT !.panicked = b]
    BY Zenon DEF NumberAlone
  <2> HIDE DEF b
  <2>2. QED
    BY <2>1 DEF IsGroupState
<1>6a. Passed(g, opt, row.val) => s.acc = g.acc /\ s.seen = g.seen /\ IsGroupState(s)
  <2>1. CASE p.opt.ignoreNulls /\ p.values[1] = Null
    BY <1>2, <1>6, <2>1
  <2>2. CASE ~ (p.opt.ignoreNulls /\ p.values[1] = Null)
    BY <1>2, <1>3, <1>4, <1>5, <2>2 DEF Passed
  <2>3. QED
    BY <2>1, <2>2
<1>7. ASSUME ~ Passed(g, opt, row.val) PROVE Taken(s, g, opt, row.val) /\ IsGroupState(s)
  <2>1. s = Stepped(g, p)
    BY <1>2, <1>3, <1>4, <1>5, <1>7 DEF Passed
  <2> DEFINE r == [val |-> p.values[1], orderBy |-> p.opt.orderBy, having |-> p.opt.having]
             acc == [f \in GroupFuncs |-> GroupStep(f, g.acc[f], r)]
             seen == IF p.opt.distinct THEN g.seen \union {r.val} ELSE g.seen
  <2>2. Stepped(g, p) = [acc |-> acc, seen |-> seen, opt |-> p.opt, panicked |-> g.panicked]
    BY Zenon DEF Stepped
  <2>3. r.val = row.val
    BY <1>3
  <2>4. seen = IF opt.distinct THEN g.seen \union {row.val} ELSE g.seen
    BY <1>4, <2>3
  <2> HIDE DEF acc, seen
  <2>5. s.seen = seen /\ s.acc = acc
    BY <2>1, <2>2
  <2>6. s.acc = [f \in GroupFuncs |-> GroupStep(f, g.acc[f], r)]
    BY <2>5, Zenon DEF acc
  <2>7. IsGroupState(s)
    BY <2>1, <2>2 DEF IsGroupState
  <2> HIDE DEF r
  <2>8. QED
    BY <2>3, <2>4, <2>5, <2>6, <2>7 DEF Taken
<1>8. QED
  BY <1>6a, <1>7 DEF s

---------------------------------------------------------------------------
(* The rows that count, one row further.                                   *)
SeenIn(S, drop) == {rows[k].val : k \in {j \in S : drop => rows[j].val # Null}}
CountsAfter(S, m, drop, dist) == /\ drop => rows[m].val # Null
                                 /\ dist => rows[m].val \notin SeenIn(S, drop)
SeenVals(e, drop) == SeenIn(1..e, drop)
Counts(m, drop, dist) == CountsAfter(1..(m - 1), m, drop, dist)

(* The next row counts, or it does not and nothing changes.                *)
LEMMA CountedMore ==
  ASSUME NEW e \in Nat, NEW S \in SUBSET (1..e), NEW drop \in BOOLEAN, NEW dist \in BOOLEAN
  PROVE  /\ CountedRows(S \union {e + 1}, drop, dist) =
              IF CountsAfter(S, e + 1, drop, dist) THEN CountedRows(S, drop, dist) \union {e + 1}
              ELSE CountedRows(S, drop, dist)
         /\ CountedRows(S, drop, dist) \subseteq S
<1> DEFINE KeptOf(U) == {j \in U : drop => rows[j].val # Null}
           m == e + 1
           T == S \union {m}
<1>1. \A U : CountedRows(U, drop, dist) =
               {j \in KeptOf(U) : dist => \A k \in KeptOf(U) : k < j => rows[k].val # rows[j].val}
  BY Zenon DEF CountedRows
<1>2. m \in Nat /\ m \notin S /\ \A j : j \in T <=> j \in S \/ j = m
  OBVIOUS
<1>3. \A j : j \in KeptOf(T) <=> j \in KeptOf(S) \/ (j = m /\ (drop => rows[m].val # Null))
  BY <1>2
<1>4. \A j \in KeptOf(S) : j \in Nat /\ j < m /\ ~ (m < j)
  BY <1>2
<1>5. SeenIn(S, drop) = {rows[k].val : k \in KeptOf(S)}
  BY Zenon DEF SeenIn
<1>6. CountedRows(S, drop, dist) \subseteq S
  BY <1>1
<1> HIDE DEF m, T, KeptOf
<1>7. ASSUME NEW j
      PROVE  j \in CountedRows(T, drop, dist) <=>
               j \in CountedRows(S, drop, dist) \/ (j = m /\ CountsAfter(S, m, drop, dist))
  <2>1. CASE j = m
    <3>1. ~ (m < m) /\ \A k \in KeptOf(S) : k < m
      BY <1>2, <1>4
    <3>2. j \notin CountedRows(S, drop, dist)
      BY <1>2, <1>6, <2>1
    <3>3. (\A k \in KeptOf(T) : k < m => rows[k].val # rows[m].val) <=> \A k \in KeptOf(S) : rows[k].val # rows[m].val
      BY <1>3, <3>1
    <3>4. rows[m].val \notin SeenIn(S, drop) <=> \A k \in KeptOf(S) : rows[k].val # rows[m].val
      BY <1>5
    <3>5. m \in KeptOf(T) <=> (drop => rows[m].val # Null)
      BY <1>2, <1>4, <1>3, <3>1
    <3>6. QED
      BY <1>1, <2>1, <3>2, <3>3, <3>4, <3>5 DEF CountsAfter
  <2>2. CASE j # m
    <3>1. j \in KeptOf(T) <=> j \in KeptOf(S)
      BY <1>3, <2>2
    <3>2. ASSUME j \in KeptOf(S)
          PROVE  (\A k \in KeptOf(T) : k < j => rows[k].val # rows[j].val) <=>
                 (\A k \in KeptOf(S) : k < j => rows[k].val # rows[j].val)
      BY <1>3, <1>4, <3>2
    <3>3. QED
      BY <1>1, <2>2, <3>1, <3>2
  <2>3. QED
    BY <2>1, <2>2
<1>8. CountedRows(T, drop, dist) =
        IF CountsAfter(S, m, drop, dist) THEN CountedRows(S, drop, dist) \union {m} ELSE CountedRows(S, drop, dist)
  BY <1>7
<1>9. QED
  BY <1>6, <1>8 DEF m, T

(* A position beyond the others comes last.                                *)
LEMMA AscendingAppend ==
  ASSUME NEW n \in Nat, NEW S \in SUBSET (1..n)
  PROVE  Ascending(S \union {n + 1}) = Append(Ascending(S), n + 1)
<1> DEFINE m == n + 1
           T == S \union {m}
           c == Cardinality(S)
           Below(U, j) == Cardinality({k \in U : k <= j})
           Nth(U, i) == CHOOSE j \in U : Below(U, j) = i
<1>1. IsFiniteSet(S) /\ c \in Nat /\ Cardinality(T) = c + 1
  <2>1. IsFiniteSet(1..n)
    <3>1. n + 0 \in Nat /\ 1 \in Int /\ n \in Int
      OBVIOUS
    <3>2. QED
      BY <3>1, FS_Interval
  <2>2. IsFiniteSet(S) /\ c \in Nat
    BY <2>1, FS_Subset, FS_CardinalityType
  <2>3. m \notin S
    OBVIOUS
  <2>4. QED
    BY <2>2, <2>3, FS_AddElement
<1>2. \A j \in S : j \in Nat /\ j < m /\ j # m
  OBVIOUS
<1>3. \A j \in S : Below(T, j) = Below(S, j)
  <2> TAKE j \in S
  <2>1. {k \in T : k <= j} = {k \in S : k <= j}
    BY <1>2
  <2>2. QED
    BY <2>1
<1>4. Below(T, m) = c + 1
  <2>1. m \in Nat /\ m <= m
    OBVIOUS
  <2>2. \A k \in T : k <= m
    BY <1>2, <2>1
  <2>3. {k \in T : k <= m} = T
    <3> HIDE DEF T, m
    <3>1. QED
      BY <2>2
  <2>4. QED
    BY <1>1, <2>3
<1>5. \A j \in S : Below(S, j) \in Nat /\ Below(S, j) <= c
  <2> TAKE j \in S
  <2>1. {k \in S : k <= j} \subseteq S
    OBVIOUS
  <2>2. QED
    BY <1>1, <2>1, FS_Subset, FS_CardinalityType
<1>6. Nth(T, c + 1) = m
  <2>1. \A j \in T : Below(T, j) = c + 1 <=> j = m
    <3> TAKE j \in T
    <3>1. CASE j = m
      BY <1>4, <3>1
    <3>2. CASE j \in S
      <4>1. Below(T, j) \in Nat /\ Below(T, j) <= c
        BY <1>3, <1>5, <3>2
      <4> HIDE DEF Below, c, m
      <4>2. QED
        BY <1>1, <1>2, <3>2, <4>1
    <3>3. QED
      BY <3>1, <3>2
  <2>2. m \in T
    OBVIOUS
  <2> HIDE DEF Below, T, m
  <2>3. QED
    BY <2>1, <2>2
<1>7. ASSUME NEW i \in 1..c PROVE Nth(T, i) = Nth(S, i)
  <2>1. \A j : (j \in T /\ Below(T, j) = i) <=> (j \in S /\ Below(S, j) = i)
    <3> TAKE j
    <3>1. CASE j = m
      <4>1. Below(T, j) # i
        BY <1>1, <1>4, <3>1
      <4>2. QED
        BY <1>2, <3>1, <4>1
    <3>2. CASE j # m
      BY <1>3, <3>2
    <3>3. QED
      BY <3>1, <3>2
  <2> HIDE DEF Below, T
  <2>2. (CHOOSE j : j \in T /\ Below(T, j) = i) = (CHOOSE j : j \in S /\ Below(S, j) = i)
    BY <2>1
  <2>3. QED
    BY <2>2
<1>8. Ascending(S) = [i \in 1..c |-> Nth(S, i)]
  BY Zenon DEF Ascending
<1>9. Ascending(T) = [i \in 1..Cardinality(T) |-> Nth(T, i)]
  BY Zenon DEF Ascending
<1> HIDE DEF Nth, T, c, m
<1>10. DOMAIN Ascending(S) = 1..c /\ \A i \in 1..c : Ascending(S)[i] = Nth(S, i)
  BY <1>8
<1>11. DOMAIN Ascending(T) = 1..(c + 1) /\ \A i \in 1..(c + 1) : Ascending(T)[i] = Nth(T, i)
  BY <1>1, <1>9
<1>12. Ascending(T) = Append(Ascending(S), m)
  <2> DEFINE W == {Nth(S, i) : i \in 1..c} \union {m}
             s == Ascending(S)
             a == Append(s, m)
  <2>1. s \in Seq(W) /\ Len(s) = c /\ m \in W
    <3>1. s \in [1..c -> W]
      BY <1>8
    <3>2. QED
      BY <1>1, <3>1, <1>10
  <2>2. a \in Seq(W) /\ Len(a) = c + 1 /\ a[c + 1] = m /\ \A i \in 1..c : a[i] = s[i]
    <3> HIDE DEF s, W
    <3>1. QED
      BY <2>1
  <2>3. DOMAIN a = 1..(c + 1)
    <3> HIDE DEF a, W
    <3>1. QED
      BY <2>2
  <2>4. \A i \in 1..(c + 1) : a[i] = Nth(T, i)
    <3> TAKE i \in 1..(c + 1)
    <3>1. CASE i = c + 1
      BY <2>2, <1>6, <3>1
    <3>2. CASE i # c + 1
      <4>1. i \in 1..c
        BY <1>1, <3>2
      <4>2. QED
        BY <4>1, <2>2, <1>7, <1>10
    <3>3. QED
      BY <3>1, <3>2
  <2>5. a = [i \in 1..(c + 1) |-> Nth(T, i)]
    <3>1. a = [i \in DOMAIN a |-> a[i]]
      <4> HIDE DEF a, W
      <4>1. QED
        BY <2>2
    <3> HIDE DEF a
    <3>2. QED
      BY <2>3, <2>4, <3>1
  <2>6. QED
    BY <1>1, <1>9, <2>5
<1>13. QED
  BY <1>12 DEF m, T

(* The values of the rows that count, one row further.                     *)
CountedVals(e, drop, dist) == ValsAt(Counted(1..e, drop, dist))

(* The positions in ascending order are a sequence.                        *)
LEMMA CountedSeq ==
  ASSUME NEW S, Cardinality(S) \in Nat
  PROVE  /\ Ascending(S) \in Seq({Ascending(S)[i] : i \in 1..Cardinality(S)})
         /\ Len(Ascending(S)) = Cardinality(S) /\ DOMAIN Ascending(S) = 1..Cardinality(S)
<1> DEFINE a == Ascending(S)
           c == Cardinality(S)
           W == {a[i] : i \in 1..c}
<1>1. a = [i \in DOMAIN a |-> a[i]] /\ DOMAIN a = 1..c
  BY DEF Ascending
<1> HIDE DEF a, c
<1>2. a \in [1..c -> W]
  BY <1>1
<1>3. a \in Seq(W)
  BY <1>2 DEF c
<1>4. QED
  BY <1>1, <1>3 DEF a, c

(* The values at the positions, one position further.                      *)
LEMMA ValsAtAppend ==
  ASSUME NEW W, NEW js \in Seq(W), NEW m
  PROVE  ValsAt(Append(js, m)) = Append(ValsAt(js), rows[m].val)
<1> DEFINE a == Append(js, m)
           n == Len(js)
           U == {rows[x].val : x \in W \union {m}}
           v == ValsAt(js)
           b == Append(v, rows[m].val)
<1>1. /\ DOMAIN a = 1..(n + 1) /\ n \in Nat /\ DOMAIN js = 1..n
      /\ a[n + 1] = m /\ \A i \in 1..n : a[i] = js[i] /\ js[i] \in W
  <2>1. js \in Seq(W \union {m}) /\ m \in W \union {m}
    OBVIOUS
  <2>2. a \in Seq(W \union {m}) /\ Len(a) = n + 1 /\ n \in Nat
    BY <2>1
  <2>3. QED
    BY <2>1, <2>2
<1>2. v = [i \in 1..n |-> rows[js[i]].val]
  BY <1>1 DEF ValsAt
<1>3. ValsAt(a) = [i \in 1..(n + 1) |-> rows[a[i]].val]
  BY <1>1 DEF ValsAt
<1> HIDE DEF a, n, v
<1>4. v \in Seq(U) /\ Len(v) = n /\ rows[m].val \in U
  <2>1. v \in [1..n -> U]
    BY <1>1, <1>2
  <2> HIDE DEF U
  <2>2. v \in Seq(U) /\ DOMAIN v = 1..n
    BY <1>1, <2>1
  <2>3. QED
    BY <1>1, <2>2 DEF U
<1> HIDE DEF U
<1>5. b \in Seq(U) /\ DOMAIN b = 1..(n + 1) /\ b[n + 1] = rows[m].val /\ \A i \in 1..n : b[i] = v[i]
  BY <1>1, <1>4
<1> HIDE DEF b
<1>6. b = [i \in DOMAIN b |-> b[i]]
  BY <1>5
<1>7. \A i \in 1..(n + 1) : b[i] = rows[a[i]].val
  <2> TAKE i \in 1..(n + 1)
  <2>1. CASE i = n + 1
    BY <1>1, <1>5, <2>1
  <2>2. CASE i # n + 1
    <3>1. i \in 1..n
      BY <1>1, <2>2
    <3>2. QED
      BY <1>1, <1>2, <1>5, <3>1
  <2>3. QED
    BY <2>1, <2>2
<1>8. ValsAt(a) = b
  BY <1>3, <1>5, <1>6, <1>7
<1>9. QED
  BY <1>8 DEF a, b, v

(* One row further, one value more or none.                                *)
LEMMA CountedValsMore ==
  ASSUME NEW e \in Nat, NEW S \in SUBSET (1..e), NEW drop \in BOOLEAN, NEW dist \in BOOLEAN
  PROVE  ValsAt(Counted(S \union {e + 1}, drop, dist)) =
           IF CountsAfter(S, e + 1, drop, dist) THEN Append(ValsAt(Counted(S, drop, dist)), rows[e + 1].val)
           ELSE ValsAt(Counted(S, drop, dist))
<1> DEFINE C == CountedRows(S, drop, dist)
           D == CountedRows(S \union {e + 1}, drop, dist)
<1>1. C \in SUBSET (1..e)
  BY CountedMore
<1>2. D = IF CountsAfter(S, e + 1, drop, dist) THEN C \union {e + 1} ELSE C
  BY CountedMore
<1>3. Counted(S, drop, dist) = Ascending(C) /\ Counted(S \union {e + 1}, drop, dist) = Ascending(D)
  BY DEF Counted
<1> HIDE DEF C, D
<1>4. Cardinality(C) \in Nat
  <2>1. e + 0 \in Nat /\ 1 \in Int /\ e \in Int
    OBVIOUS
  <2>2. IsFiniteSet(1..e)
    BY <2>1, FS_Interval
  <2>3. QED
    BY <1>1, <2>2, FS_Subset, FS_CardinalityType
<1>5. Ascending(C \union {e + 1}) = Append(Ascending(C), e + 1)
  BY <1>1, AscendingAppend
<1>6. ValsAt(Append(Ascending(C), e + 1)) = Append(ValsAt(Ascending(C)), rows[e + 1].val)
  BY <1>4, CountedSeq, ValsAtAppend
<1>7. QED
  BY <1>2, <1>3, <1>5, <1>6

LEMMA CountedValsStep ==
  ASSUME NEW e \in Nat, NEW drop \in BOOLEAN, NEW dist \in BOOLEAN
  PROVE  CountedVals(e + 1, drop, dist) =
           IF Counts(e + 1, drop, dist) THEN Append(CountedVals(e, drop, dist), rows[e + 1].val)
           ELSE CountedVals(e, drop, dist)
<1> DEFINE S == 1..e
<1>1. S \in SUBSET (1..e) /\ 1..(e + 1) = S \union {e + 1} /\ (e + 1) - 1 = e
  OBVIOUS
<1>2. Counts(e + 1, drop, dist) <=> CountsAfter(S, e + 1, drop, dist)
  BY <1>1 DEF Counts
<1>3. /\ CountedVals(e + 1, drop, dist) = ValsAt(Counted(S \union {e + 1}, drop, dist))
      /\ CountedVals(e, drop, dist) = ValsAt(Counted(S, drop, dist))
  BY <1>1 DEF CountedVals
<1> HIDE DEF S
<1>4. ValsAt(Counted(S \union {e + 1}, drop, dist)) =
        IF CountsAfter(S, e + 1, drop, dist) THEN Append(ValsAt(Counted(S, drop, dist)), rows[e + 1].val)
        ELSE ValsAt(Counted(S, drop, dist))
  BY <1>1, CountedValsMore
<1>5. QED
  BY <1>2, <1>3, <1>4

(* Before the first row there is no value.                                 *)
LEMMA CountedNone ==
  ASSUME NEW drop \in BOOLEAN, NEW dist \in BOOLEAN
  PROVE  ValsAt(Counted({}, drop, dist)) = <<>>
<1>1. {} \in SUBSET (1..0) /\ 0 \in Nat
  OBVIOUS
<1>2. CountedRows({}, drop, dist) = {}
  BY <1>1, CountedMore
<1>3. Cardinality({}) = 0
  BY FS_EmptySet
<1>4. Ascending({}) = <<>>
  <2> DEFINE a == Ascending({})
  <2>1. DOMAIN a = 1..0 /\ a = [i \in DOMAIN a |-> a[i]]
    BY <1>3 DEF Ascending
  <2> HIDE DEF a
  <2>2. a = <<>>
    BY <2>1
  <2>3. QED
    BY <2>2 DEF a
<1>5. ValsAt(<<>>) = <<>>
  BY DEF ValsAt
<1>6. QED
  BY <1>2, <1>4, <1>5 DEF Counted

LEMMA CountedValsNone ==
  ASSUME NEW drop \in BOOLEAN, NEW dist \in BOOLEAN
  PROVE  CountedVals(0, drop, dist) = <<>>
<1>1. 1..0 = {}
  OBVIOUS
<1>2. QED
  BY <1>1, CountedNone DEF CountedVals

---------------------------------------------------------------------------
(* What each function keeps after values: P are those that count, Q those  *)
(* of them that are not NULL.                                              *)
IntVs == {IntV(n) : n \in Int}
NonZero(Q) == {k \in 1..Len(Q) : Num(Q[k]) # 0}
OrNone(n) == IF n = 0 THEN Null ELSE IntV(n)
BitOnes(Q, m, b) == {k \in 1..m : b \in BitsOf(Q[k])}
BitsUpTo(f, Q, m) ==
    {b \in Bits : IF f = "bit_or" THEN BitOnes(Q, m, b) # {} ELSE Cardinality(BitOnes(Q, m, b)) % 2 = 1}
NoMark(f, Q) == \A m \in 1..(Len(Q) - 1) : BitsUpTo(f, Q, m) # Start(f)

ListHolds(a, P) == IsSeq(a) /\ Vals(a) = P
AverageHolds(a, Q) == a = IF Q = <<>> THEN Null ELSE <<SumOf(Q), Len(Q)>>
SumHolds(a, Q) == a = IF Q = <<>> THEN Null ELSE IntV(SumOf(Q))
MaxHolds(a, Q) == IF Q = <<>> THEN a = Null ELSE (\E k \in 1..Len(Q) : a = Q[k]) /\ \A k \in 1..Len(Q) : Num(Q[k]) <= Num(a)
MinHolds(a, Q) == IF Q = <<>> THEN a = Null ELSE (\E k \in 1..Len(Q) : a = Q[k]) /\ \A k \in 1..Len(Q) : Num(Q[k]) >= Num(a)
AndHolds(a, Q) == a \in BOOLEAN /\ (a <=> \A k \in 1..Len(Q) : Num(Q[k]) # 0)
OrHolds(a, Q) == a \in BOOLEAN /\ (a <=> \E k \in 1..Len(Q) : Num(Q[k]) # 0)
BitAndHolds(a, Q) == a = {b \in Bits : \A k \in 1..Len(Q) : b \in BitsOf(Q[k])}
BitHolds(f, a, Q) == /\ Q = <<>> => a = Start(f)
                     /\ Q # <<>> /\ NoMark(f, Q) => a = BitsUpTo(f, Q, Len(Q))

(* A NULL changes none of them but the two that count it.                  *)
LEMMA NullSteps ==
  ASSUME NEW a, NEW r, r.val = Null
  PROVE  \A f \in GroupFuncs \ {"array", "count_star", "approx_quantiles", "array_agg", "approx_top_count"} :
           GroupStep(f, a, r) = a
<1> TAKE f \in GroupFuncs \ {"array", "count_star", "approx_quantiles", "array_agg", "approx_top_count"}
<1>1. CASE f \in {"population", "sample", "array_concat_agg", "string_agg", "any_value"}
  <2>1. CASE f \in {"population", "sample"}
    BY <2>1 DEF GroupStep, SampleStep
  <2>2. CASE f \notin {"population", "sample"}
    <3>1. GroupStep(f, a, r) = ListStep(f, a, r)
      BY <1>1, <2>2 DEF GroupStep, Lists
    <3>2. f \in {"array_concat_agg", "string_agg", "any_value"} /\ f \notin {"array", "array_agg", "approx_quantiles"}
      BY <1>1, <2>2
    <3>3. QED
      BY <3>1, <3>2 DEF ListStep
  <2>3. QED
    BY <2>1, <2>2
<1>2. CASE f \in {"count", "countif"}
  BY <1>2 DEF GroupStep, Lists, CountStep
<1>3. CASE f \in {"logical_and", "logical_or"}
  BY <1>3 DEF GroupStep, Lists, LogicalStep
<1>4. CASE f \in {"max", "min"}
  BY <1>4 DEF GroupStep, Lists, ExtremeStep
<1>5. CASE f \in {"bit_and", "bit_or", "bit_xor"}
  <2>1. GroupStep(f, a, r) = BitStep(f, a, r.val)
    BY <1>5 DEF GroupStep, Lists
  <2>2. BitStep(f, a, Null) = a
    BY DEF BitStep
  <2>3. QED
    BY <2>1, <2>2
<1>6. CASE f = "sum"
  BY <1>6 DEF GroupStep, Lists, SumStep
<1>7. CASE f = "avg"
  BY <1>7 DEF GroupStep, Lists, AverageStep
<1>8. CASE f = "approx_count_distinct"
  BY <1>8 DEF GroupStep, Lists, DistinctStep
<1>9. QED
  BY <1>1, <1>2, <1>3, <1>4, <1>5, <1>6, <1>7, <1>8 DEF GroupFuncs

(* A list keeps each value with its options.                               *)
LEMMA ListGrows ==
  ASSUME NEW a, NEW P, NEW r, ListHolds(a, P)
  PROVE  ListHolds(Append(a, r), Append(P, r.val))
<1> DEFINE W == {a[i] : i \in DOMAIN a}
           n == Len(a)
           b == Append(a, r)
           U == {x.val : x \in W \union {r}}
           c == Append(P, r.val)
<1>1. a \in Seq(W)
  BY DEF ListHolds, IsSeq
<1>2. /\ b \in Seq(W \union {r}) /\ DOMAIN b = 1..(n + 1) /\ n \in Nat /\ DOMAIN a = 1..n
      /\ b[n + 1] = r /\ \A i \in 1..n : b[i] = a[i] /\ a[i] \in W
  <2>1. a \in Seq(W \union {r}) /\ r \in W \union {r}
    BY <1>1
  <2> HIDE DEF W
  <2>2. b \in Seq(W \union {r}) /\ Len(b) = n + 1 /\ n \in Nat
    BY <2>1
  <2>3. QED
    BY <1>1, <2>1, <2>2
<1>3. P = [i \in 1..n |-> a[i].val]
  BY <1>2 DEF ListHolds, Vals
<1>4. IsSeq(b)
  <2> DEFINE X == {b[i] : i \in DOMAIN b}
  <2> HIDE DEF b, W, n
  <2>1. b \in [1..(n + 1) -> X]
    BY <1>2
  <2>2. n + 1 \in Nat
    BY <1>2
  <2> HIDE DEF X
  <2>3. b \in Seq(X)
    BY <2>1, <2>2
  <2>4. QED
    BY <2>3 DEF IsSeq, X
<1>5. Vals(b) = [i \in 1..(n + 1) |-> b[i].val]
  BY <1>2 DEF Vals
<1> HIDE DEF b, n, W
<1>6. P \in Seq(U) /\ Len(P) = n /\ r.val \in U
  <2>1. P \in [1..n -> U]
    BY <1>2, <1>3
  <2> HIDE DEF U
  <2>2. P \in Seq(U) /\ DOMAIN P = 1..n
    BY <1>2, <2>1
  <2>3. QED
    BY <1>2, <2>2 DEF U
<1> HIDE DEF U
<1>7. c \in Seq(U) /\ DOMAIN c = 1..(n + 1) /\ c[n + 1] = r.val /\ \A i \in 1..n : c[i] = P[i]
  BY <1>2, <1>6
<1> HIDE DEF c
<1>8. c = [i \in DOMAIN c |-> c[i]]
  BY <1>7
<1>9. \A i \in 1..(n + 1) : c[i] = b[i].val
  <2> TAKE i \in 1..(n + 1)
  <2>1. CASE i = n + 1
    BY <1>2, <1>7, <2>1
  <2>2. CASE i # n + 1
    <3>1. i \in 1..n
      BY <1>2, <2>2
    <3>2. QED
      BY <1>2, <1>3, <1>7, <3>1
  <2>3. QED
    BY <2>1, <2>2
<1>10. Vals(b) = c
  BY <1>5, <1>7, <1>8, <1>9
<1>11. QED
  BY <1>4, <1>10 DEF b, c, ListHolds

(* The values with one more.                                               *)
LEMMA OneMore ==
  ASSUME NEW Q \in Seq(IntVs), NEW v \in IntVs
  PROVE  LET R == Append(Q, v)
         IN  /\ R \in Seq(IntVs) /\ R # <<>>
             /\ Len(R) = Len(Q) + 1 /\ Len(Q) \in Nat /\ 1..Len(R) = 1..Len(Q) \union {Len(R)}
             /\ R[Len(R)] = v /\ \A k \in 1..Len(Q) : R[k] = Q[k] /\ k # Len(R)
             /\ \A k \in 1..Len(Q) : Q[k] \in IntVs
             /\ Q = <<>> <=> Len(Q) = 0
OBVIOUS

(* What is known of a value that is not NULL.                              *)
LEMMA IntOfV ==
  ASSUME NEW v \in IntVs
  PROVE  Num(v) \in Int /\ v = IntV(Num(v)) /\ v # Null
<1>1. PICK n \in Int : v = IntV(n)
  BY DEF IntVs
<1>2. Num(v) = n
  BY <1>1 DEF Num, IntV, Result
<1>3. v # Null
  BY <1>1 DEF IntV, Result, Null
<1>4. QED
  BY <1>1, <1>2, <1>3

(* One value more, for each of the functions.                              *)
LEMMA SumsGrow ==
  ASSUME NEW a, NEW r, NEW Q \in Seq(IntVs), r.val \in IntVs
  PROVE  /\ SumHolds(a, Q) => SumHolds(GroupStep("sum", a, r), Append(Q, r.val))
         /\ AverageHolds(a, Q) => AverageHolds(GroupStep("avg", a, r), Append(Q, r.val))
<1> DEFINE v == r.val
           R == Append(Q, v)
<1>1. /\ R # <<>> /\ Len(R) = Len(Q) + 1 /\ Len(Q) \in Nat /\ (Q = <<>> <=> Len(Q) = 0)
  BY OneMore
<1>2. SumOf(R) = SumOf(Q) + Num(v)
  BY SumAppend
<1>3. Num(v) \in Int /\ v = IntV(Num(v)) /\ v # Null
  BY IntOfV
<1>4. GroupStep("sum", a, r) = SumStep(a, v) /\ GroupStep("avg", a, r) = AverageStep(a, v)
  BY DEF GroupStep, Lists
<1> HIDE DEF v, R
<1>5. CASE Q = <<>>
  <2>1. SumOf(R) = Num(v)
    BY <1>2, <1>3, <1>5, SumEmpty
  <2>2. ASSUME SumHolds(a, Q) PROVE SumHolds(SumStep(a, v), R)
    <3>1. a = Null
      BY <1>5, <2>2 DEF SumHolds
    <3>2. QED
      BY <1>1, <1>3, <2>1, <3>1 DEF SumHolds, SumStep
  <2>3. ASSUME AverageHolds(a, Q) PROVE AverageHolds(AverageStep(a, v), R)
    <3>1. a = Null
      BY <1>5, <2>3 DEF AverageHolds
    <3>2. AverageStep(a, v) = <<Num(v), 1>>
      BY <1>3, <3>1 DEF AverageStep
    <3>3. Len(R) = 1
      BY <1>1, <1>5
    <3>4. QED
      BY <1>1, <2>1, <3>2, <3>3 DEF AverageHolds
  <2>4. QED
    BY <1>4, <2>2, <2>3 DEF R, v
<1>6. CASE Q # <<>>
  <2>1. ASSUME SumHolds(a, Q) PROVE SumHolds(SumStep(a, v), R)
    <3>1. a = IntV(SumOf(Q))
      BY <1>6, <2>1 DEF SumHolds
    <3>2. a # Null /\ Num(a) = SumOf(Q)
      BY <3>1 DEF IntV, Result, Null, Num
    <3>3. QED
      BY <1>1, <1>2, <1>3, <3>2 DEF SumHolds, SumStep
  <2>2. ASSUME AverageHolds(a, Q) PROVE AverageHolds(AverageStep(a, v), R)
    <3>1. a = <<SumOf(Q), Len(Q)>>
      BY <1>6, <2>2 DEF AverageHolds
    <3>2. a # Null /\ a[1] = SumOf(Q) /\ a[2] = Len(Q)
      BY <3>1 DEF Null
    <3>3. AverageStep(a, v) = <<SumOf(Q) + Num(v), Len(Q) + 1>>
      BY <1>3, <3>2 DEF AverageStep
    <3>4. QED
      BY <1>1, <1>2, <3>3 DEF AverageHolds
  <2>3. QED
    BY <1>4, <2>1, <2>2 DEF R, v
<1>7. QED
  BY <1>5, <1>6

(* MAX and MIN keep a value of the rows that none exceeds.                 *)
LEMMA ExtremesGrow ==
  ASSUME NEW a, NEW r, NEW Q \in Seq(IntVs), r.val \in IntVs
  PROVE  /\ MaxHolds(a, Q) => MaxHolds(GroupStep("max", a, r), Append(Q, r.val))
         /\ MinHolds(a, Q) => MinHolds(GroupStep("min", a, r), Append(Q, r.val))
<1> DEFINE v == r.val
           R == Append(Q, v)
<1>1. /\ R # <<>> /\ Len(R) = Len(Q) + 1 /\ Len(Q) \in Nat /\ (Q = <<>> <=> Len(Q) = 0)
      /\ 1..Len(R) = 1..Len(Q) \union {Len(R)}
      /\ R[Len(R)] = v /\ \A k \in 1..Len(Q) : R[k] = Q[k] /\ k # Len(R)
      /\ \A k \in 1..Len(Q) : Q[k] \in IntVs
  BY OneMore
<1>2. Num(v) \in Int /\ v # Null /\ \A k \in 1..Len(Q) : Num(Q[k]) \in Int /\ Q[k] # Null
  BY <1>1, IntOfV
<1>3. GroupStep("max", a, r) = ExtremeStep("max", a, v) /\ GroupStep("min", a, r) = ExtremeStep("min", a, v)
  BY DEF GroupStep, Lists
<1> HIDE DEF v, R
<1>4. CASE Q = <<>>
  <2>1. 1..Len(R) = {Len(R)} /\ Num(v) <= Num(v)
    BY <1>1, <1>2, <1>4
  <2>2. ASSUME a = Null PROVE ExtremeStep("max", a, v) = v /\ ExtremeStep("min", a, v) = v
    BY <1>2, <2>2 DEF ExtremeStep
  <2>3. MaxHolds(v, R) /\ MinHolds(v, R)
    BY <1>1, <1>2, <2>1 DEF MaxHolds, MinHolds
  <2>4. QED
    BY <1>3, <1>4, <2>2, <2>3 DEF MaxHolds, MinHolds, R, v
<1>5. CASE Q # <<>>
  <2>1. ASSUME MaxHolds(a, Q) PROVE MaxHolds(ExtremeStep("max", a, v), R)
    <3>1. (\E k \in 1..Len(Q) : a = Q[k]) /\ \A k \in 1..Len(Q) : Num(Q[k]) <= Num(a)
      BY <1>5, <2>1 DEF MaxHolds
    <3>2. a # Null /\ Num(a) \in Int
      BY <1>2, <3>1
    <3>3. ExtremeStep("max", a, v) = IF Num(v) > Num(a) THEN v ELSE a
      BY <1>2, <3>2 DEF ExtremeStep
    <3> DEFINE b == ExtremeStep("max", a, v)
    <3>4. Num(b) \in Int /\ Num(a) <= Num(b) /\ Num(v) <= Num(b) /\ (b = v \/ b = a)
      <4>1. CASE Num(v) > Num(a)
        BY <1>2, <3>2, <3>3, <4>1
      <4>2. CASE ~ (Num(v) > Num(a))
        BY <1>2, <3>2, <3>3, <4>2
      <4>3. QED
        BY <4>1, <4>2
    <3> HIDE DEF b
    <3>5. \A k \in 1..Len(Q) : Num(R[k]) <= Num(b)
      BY <1>1, <1>2, <3>1, <3>2, <3>4
    <3>6. \A k \in 1..Len(R) : Num(R[k]) <= Num(b)
      BY <1>1, <3>4, <3>5
    <3>7. \E k \in 1..Len(R) : b = R[k]
      BY <1>1, <3>1, <3>4
    <3>8. MaxHolds(b, R)
      BY <1>1, <3>6, <3>7 DEF MaxHolds
    <3>9. QED
      BY <3>8 DEF b
  <2>2. ASSUME MinHolds(a, Q) PROVE MinHolds(ExtremeStep("min", a, v), R)
    <3>1. (\E k \in 1..Len(Q) : a = Q[k]) /\ \A k \in 1..Len(Q) : Num(Q[k]) >= Num(a)
      BY <1>5, <2>2 DEF MinHolds
    <3>2. a # Null /\ Num(a) \in Int
      BY <1>2, <3>1
    <3>3. ExtremeStep("min", a, v) = IF Num(v) < Num(a) THEN v ELSE a
      BY <1>2, <3>2 DEF ExtremeStep
    <3> DEFINE b == ExtremeStep("min", a, v)
    <3>4. Num(b) \in Int /\ Num(a) >= Num(b) /\ Num(v) >= Num(b) /\ (b = v \/ b = a)
      <4>1. CASE Num(v) < Num(a)
        BY <1>2, <3>2, <3>3, <4>1
      <4>2. CASE ~ (Num(v) < Num(a))
        BY <1>2, <3>2, <3>3, <4>2
      <4>3. QED
        BY <4>1, <4>2
    <3> HIDE DEF b
    <3>5. \A k \in 1..Len(Q) : Num(R[k]) >= Num(b)
      BY <1>1, <1>2, <3>1, <3>2, <3>4
    <3>6. \A k \in 1..Len(R) : Num(R[k]) >= Num(b)
      BY <1>1, <3>4, <3>5
    <3>7. \E k \in 1..Len(R) : b = R[k]
      BY <1>1, <3>1, <3>4
    <3>8. MinHolds(b, R)
      BY <1>1, <3>6, <3>7 DEF MinHolds
    <3>9. QED
      BY <3>8 DEF b
  <2>3. QED
    BY <1>3, <2>1, <2>2 DEF R, v
<1>6. QED
  BY <1>4, <1>5

(* LOGICAL_AND, LOGICAL_OR and BIT_AND start from their neutral value.     *)
LEMMA LogicalsGrow ==
  ASSUME NEW a, NEW r, NEW Q \in Seq(IntVs), r.val \in IntVs
  PROVE  /\ AndHolds(a, Q) => AndHolds(GroupStep("logical_and", a, r), Append(Q, r.val))
         /\ OrHolds(a, Q) => OrHolds(GroupStep("logical_or", a, r), Append(Q, r.val))
         /\ BitAndHolds(a, Q) => BitAndHolds(GroupStep("bit_and", a, r), Append(Q, r.val))
<1> DEFINE v == r.val
           R == Append(Q, v)
<1>1. /\ 1..Len(R) = 1..Len(Q) \union {Len(R)}
      /\ R[Len(R)] = v /\ \A k \in 1..Len(Q) : R[k] = Q[k]
  BY OneMore
<1>2. v # Null
  BY IntOfV
<1>3. /\ GroupStep("logical_and", a, r) = LogicalStep("logical_and", a, v)
      /\ GroupStep("logical_or", a, r) = LogicalStep("logical_or", a, v)
      /\ GroupStep("bit_and", a, r) = BitStep("bit_and", a, v)
  BY DEF GroupStep, Lists
<1> HIDE DEF v, R
<1>4. ASSUME AndHolds(a, Q) PROVE AndHolds(LogicalStep("logical_and", a, v), R)
  <2>1. LogicalStep("logical_and", a, v) = (a /\ Num(v) # 0)
    BY <1>2 DEF LogicalStep
  <2>2. (\A k \in 1..Len(R) : Num(R[k]) # 0) <=> (\A k \in 1..Len(Q) : Num(Q[k]) # 0) /\ Num(v) # 0
    BY <1>1
  <2>3. QED
    BY <1>4, <2>1, <2>2 DEF AndHolds
<1>5. ASSUME OrHolds(a, Q) PROVE OrHolds(LogicalStep("logical_or", a, v), R)
  <2>1. LogicalStep("logical_or", a, v) = (a \/ Num(v) # 0)
    BY <1>2 DEF LogicalStep
  <2>2. (\E k \in 1..Len(R) : Num(R[k]) # 0) <=> (\E k \in 1..Len(Q) : Num(Q[k]) # 0) \/ Num(v) # 0
    BY <1>1
  <2>3. QED
    BY <1>5, <2>1, <2>2 DEF OrHolds
<1>6. ASSUME BitAndHolds(a, Q) PROVE BitAndHolds(BitStep("bit_and", a, v), R)
  <2>1. BitStep("bit_and", a, v) = a \intersect BitsOf(v)
    BY <1>2 DEF BitStep
  <2>2. \A b \in Bits : (\A k \in 1..Len(R) : b \in BitsOf(R[k])) <=>
                        (\A k \in 1..Len(Q) : b \in BitsOf(Q[k])) /\ b \in BitsOf(v)
    BY <1>1
  <2>3. BitsOf(v) \subseteq Bits
    BY DEF BitsOf
  <2>4. QED
    BY <1>6, <2>1, <2>2, <2>3 DEF BitAndHolds
<1>7. QED
  BY <1>3, <1>4, <1>5, <1>6 DEF R, v

(* COUNT and COUNTIF are NULL until a row counts.                          *)
LEMMA CountsGrow ==
  ASSUME NEW a, NEW r, NEW Q \in Seq(IntVs), r.val \in IntVs
  PROVE  /\ a = OrNone(Len(Q)) => GroupStep("count", a, r) = OrNone(Len(Append(Q, r.val)))
         /\ a = OrNone(Cardinality(NonZero(Q))) =>
              GroupStep("countif", a, r) = OrNone(Cardinality(NonZero(Append(Q, r.val))))
<1> DEFINE v == r.val
           R == Append(Q, v)
<1>1. /\ Len(R) = Len(Q) + 1 /\ Len(Q) \in Nat
      /\ 1..Len(R) = 1..Len(Q) \union {Len(R)}
      /\ R[Len(R)] = v /\ \A k \in 1..Len(Q) : R[k] = Q[k] /\ k # Len(R)
  BY OneMore
<1>2. Num(v) \in Int /\ v # Null
  BY IntOfV
<1>3. GroupStep("count", a, r) = CountStep("count", a, v) /\ GroupStep("countif", a, r) = CountStep("countif", a, v)
  BY DEF GroupStep, Lists
<1>4. NonZero(R) = IF Num(v) = 0 THEN NonZero(Q) ELSE NonZero(Q) \union {Len(R)}
  <2> HIDE DEF v, R
  <2>1. QED
    BY <1>1 DEF NonZero
<1>5. IsFiniteSet(NonZero(Q)) /\ Cardinality(NonZero(Q)) \in Nat /\ Len(R) \notin NonZero(Q)
  <2>1. NonZero(Q) \subseteq 1..Len(Q)
    BY DEF NonZero
  <2>2. IsFiniteSet(1..Len(Q))
    BY <1>1, FS_Interval
  <2>3. Len(R) \notin NonZero(Q)
    BY <1>1, <2>1
  <2>4. QED
    BY <2>1, <2>2, <2>3, FS_Subset, FS_CardinalityType
<1>6. Cardinality(NonZero(R)) = Cardinality(NonZero(Q)) + (IF Num(v) = 0 THEN 0 ELSE 1)
  <2> HIDE DEF v, R
  <2>1. Cardinality(NonZero(Q) \union {Len(R)}) = Cardinality(NonZero(Q)) + 1
    BY <1>5, FS_AddElement
  <2>2. QED
    BY <1>4, <1>5, <2>1
<1> HIDE DEF v, R
<1>7. ASSUME NEW n \in Nat, a = OrNone(n)
      PROVE  (IF a = Null THEN IntV(1) ELSE IntV(Num(a) + 1)) = OrNone(n + 1)
  <2>1. IntV(n) # Null /\ Num(IntV(n)) = n /\ n + 1 # 0
    BY DEF IntV, Result, Null, Num
  <2>2. QED
    BY <1>7, <2>1 DEF OrNone
<1>8. a = OrNone(Len(Q)) => CountStep("count", a, v) = OrNone(Len(R))
  <2>1. CountStep("count", a, v) = IF a = Null THEN IntV(1) ELSE IntV(Num(a) + 1)
    BY <1>2 DEF CountStep
  <2>2. QED
    BY <1>1, <1>7, <2>1
<1>9. ASSUME a = OrNone(Cardinality(NonZero(Q))) PROVE CountStep("countif", a, v) = OrNone(Cardinality(NonZero(R)))
  <2>1. CASE Num(v) = 0
    <3>1. CountStep("countif", a, v) = a
      BY <2>1 DEF CountStep
    <3>2. QED
      BY <1>4, <1>9, <2>1, <3>1
  <2>2. CASE Num(v) # 0
    <3>1. CountStep("countif", a, v) = IF a = Null THEN IntV(1) ELSE IntV(Num(a) + 1)
      BY <1>2, <2>2 DEF CountStep
    <3>2. Cardinality(NonZero(R)) = Cardinality(NonZero(Q)) + 1
      BY <1>6, <2>2
    <3>3. QED
      BY <1>5, <1>7, <1>9, <3>1, <3>2
  <2>3. QED
    BY <2>1, <2>2
<1>10. QED
  BY <1>3, <1>8, <1>9 DEF R, v

(* BIT_OR and BIT_XOR are right while no partial result is the start.      *)
LEMMA BitsGrow ==
  ASSUME NEW f \in {"bit_or", "bit_xor"}, NEW a, NEW r, NEW Q \in Seq(IntVs), r.val \in IntVs, BitHolds(f, a, Q)
  PROVE  BitHolds(f, GroupStep(f, a, r), Append(Q, r.val))
<1> DEFINE v == r.val
           R == Append(Q, v)
           n == Len(Q)
           One(b) == BitOnes(Q, n, b)
<1>1. /\ R # <<>> /\ Len(R) = n + 1 /\ n \in Nat /\ (Q = <<>> <=> n = 0)
      /\ R[n + 1] = v /\ \A k \in 1..n : R[k] = Q[k]
  BY OneMore
<1>2. v # Null
  BY IntOfV
<1>3. GroupStep(f, a, r) = BitStep(f, a, v)
  <2>1. f \notin {"population", "sample", "count_star", "count", "countif", "logical_and", "logical_or", "max", "min",
                  "sum", "avg", "approx_count_distinct", "approx_top_count"} /\ f \notin Lists
    BY DEF Lists
  <2>2. QED
    BY <2>1 DEF GroupStep
<1>4. BitsOf(v) \subseteq Bits
  BY DEF BitsOf
<1> HIDE DEF v, R, n
<1>5. ASSUME NEW b
      PROVE  /\ BitOnes(R, n + 1, b) = IF b \in BitsOf(v) THEN One(b) \union {n + 1} ELSE One(b)
             /\ IsFiniteSet(One(b)) /\ Cardinality(One(b)) \in Nat /\ n + 1 \notin One(b)
  <2>1. One(b) \subseteq 1..n
    BY DEF BitOnes
  <2>2. IsFiniteSet(1..n)
    <3>1. n + 0 \in Nat /\ 1 \in Int /\ n \in Int
      BY <1>1
    <3>2. QED
      BY <3>1, FS_Interval
  <2>3. IsFiniteSet(One(b)) /\ Cardinality(One(b)) \in Nat
    BY <2>1, <2>2, FS_Subset, FS_CardinalityType
  <2>4. \A k : k \in 1..(n + 1) <=> k \in 1..n \/ k = n + 1
    BY <1>1
  <2>5. BitOnes(R, n + 1, b) = IF b \in BitsOf(v) THEN One(b) \union {n + 1} ELSE One(b)
    BY <1>1, <2>4 DEF BitOnes
  <2>6. n + 1 \notin 1..n
    BY <1>1
  <2>7. QED
    BY <2>1, <2>3, <2>5, <2>6
<1>6. ASSUME NEW b
      PROVE  Cardinality(BitOnes(R, n + 1, b)) = IF b \in BitsOf(v) THEN Cardinality(One(b)) + 1 ELSE Cardinality(One(b))
  <2>1. Cardinality(One(b) \union {n + 1}) = Cardinality(One(b)) + 1
    BY <1>5, FS_AddElement
  <2>2. QED
    BY <1>5, <2>1
<1>7. \A m \in 1..n : BitsUpTo(f, R, m) = BitsUpTo(f, Q, m)
  <2> TAKE m \in 1..n
  <2>1. \A k \in 1..m : R[k] = Q[k]
    BY <1>1
  <2>2. \A b : BitOnes(R, m, b) = BitOnes(Q, m, b)
    BY <2>1 DEF BitOnes
  <2>3. QED
    BY <2>2 DEF BitsUpTo
<1>8. CASE Q = <<>>
  <2>1. a = Start(f) /\ n = 0
    BY <1>1, <1>8 DEF BitHolds
  <2>2. BitStep(f, a, v) = BitsOf(v)
    <3>1. Start("bit_or") = AllBits /\ Start("bit_xor") = LowBit
      BY DEF Start
    <3>2. CASE f = "bit_or"
      BY <1>2, <2>1, <3>1, <3>2 DEF BitStep
    <3>3. CASE f = "bit_xor"
      BY <1>2, <2>1, <3>1, <3>3 DEF BitStep
    <3>4. QED
      BY <3>2, <3>3
  <2>3. \A b : One(b) = {}
    <3>1. 1..n = {}
      BY <2>1
    <3>2. QED
      BY <3>1 DEF BitOnes
  <2>4. ASSUME NEW b
        PROVE  /\ BitOnes(R, 1, b) # {} <=> b \in BitsOf(v)
               /\ Cardinality(BitOnes(R, 1, b)) % 2 = 1 <=> b \in BitsOf(v)
    <3>1. Cardinality(BitOnes(R, 1, b)) = IF b \in BitsOf(v) THEN 1 ELSE 0
      <4>1. n + 1 = 1
        BY <2>1
      <4>2. One(b) = {}
        BY <2>3
      <4>3. Cardinality(BitOnes(R, n + 1, b)) = IF b \in BitsOf(v) THEN Cardinality(One(b)) + 1 ELSE Cardinality(One(b))
        BY <1>6
      <4> HIDE DEF One
      <4>4. Cardinality(One(b)) = 0
        BY <4>2, FS_EmptySet
      <4>5. QED
        BY <4>1, <4>3, <4>4
    <3>2. BitOnes(R, 1, b) # {} <=> b \in BitsOf(v)
      BY <1>5, <2>1, <2>3
    <3>3. QED
      BY <3>1, <3>2
  <2>5. BitsUpTo(f, R, 1) = BitsOf(v)
    BY <1>4, <2>4 DEF BitsUpTo
  <2>6. Len(R) = 1
    BY <1>1, <2>1
  <2>7. BitHolds(f, BitStep(f, a, v), R)
    BY <1>1, <2>2, <2>5, <2>6 DEF BitHolds
  <2>8. QED
    BY <1>3, <2>7 DEF R, v
<1>9. CASE Q # <<>>
  <2>1. n \in 1..n /\ n \in Nat /\ Len(R) - 1 = n /\ Len(R) = n + 1 /\ 1..(n - 1) \subseteq 1..n
    BY <1>1, <1>9
  <2>2. ASSUME NoMark(f, R) PROVE BitStep(f, a, v) = BitsUpTo(f, R, Len(R))
    <3>1. \A m \in 1..n : BitsUpTo(f, Q, m) # Start(f)
      BY <1>7, <2>1, <2>2 DEF NoMark
    <3>2. NoMark(f, Q)
      BY <2>1, <3>1 DEF NoMark, n
    <3>3. a = BitsUpTo(f, Q, n)
      BY <1>9, <3>2 DEF BitHolds, n
    <3>4. a # Start(f)
      BY <2>1, <3>1, <3>3
    <3>5. CASE f = "bit_or"
      <4>1. BitStep(f, a, v) = a \union BitsOf(v)
        BY <1>2, <3>4, <3>5 DEF BitStep, Start
      <4>2. a = {b \in Bits : One(b) # {}}
        BY <3>3, <3>5 DEF BitsUpTo
      <4>3. BitsUpTo(f, R, n + 1) = {b \in Bits : BitOnes(R, n + 1, b) # {}}
        BY <3>5 DEF BitsUpTo
      <4> HIDE DEF One
      <4>4. \A b \in Bits : BitOnes(R, n + 1, b) # {} <=> b \in BitsOf(v) \/ One(b) # {}
        BY <1>5
      <4>5. QED
        BY <1>4, <2>1, <4>1, <4>2, <4>3, <4>4
    <3>6. CASE f = "bit_xor"
      <4>1. BitStep(f, a, v) = (a \union BitsOf(v)) \ (a \intersect BitsOf(v))
        BY <1>2, <3>4, <3>6 DEF BitStep, Start
      <4>2. a = {b \in Bits : Cardinality(One(b)) % 2 = 1}
        BY <3>3, <3>6 DEF BitsUpTo
      <4>3. BitsUpTo(f, R, n + 1) = {b \in Bits : Cardinality(BitOnes(R, n + 1, b)) % 2 = 1}
        BY <3>6 DEF BitsUpTo
      <4> HIDE DEF One
      <4>4. \A b \in Bits : Cardinality(BitOnes(R, n + 1, b)) % 2 = 1 <=>
                              (b \in BitsOf(v) /\ ~ (Cardinality(One(b)) % 2 = 1)) \/ (b \notin BitsOf(v) /\ Cardinality(One(b)) % 2 = 1)
        <5> TAKE b \in Bits
        <5>1. Cardinality(One(b)) \in Nat
          BY <1>5
        <5>2. \A c \in Nat : (c + 1) % 2 = 1 <=> ~ (c % 2 = 1)
          OBVIOUS
        <5>3. QED
          BY <1>6, <5>1, <5>2
      <4>5. QED
        BY <1>4, <2>1, <4>1, <4>2, <4>3, <4>4
    <3>7. QED
      BY <3>5, <3>6
  <2>3. BitHolds(f, BitStep(f, a, v), R)
    BY <1>1, <2>2 DEF BitHolds
  <2>4. QED
    BY <1>3, <2>3 DEF R, v
<1>10. QED
  BY <1>8, <1>9

(* What all of them keep, and one row more.                                *)
AccHolds(acc, P, Q) ==
    /\ ListHolds(acc["array"], P)
    /\ ListHolds(acc["population"], Q) /\ ListHolds(acc["sample"], Q)
    /\ acc["count_star"] = Len(P)
    /\ acc["count"] = OrNone(Len(Q)) /\ acc["countif"] = OrNone(Cardinality(NonZero(Q)))
    /\ SumHolds(acc["sum"], Q) /\ AverageHolds(acc["avg"], Q)
    /\ MaxHolds(acc["max"], Q) /\ MinHolds(acc["min"], Q)
    /\ AndHolds(acc["logical_and"], Q) /\ OrHolds(acc["logical_or"], Q)
    /\ BitAndHolds(acc["bit_and"], Q)
    /\ BitHolds("bit_or", acc["bit_or"], Q) /\ BitHolds("bit_xor", acc["bit_xor"], Q)

(* A list has as many entries as values.                                   *)
LEMMA ListIs ==
  ASSUME NEW a, NEW P, ListHolds(a, P)
  PROVE  /\ \E U : P \in Seq(U)
         /\ Len(P) = Len(a) /\ Len(a) \in Nat
<1> DEFINE W == {a[i] : i \in DOMAIN a}
           U == {a[i].val : i \in DOMAIN a}
           n == Len(a)
<1>1. a \in Seq(W)
  BY DEF ListHolds, IsSeq
<1>2. DOMAIN a = 1..n /\ n \in Nat
  BY <1>1
<1>3. P = [i \in 1..n |-> a[i].val]
  BY <1>2 DEF ListHolds, Vals
<1> HIDE DEF n
<1>4. P \in [1..n -> U]
  BY <1>2, <1>3
<1> HIDE DEF U
<1>5. P \in Seq(U) /\ DOMAIN P = 1..n
  BY <1>2, <1>4
<1>6. Len(P) = n
  BY <1>2, <1>5
<1>7. QED
  BY <1>2, <1>5, <1>6 DEF n

(* A row that is taken keeps what all of them hold.                        *)
LEMMA AccStep ==
  ASSUME NEW acc, NEW P, NEW Q \in Seq(IntVs), AccHolds(acc, P, Q), NEW r, IsInt(r.val)
  PROVE  AccHolds([f \in GroupFuncs |-> GroupStep(f, acc[f], r)], Append(P, r.val),
                  IF r.val = Null THEN Q ELSE Append(Q, r.val))
<1> DEFINE v == r.val
           new == [f \in GroupFuncs |-> GroupStep(f, acc[f], r)]
           R == IF v = Null THEN Q ELSE Append(Q, v)
<1>1. \A f \in GroupFuncs : new[f] = GroupStep(f, acc[f], r)
  OBVIOUS
<1>2. {"array", "population", "sample", "count_star", "count", "countif", "sum", "avg", "max", "min",
       "logical_and", "logical_or", "bit_and", "bit_or", "bit_xor"} \subseteq GroupFuncs
  BY DEF GroupFuncs
<1> HIDE DEF new, R
<1>3. ListHolds(new["array"], Append(P, v))
  <2>1. new["array"] = Append(acc["array"], r)
    <3>1. GroupStep("array", acc["array"], r) = ListStep("array", acc["array"], r)
      BY DEF GroupStep, Lists
    <3>2. QED
      BY <1>1, <1>2, <3>1 DEF ListStep
  <2>2. QED
    BY <2>1, ListGrows DEF AccHolds
<1>4. new["count_star"] = Len(Append(P, v))
  <2>1. GroupStep("count_star", acc["count_star"], r) = acc["count_star"] + 1
    BY DEF GroupStep, Lists, CountStep
  <2>2. PICK U : P \in Seq(U)
    BY ListIs DEF AccHolds
  <2>3. P \in Seq(U \union {v}) /\ v \in U \union {v}
    BY <2>2
  <2>4. Len(Append(P, v)) = Len(P) + 1
    BY <2>3
  <2>5. QED
    BY <1>1, <1>2, <2>1, <2>4 DEF AccHolds
<1>5. CASE v = Null
  <2>1. R = Q
    BY <1>5 DEF R
  <2>2. \A f \in {"population", "sample", "count", "countif", "sum", "avg", "max", "min",
                  "logical_and", "logical_or", "bit_and", "bit_or", "bit_xor"} : new[f] = acc[f]
    BY <1>1, <1>2, <1>5, NullSteps
  <2>3. AccHolds(new, Append(P, v), R)
    BY <1>3, <1>4, <2>1, <2>2 DEF AccHolds
  <2>4. QED
    BY <2>3 DEF new, R
<1>6. CASE v # Null
  <2>1. R = Append(Q, v) /\ v \in IntVs
    BY <1>6 DEF R, IsInt, IntVs
  <2>2. ListHolds(new["population"], R) /\ ListHolds(new["sample"], R)
    <3>1. new["population"] = Append(acc["population"], r)
      BY <1>1, <1>2, <1>6 DEF GroupStep, Lists, SampleStep
    <3>2. new["sample"] = Append(acc["sample"], r)
      BY <1>1, <1>2, <1>6 DEF GroupStep, Lists, SampleStep
    <3>3. QED
      BY <2>1, <3>1, <3>2, ListGrows DEF AccHolds
  <2>3. new["count"] = OrNone(Len(R)) /\ new["countif"] = OrNone(Cardinality(NonZero(R)))
    BY <1>1, <1>2, <2>1, CountsGrow DEF AccHolds
  <2>4. SumHolds(new["sum"], R) /\ AverageHolds(new["avg"], R)
    BY <1>1, <1>2, <2>1, SumsGrow DEF AccHolds
  <2>5. MaxHolds(new["max"], R) /\ MinHolds(new["min"], R)
    BY <1>1, <1>2, <2>1, ExtremesGrow DEF AccHolds
  <2>6. AndHolds(new["logical_and"], R) /\ OrHolds(new["logical_or"], R) /\ BitAndHolds(new["bit_and"], R)
    BY <1>1, <1>2, <2>1, LogicalsGrow DEF AccHolds
  <2>7. BitHolds("bit_or", new["bit_or"], R)
    BY <1>1, <1>2, <2>1, BitsGrow DEF AccHolds
  <2>8. BitHolds("bit_xor", new["bit_xor"], R)
    BY <1>1, <1>2, <2>1, BitsGrow DEF AccHolds
  <2>9. AccHolds(new, Append(P, v), R)
    BY <1>3, <1>4, <2>2, <2>3, <2>4, <2>5, <2>6, <2>7, <2>8 DEF AccHolds
  <2>10. QED
    BY <2>9 DEF new, R
<1>7. QED
  BY <1>5, <1>6

(* Nothing is entered when a group starts.                                 *)
LEMMA AccStart ==
  ASSUME NEW acc, \A f \in GroupFuncs : acc[f] = Start(f)
  PROVE  AccHolds(acc, <<>>, <<>>)
<1>1. /\ acc["array"] = <<>> /\ acc["population"] = <<>> /\ acc["sample"] = <<>> /\ acc["count_star"] = 0
      /\ acc["count"] = Null /\ acc["countif"] = Null /\ acc["sum"] = Null /\ acc["avg"] = Null
      /\ acc["max"] = Null /\ acc["min"] = Null /\ acc["logical_and"] = TRUE /\ acc["logical_or"] = FALSE
      /\ acc["bit_and"] = AllBits /\ acc["bit_or"] = Start("bit_or") /\ acc["bit_xor"] = Start("bit_xor")
  BY DEF GroupFuncs, Start
<1>2. Len(<<>>) = 0 /\ 1..0 = {} /\ DOMAIN <<>> = {}
  OBVIOUS
<1>3. ListHolds(<<>>, <<>>)
  <2>1. <<>> \in Seq({<<>>[i] : i \in DOMAIN <<>>})
    OBVIOUS
  <2>2. Vals(<<>>) = <<>>
    BY DEF Vals
  <2>3. QED
    BY <2>1, <2>2 DEF ListHolds, IsSeq
<1>4. OrNone(Len(<<>>)) = Null
  BY <1>2 DEF OrNone
<1>5. OrNone(Cardinality(NonZero(<<>>))) = Null
  <2>1. NonZero(<<>>) = {}
    BY <1>2 DEF NonZero
  <2>2. QED
    BY <2>1, FS_EmptySet DEF OrNone
<1>6. /\ SumHolds(Null, <<>>) /\ AverageHolds(Null, <<>>) /\ MaxHolds(Null, <<>>) /\ MinHolds(Null, <<>>)
      /\ BitHolds("bit_or", Start("bit_or"), <<>>) /\ BitHolds("bit_xor", Start("bit_xor"), <<>>)
  BY DEF SumHolds, AverageHolds, MaxHolds, MinHolds, BitHolds
<1>7. AndHolds(TRUE, <<>>) /\ OrHolds(FALSE, <<>>) /\ BitAndHolds(AllBits, <<>>)
  BY <1>2 DEF AndHolds, OrHolds, BitAndHolds, AllBits
<1>8. QED
  BY <1>1, <1>2, <1>3, <1>4, <1>5, <1>6, <1>7 DEF AccHolds

---------------------------------------------------------------------------
(* The inductive invariant of a group: g is its state after e rows.        *)
Dist == call.opt.distinct
Ign == call.opt.ignoreNulls

GroupHolds(g, e) ==
    /\ IsGroupState(g)
    /\ CountedVals(e, TRUE, Dist) \in Seq(IntVs)
    /\ Dist => g.seen = SeenVals(e, Ign)
    /\ AccHolds(g.acc, CountedVals(e, Ign, Dist), CountedVals(e, TRUE, Dist))
    /\ g.acc["approx_count_distinct"] = SeenVals(e, TRUE)

GroupIInv ==
    /\ CallInv
    /\ IsGroup => entered \in Nat /\ \A g \in {agg}, e \in {entered} : GroupHolds(g, e)

(* The options of a call and the values of its rows.                       *)
LEMMA GroupCall ==
  ASSUME CallInv, IsGroup
  PROVE  /\ IsNode(call.opt) /\ Ign \in BOOLEAN /\ Dist \in BOOLEAN
         /\ \A j \in DOMAIN rows : IsInt(rows[j].val) /\ IsSeq(rows[j].key)
         /\ DOMAIN rows = 1..Len(rows) /\ Len(rows) \in Nat
<1>1. call \in Calls /\ rows \in Inputs["group"] /\ call.builder = "group"
  BY DEF CallInv, IsGroup
<1>2. IsNode(call.opt) /\ \A j \in DOMAIN rows : IsInt(rows[j].val) /\ IsSeq(rows[j].key)
  BY <1>1, GroupsType
<1>3. Ign \in BOOLEAN /\ Dist \in BOOLEAN
  BY <1>2 DEF IsNode, Ign, Dist
<1>4. "group" \in DOMAIN Inputs
  BY <1>1, InputsType
<1>5. IsSeq(rows)
  BY <1>1, <1>4, InputsType
<1>6. DOMAIN rows = 1..Len(rows) /\ Len(rows) \in Nat
  BY <1>5 DEF IsSeq
<1>7. QED
  BY <1>2, <1>3, <1>6

(* The invariant holds before the first row.                               *)
LEMMA GroupInit ==
  ASSUME Init
  PROVE  GroupIInv
<1>1. CallInv
  BY DEF Init, CallInv
<1>2. ASSUME IsGroup PROVE entered \in Nat /\ \A g \in {agg}, e \in {entered} : GroupHolds(g, e)
  <2>1. agg = NewGroup /\ entered = 0
    BY <1>2 DEF Init, New
  <2>2. Ign \in BOOLEAN /\ Dist \in BOOLEAN
    BY <1>1, <1>2, GroupCall
  <2>3. CountedVals(0, Ign, Dist) = <<>> /\ CountedVals(0, TRUE, Dist) = <<>>
    BY <2>2, CountedValsNone
  <2>4. SeenVals(0, Ign) = {} /\ SeenVals(0, TRUE) = {}
    <3>1. 1..0 = {}
      OBVIOUS
    <3>2. QED
      BY <3>1 DEF SeenVals, SeenIn
  <2> DEFINE acc == [f \in GroupFuncs |-> Start(f)]
  <2>5. agg = [acc |-> acc, seen |-> {}, opt |-> NoOptions, panicked |-> FALSE]
    BY <2>1, Zenon DEF NewGroup
  <2>6. \A f \in GroupFuncs : acc[f] = Start(f)
    OBVIOUS
  <2>7. acc["approx_count_distinct"] = {}
    BY DEF GroupFuncs, Start
  <2> HIDE DEF acc
  <2>8. agg.acc = acc /\ agg.seen = {} /\ IsGroupState(agg)
    BY <2>5 DEF IsGroupState
  <2>9. AccHolds(acc, <<>>, <<>>)
    BY <2>6, AccStart
  <2>10. <<>> \in Seq(IntVs)
    OBVIOUS
  <2>11. GroupHolds(agg, 0)
    BY <2>3, <2>4, <2>7, <2>8, <2>9, <2>10 DEF GroupHolds
  <2>12. QED
    BY <2>1, <2>11
<1>3. QED
  BY <1>1, <1>2 DEF GroupIInv

(* The values that were seen, one row further.                             *)
LEMMA SeenGrows ==
  ASSUME NEW e \in Nat, NEW drop \in BOOLEAN
  PROVE  SeenVals(e + 1, drop) = IF drop /\ rows[e + 1].val = Null THEN SeenVals(e, drop)
                                 ELSE SeenVals(e, drop) \union {rows[e + 1].val}
<1>1. \A j : j \in 1..(e + 1) <=> j \in 1..e \/ j = e + 1
  OBVIOUS
<1>2. QED
  BY <1>1 DEF SeenVals, SeenIn

(* A value that was seen counts neither way; any other is taken.           *)
LEMMA GroupRow ==
  ASSUME CallInv, IsGroup, NEW g, NEW e \in Nat, e < Len(rows), GroupHolds(g, e)
  PROVE  GroupHolds(AggregatorStep(g, Arguments(call.opt, rows[e + 1])), e + 1)
<1> DEFINE m == e + 1
           row == rows[m]
           v == row.val
           P == CountedVals(e, Ign, Dist)
           Q == CountedVals(e, TRUE, Dist)
           s == AggregatorStep(g, Arguments(call.opt, row))
<1>1. /\ IsNode(call.opt) /\ Ign \in BOOLEAN /\ Dist \in BOOLEAN
      /\ IsInt(v) /\ IsSeq(row.key) /\ m - 1 = e
  BY GroupCall
<1>2. /\ IsGroupState(g)
      /\ Q \in Seq(IntVs) /\ (Dist => g.seen = SeenVals(e, Ign)) /\ AccHolds(g.acc, P, Q)
      /\ g.acc["approx_count_distinct"] = SeenVals(e, TRUE)
  BY DEF GroupHolds
<1>3. /\ IsGroupState(s)
      /\ Passed(g, call.opt, v) => s.acc = g.acc /\ s.seen = g.seen
      /\ ~ Passed(g, call.opt, v) => Taken(s, g, call.opt, v)
  BY <1>1, <1>2, GroupSteps
<1>4. Passed(g, call.opt, v) <=> (Ign /\ v = Null) \/ (Dist /\ v \in SeenVals(e, Ign))
  BY <1>2 DEF Passed, Dist, Ign
<1>5. CountedVals(m, Ign, Dist) = IF Counts(m, Ign, Dist) THEN Append(P, v) ELSE P
  BY <1>1, CountedValsStep
<1>6. CountedVals(m, TRUE, Dist) = IF Counts(m, TRUE, Dist) THEN Append(Q, v) ELSE Q
  BY <1>1, CountedValsStep
<1>7. Counts(m, Ign, Dist) <=> ~ Passed(g, call.opt, v)
  BY <1>1, <1>4 DEF Counts, CountsAfter, SeenVals
<1>8. v # Null => (v \in SeenVals(e, TRUE) <=> v \in SeenVals(e, Ign))
  BY DEF SeenVals, SeenIn
<1>9. Counts(m, TRUE, Dist) <=> v # Null /\ ~ Passed(g, call.opt, v)
  BY <1>1, <1>4, <1>8 DEF Counts, CountsAfter, SeenVals
<1>10. \A drop \in BOOLEAN : SeenVals(m, drop) = IF drop /\ v = Null THEN SeenVals(e, drop) ELSE SeenVals(e, drop) \union {v}
  BY SeenGrows
<1> HIDE DEF m, v, P, Q, s
<1>11. CASE Passed(g, call.opt, v)
  <2>1. s.acc = g.acc /\ s.seen = g.seen /\ CountedVals(m, Ign, Dist) = P /\ CountedVals(m, TRUE, Dist) = Q
    BY <1>3, <1>5, <1>6, <1>7, <1>9, <1>11
  <2>2. Dist => SeenVals(m, Ign) = SeenVals(e, Ign)
    BY <1>1, <1>4, <1>10, <1>11
  <2>3. SeenVals(m, TRUE) = SeenVals(e, TRUE)
    BY <1>1, <1>4, <1>8, <1>10, <1>11
  <2>4. GroupHolds(s, m)
    BY <1>2, <1>3, <2>1, <2>2, <2>3 DEF GroupHolds
  <2>5. QED
    BY <2>4 DEF s, m
<1>12. CASE ~ Passed(g, call.opt, v)
  <2>1. PICK r : r.val = v /\ s.acc = [f \in GroupFuncs |-> GroupStep(f, g.acc[f], r)]
    BY <1>3, <1>12 DEF Taken
  <2>2. s.seen = IF Dist THEN g.seen \union {v} ELSE g.seen
    BY <1>3, <1>12 DEF Taken, Dist
  <2>3. CountedVals(m, Ign, Dist) = Append(P, v) /\ CountedVals(m, TRUE, Dist) = IF v = Null THEN Q ELSE Append(Q, v)
    BY <1>5, <1>6, <1>7, <1>9, <1>12
  <2>4. AccHolds(s.acc, CountedVals(m, Ign, Dist), CountedVals(m, TRUE, Dist))
    <3>1. IsInt(r.val)
      BY <1>1, <2>1
    <3>2. AccHolds([f \in GroupFuncs |-> GroupStep(f, g.acc[f], r)], Append(P, r.val),
                    IF r.val = Null THEN Q ELSE Append(Q, r.val))
      BY <1>2, <3>1, AccStep
    <3>3. QED
      BY <2>1, <2>3, <3>2
  <2>5. CountedVals(m, TRUE, Dist) \in Seq(IntVs)
    <3>1. v # Null => v \in IntVs
      BY <1>1 DEF IsInt, IntVs
    <3>2. CASE v = Null
      BY <1>2, <2>3, <3>2
    <3>3. CASE v # Null
      <4>1. Append(Q, v) \in Seq(IntVs)
        BY <1>2, <3>1, <3>3
      <4>2. QED
        BY <2>3, <3>3, <4>1
    <3>4. QED
      BY <3>2, <3>3
  <2>6. Dist => s.seen = SeenVals(m, Ign)
    BY <1>1, <1>2, <1>4, <1>10, <1>12, <2>2
  <2>7. s.acc["approx_count_distinct"] = SeenVals(m, TRUE)
    <3>1. s.acc["approx_count_distinct"] = DistinctStep(g.acc["approx_count_distinct"], r.val)
      BY <2>1 DEF GroupFuncs, GroupStep, Lists
    <3>2. QED
      BY <1>2, <1>10, <2>1, <3>1 DEF DistinctStep
  <2>8. GroupHolds(s, m)
    BY <1>3, <2>4, <2>5, <2>6, <2>7 DEF GroupHolds
  <2>9. QED
    BY <2>8 DEF s, m
<1>13. QED
  BY <1>11, <1>12

(* The predicate speaks of the call and the rows, which never change.      *)
LEMMA GroupStays ==
  ASSUME UNCHANGED <<call, rows>>, NEW CONSTANT g, NEW CONSTANT e
  PROVE  GroupHolds(g, e)' <=> GroupHolds(g, e)
BY DEF GroupHolds, IsGroupState, AccHolds, CountedVals, ValsAt, Counted, Ascending, CountedRows, SeenVals, SeenIn, Dist, Ign

(* Every step keeps the invariant.                                         *)
LEMMA GroupStepHolds ==
  ASSUME GroupIInv, [Next]_vars
  PROVE  GroupIInv'
<1>1. CallInv
  BY DEF GroupIInv
<1>2. UNCHANGED <<call, rows>>
  BY DEF Next, StepGroup, Enter, Leave, Return, Rescan, vars
<1>3. CallInv' /\ (IsGroup' <=> IsGroup)
  BY <1>1, <1>2, SameCall DEF IsGroup
<1>4. ASSUME IsGroup PROVE entered' \in Nat /\ GroupHolds(agg', entered')
  <2>1. entered \in Nat /\ GroupHolds(agg, entered)
    BY <1>4 DEF GroupIInv
  <2>2. CASE StepGroup
    <3>1. entered < Len(rows) /\ entered' = entered + 1 /\ agg' = AggregatorStep(agg, Arguments(call.opt, rows[entered + 1]))
      BY <2>2 DEF StepGroup
    <3>2. GroupHolds(AggregatorStep(agg, Arguments(call.opt, rows[entered + 1])), entered + 1)
      BY <1>1, <1>4, <2>1, <3>1, GroupRow
    <3>3. QED
      BY <2>1, <3>1, <3>2
  <2>3. CASE UNCHANGED vars
    BY <2>1, <2>3 DEF vars
  <2>4. QED
    BY <1>4, <2>2, <2>3 DEF Next
<1>5. ASSUME IsGroup PROVE \A g \in {agg'}, e \in {entered'} : GroupHolds(g, e)'
  <2>1. TAKE g \in {agg'}, e \in {entered'}
  <2>2. GroupHolds(g, e)
    BY <1>4, <1>5
  <2>3. QED
    BY <1>2, <2>2, GroupStays
<1>6. QED
  BY <1>3, <1>4, <1>5 DEF GroupIInv

(* The positions of the rows that count and their values.                  *)
LEMMA PickedIs ==
  ASSUME NEW e \in Nat, NEW drop \in BOOLEAN, NEW dist \in BOOLEAN
  PROVE  LET js == Counted(1..e, drop, dist)
             V == CountedVals(e, drop, dist)
         IN  /\ V = ValsAt(js) /\ Len(V) = Len(js) /\ Len(js) \in Nat
             /\ DOMAIN js = 1..Len(js) /\ DOMAIN V = 1..Len(js)
             /\ \A k \in 1..Len(js) : V[k] = rows[js[k]].val
             /\ js = <<>> <=> Len(js) = 0
             /\ V = <<>> <=> js = <<>>
<1> DEFINE S == CountedRows(1..e, drop, dist)
           js == Ascending(S)
           n == Len(js)
           V == ValsAt(js)
           U == {V[k] : k \in 1..n}
<1>1. S \in SUBSET (1..e)
  BY CountedMore
<1>2. Cardinality(S) \in Nat
  <2>1. e + 0 \in Nat /\ 1 \in Int /\ e \in Int
    OBVIOUS
  <2>2. IsFiniteSet(1..e)
    BY <2>1, FS_Interval
  <2>3. QED
    BY <1>1, <2>2, FS_Subset, FS_CardinalityType
<1> HIDE DEF S
<1>3. js \in Seq({js[i] : i \in 1..Cardinality(S)}) /\ DOMAIN js = 1..n /\ n \in Nat
  BY <1>2, CountedSeq
<1> HIDE DEF js
<1>4. js = <<>> <=> n = 0
  BY <1>3
<1> HIDE DEF n
<1>5. V = [k \in 1..n |-> rows[js[k]].val]
  BY <1>3 DEF ValsAt
<1>6. DOMAIN V = 1..n /\ \A k \in 1..n : V[k] = rows[js[k]].val
  BY <1>5
<1>7. V \in [1..n -> U]
  BY <1>5
<1> HIDE DEF U, V
<1>8. V \in Seq(U) /\ Len(V) = n
  BY <1>3, <1>6, <1>7
<1>9. V = <<>> <=> js = <<>>
  BY <1>4, <1>8
<1>10. js = Counted(1..e, drop, dist) /\ V = CountedVals(e, drop, dist)
  BY DEF js, V, S, Counted, CountedVals
<1>11. QED
  BY <1>3, <1>4, <1>6, <1>8, <1>9, <1>10 DEF n, V

(* The results, from what the functions keep.                              *)
LEMMA ExtremesMean ==
  ASSUME NEW js, NEW a, NEW V \in Seq(IntVs), V # <<>>,
         DOMAIN js = 1..Len(V), \A k \in 1..Len(V) : V[k] = rows[js[k]].val
  PROVE  /\ MaxHolds(a, V) => a = Extreme(js, LAMBDA x, y : x > y)
         /\ MinHolds(a, V) => a = Extreme(js, LAMBDA x, y : x < y)
<1> DEFINE W == {rows[js[k]].val : k \in DOMAIN js}
<1>1. W = {V[k] : k \in 1..Len(V)}
  OBVIOUS
<1>2. \A k \in 1..Len(V) : Num(V[k]) \in Int /\ V[k] = IntV(Num(V[k]))
  <2>1. \A k \in 1..Len(V) : V[k] \in IntVs
    OBVIOUS
  <2>2. QED
    BY <2>1, IntOfV
<1>3. Extreme(js, LAMBDA x, y : x > y) = CHOOSE v \in W : \A k \in DOMAIN js : ~ (Num(rows[js[k]].val) > Num(v))
  BY Zenon DEF Extreme
<1>4. Extreme(js, LAMBDA x, y : x < y) = CHOOSE v \in W : \A k \in DOMAIN js : ~ (Num(rows[js[k]].val) < Num(v))
  BY Zenon DEF Extreme
<1> HIDE DEF W
<1>5. ASSUME MaxHolds(a, V) PROVE a = Extreme(js, LAMBDA x, y : x > y)
  <2>1. (\E k \in 1..Len(V) : a = V[k]) /\ \A k \in 1..Len(V) : Num(V[k]) <= Num(a)
    BY <1>5 DEF MaxHolds
  <2>2. a \in W /\ Num(a) \in Int
    BY <1>1, <1>2, <2>1
  <2>3. \A k \in DOMAIN js : ~ (Num(rows[js[k]].val) > Num(a))
    BY <1>2, <2>1, <2>2
  <2>4. ASSUME NEW v \in W, \A k \in DOMAIN js : ~ (Num(rows[js[k]].val) > Num(v))
        PROVE  v = a
    <3>1. PICK k \in 1..Len(V) : v = V[k]
      BY <1>1
    <3>2. PICK i \in 1..Len(V) : a = V[i]
      BY <2>1
    <3>3. ~ (Num(V[i]) > Num(V[k])) /\ Num(V[k]) <= Num(V[i])
      BY <2>1, <2>4, <3>1, <3>2
    <3>4. Num(V[i]) = Num(V[k])
      BY <1>2, <3>3
    <3>5. QED
      BY <1>2, <3>1, <3>2, <3>4
  <2>5. QED
    BY <1>3, <2>2, <2>3, <2>4
<1>6. ASSUME MinHolds(a, V) PROVE a = Extreme(js, LAMBDA x, y : x < y)
  <2>1. (\E k \in 1..Len(V) : a = V[k]) /\ \A k \in 1..Len(V) : Num(V[k]) >= Num(a)
    BY <1>6 DEF MinHolds
  <2>2. a \in W /\ Num(a) \in Int
    BY <1>1, <1>2, <2>1
  <2>3. \A k \in DOMAIN js : ~ (Num(rows[js[k]].val) < Num(a))
    BY <1>2, <2>1, <2>2
  <2>4. ASSUME NEW v \in W, \A k \in DOMAIN js : ~ (Num(rows[js[k]].val) < Num(v))
        PROVE  v = a
    <3>1. PICK k \in 1..Len(V) : v = V[k]
      BY <1>1
    <3>2. PICK i \in 1..Len(V) : a = V[i]
      BY <2>1
    <3>3. ~ (Num(V[i]) < Num(V[k])) /\ Num(V[k]) >= Num(V[i])
      BY <2>1, <2>4, <3>1, <3>2
    <3>4. Num(V[i]) = Num(V[k])
      BY <1>2, <3>3
    <3>5. QED
      BY <1>2, <3>1, <3>2, <3>4
  <2>5. QED
    BY <1>4, <2>2, <2>3, <2>4
<1>7. QED
  BY <1>5, <1>6

(* The total of the rows at the positions is the sum of their values.      *)
LEMMA TotalIs ==
  ASSUME NEW js, NEW V \in Seq(IntVs), Len(V) = Len(js), \A k \in 1..Len(V) : V[k] = rows[js[k]].val
  PROVE  Total(js) = SumOf(V)
<1> DEFINE n == Len(V)
           Sums(s) == s = [k \in 0..n |-> IF k = 0 THEN 0 ELSE s[k - 1] + Num(rows[js[k]].val)]
           sum == CHOOSE s : Sums(s)
<1>1. PICK h : Steps("sum", h, V) /\ SumOf(V) = h[n]
  BY SumSteps
<1>2. n \in Nat
  OBVIOUS
<1>3. Total(js) = sum[n]
  BY Zenon DEF Total
<1>4. h[0] = 0 /\ \A k \in 1..n : h[k] = h[k - 1] + Num(rows[js[k]].val)
  BY <1>1 DEF Steps, FoldBase, FoldStep, AddValue
<1> DEFINE g == [k \in 0..n |-> h[k]]
<1>5. Sums(g)
  <2>1. \A k \in 0..n : k = 0 \/ (k \in 1..n /\ k - 1 \in 0..n)
    BY <1>2
  <2> HIDE DEF n
  <2>2. \A k \in 0..n : h[k] = IF k = 0 THEN 0 ELSE g[k - 1] + Num(rows[js[k]].val)
    BY <1>4, <2>1
  <2>3. QED
    BY <2>2
<1> HIDE DEF Sums
<1>6. Sums(sum)
  BY <1>5
<1> HIDE DEF sum, g
<1>7. /\ sum[0] = 0
      /\ \A k \in 1..n : sum[k] = sum[k - 1] + Num(rows[js[k]].val)
  <2>1. 0 \in 0..n /\ \A k \in 1..n : k \in 0..n /\ k # 0
    BY <1>2
  <2> HIDE DEF n
  <2>2. QED
    BY <1>6, <2>1 DEF Sums
<1>8. Steps("sum", sum, V)
  <2>1. \A k \in 1..n : V[k] = rows[js[k]].val
    OBVIOUS
  <2>2. QED
    BY <1>7, <2>1 DEF Steps, FoldBase, FoldStep, AddValue
<1>9. sum[n] = h[n]
  <2>1. n \in Nat /\ n <= Len(V)
    BY <1>2
  <2> HIDE DEF n
  <2>2. QED
    BY <1>1, <1>8, <2>1, StepsAgree
<1>10. QED
  BY <1>1, <1>3, <1>9

(* MarkReached, of the positions, is what BitHolds excludes of the values. *)
LEMMA MarksAre ==
  ASSUME NEW f \in {"bit_or", "bit_xor"}, NEW js, NEW V, NEW n \in Nat, Len(js) = n, Len(V) = n,
         \A k \in 1..n : V[k] = rows[js[k]].val
  PROVE  ~ MarkReached(f, js) => NoMark(f, V)
<1> DEFINE Bit(k, b) == b \in BitsOf(rows[js[k]].val)
           Partial(m) == {b \in Bits : LET ones == {k \in 1..m : Bit(k, b)}
                                       IN IF f = "bit_or" THEN ones # {} ELSE Cardinality(ones) % 2 = 1}
<1>1. ASSUME NEW m \in 1..(n - 1) PROVE Partial(m) = BitsUpTo(f, V, m)
  <2>1. \A k \in 1..m : k \in 1..n
    OBVIOUS
  <2>2. \A b \in Bits : {k \in 1..m : Bit(k, b)} = BitOnes(V, m, b)
    BY <2>1 DEF BitOnes
  <2>3. Partial(m) = {b \in Bits : IF f = "bit_or" THEN {k \in 1..m : Bit(k, b)} # {}
                                   ELSE Cardinality({k \in 1..m : Bit(k, b)}) % 2 = 1}
    BY Zenon
  <2> HIDE DEF Partial, Bit
  <2>4. QED
    BY <2>2, <2>3 DEF BitsUpTo
<1>2. MarkReached(f, js) <=> \E m \in 1..(n - 1) : Partial(m) = Start(f)
  BY Zenon DEF MarkReached
<1> HIDE DEF Partial
<1>3. QED
  BY <1>1, <1>2 DEF NoMark

(* The invariant gives the results of GroupResults.                        *)
LEMMA GroupImplied ==
  ASSUME GroupIInv
  PROVE  GroupResults
<1> SUFFICES ASSUME IsGroup PROVE GroupResults
  BY DEF GroupResults
<1> DEFINE e == entered
           S == 1..entered
           js == Counted(S, call.opt.ignoreNulls, call.opt.distinct)
           nn == Counted(S, TRUE, call.opt.distinct)
           P == CountedVals(e, Ign, Dist)
           Q == CountedVals(e, TRUE, Dist)
           acc == agg.acc
           o == agg.opt
<1>1. /\ CallInv /\ entered \in Nat /\ Q \in Seq(IntVs) /\ AccHolds(acc, P, Q)
      /\ acc["approx_count_distinct"] = SeenVals(e, TRUE)
  BY DEF GroupIInv, GroupHolds
<1>2. Ign \in BOOLEAN /\ Dist \in BOOLEAN
  BY <1>1, GroupCall
<1>3. /\ P = ValsAt(js) /\ Len(P) = Len(js) /\ Len(js) \in Nat
      /\ DOMAIN js = 1..Len(js)
  BY <1>1, <1>2, PickedIs DEF Ign, Dist
<1>4. /\ Q = ValsAt(nn) /\ Len(Q) = Len(nn) /\ Len(nn) \in Nat
      /\ DOMAIN nn = 1..Len(nn) /\ DOMAIN Q = 1..Len(nn)
      /\ \A k \in 1..Len(nn) : Q[k] = rows[nn[k]].val
      /\ nn = <<>> <=> Len(nn) = 0
      /\ Q = <<>> <=> nn = <<>>
  BY <1>1, <1>2, PickedIs DEF Ign, Dist
<1> DEFINE OrNull(cond, r) == IF cond THEN Null ELSE r
<1>5. /\ GroupMeaning("array", S) = Result("array", ValsAt(js))
      /\ GroupMeaning("sum", S) = OrNull(nn = <<>>, IntV(Total(nn)))
      /\ GroupMeaning("avg", S) = OrNull(nn = <<>>, Result("ratio", <<Total(nn), Len(nn)>>))
      /\ GroupMeaning("count", S) = IntV(Len(nn))
      /\ GroupMeaning("count_star", S) = IntV(Len(js))
      /\ GroupMeaning("countif", S) = IntV(Cardinality({k \in DOMAIN nn : Num(rows[nn[k]].val) # 0}))
  BY DEF GroupMeaning
<1>6. /\ GroupMeaning("max", S) = OrNull(nn = <<>>, Extreme(nn, LAMBDA a, b : a > b))
      /\ GroupMeaning("min", S) = OrNull(nn = <<>>, Extreme(nn, LAMBDA a, b : a < b))
  BY DEF GroupMeaning
<1>7. /\ GroupMeaning("logical_and", S) = Result("bool", \A k \in DOMAIN nn : Num(rows[nn[k]].val) # 0)
      /\ GroupMeaning("logical_or", S) = Result("bool", \E k \in DOMAIN nn : Num(rows[nn[k]].val) # 0)
  BY DEF GroupMeaning
<1>8. /\ GroupMeaning("bit_and", S) = Result("bits", {b \in Bits : \A k \in DOMAIN nn : b \in BitsOf(rows[nn[k]].val)})
      /\ GroupMeaning("bit_or", S) = Result("bits", {b \in Bits : \E k \in DOMAIN nn : b \in BitsOf(rows[nn[k]].val)})
      /\ GroupMeaning("bit_xor", S) = Result("bits", {b \in Bits : Cardinality({k \in DOMAIN nn : b \in BitsOf(rows[nn[k]].val)}) % 2 = 1})
  BY DEF GroupMeaning
<1>9. /\ GroupMeaning("population", S) = OrNull(nn = <<>>, Spread(ValsAt(nn), Len(nn)))
      /\ GroupMeaning("sample", S) = OrNull(Len(nn) < 2, Spread(ValsAt(nn), Len(nn) - 1))
      /\ GroupMeaning("approx_count_distinct", S) = IntV(Cardinality({rows[j].val : j \in S} \ {Null}))
  BY DEF GroupMeaning
<1>9a. Total(nn) = SumOf(Q)
  BY <1>1, <1>4, TotalIs
<1> HIDE DEF js, nn, P, Q, acc, o, e
<1>10. GroupDone("array", acc["array"], o) = GroupMeaning("array", S)
  <2>1. GroupDone("array", acc["array"], o) = Result("array", Vals(acc["array"]))
    BY DEF GroupDone, Lists, ListsDone
  <2>2. QED
    BY <1>1, <1>3, <1>5, <2>1 DEF AccHolds, ListHolds
<1>11. GroupDone("sum", acc["sum"], o) = GroupMeaning("sum", S)
  <2>1. GroupDone("sum", acc["sum"], o) = acc["sum"]
    BY DEF GroupDone, Lists
  <2>2. QED
    BY <1>1, <1>4, <1>5, <1>9a, <2>1 DEF AccHolds, SumHolds
<1>12. GroupDone("avg", acc["avg"], o) = GroupMeaning("avg", S)
  <2>1. GroupDone("avg", acc["avg"], o) = IF acc["avg"] = Null THEN Null ELSE Result("ratio", acc["avg"])
    BY DEF GroupDone, Lists
  <2>2. acc["avg"] = IF nn = <<>> THEN Null ELSE <<Total(nn), Len(nn)>>
    BY <1>1, <1>4, <1>9a DEF AccHolds, AverageHolds
  <2>3. <<Total(nn), Len(nn)>> # Null
    BY DEF Null
  <2>4. QED
    BY <1>5, <2>1, <2>2, <2>3
<1>13. ASSUME NEW n \in Nat
       PROVE  (IF OrNone(n) = Null THEN IntV(0) ELSE OrNone(n)) = IntV(n)
  BY DEF OrNone, IntV, Result, Null
<1>14. GroupDone("count", acc["count"], o) = GroupMeaning("count", S)
  <2>1. GroupDone("count", acc["count"], o) = IF acc["count"] = Null THEN IntV(0) ELSE acc["count"]
    BY DEF GroupDone, Lists
  <2>2. acc["count"] = OrNone(Len(nn))
    BY <1>1, <1>4 DEF AccHolds
  <2>3. QED
    BY <1>4, <1>5, <1>13, <2>1, <2>2
<1>15. GroupDone("count_star", acc["count_star"], o) = GroupMeaning("count_star", S)
  <2>1. GroupDone("count_star", acc["count_star"], o) = IntV(acc["count_star"])
    BY DEF GroupDone, Lists
  <2>2. QED
    BY <1>1, <1>3, <1>5, <2>1 DEF AccHolds
<1>16. GroupDone("countif", acc["countif"], o) = GroupMeaning("countif", S)
  <2>1. GroupDone("countif", acc["countif"], o) = IF acc["countif"] = Null THEN IntV(0) ELSE acc["countif"]
    BY DEF GroupDone, Lists
  <2>2. acc["countif"] = OrNone(Cardinality(NonZero(Q)))
    BY <1>1 DEF AccHolds
  <2>3. NonZero(Q) = {k \in DOMAIN nn : Num(rows[nn[k]].val) # 0}
    BY <1>4 DEF NonZero
  <2>4. Cardinality(NonZero(Q)) \in Nat
    <3>1. NonZero(Q) \subseteq 1..Len(nn)
      BY <1>4 DEF NonZero
    <3>2. Len(nn) + 0 \in Nat /\ 1 \in Int /\ Len(nn) \in Int
      BY <1>4
    <3>3. IsFiniteSet(1..Len(nn))
      BY <3>2, FS_Interval
    <3>4. QED
      BY <3>1, <3>3, FS_Subset, FS_CardinalityType
  <2>5. QED
    BY <1>5, <1>13, <2>1, <2>2, <2>3, <2>4
<1>17. /\ GroupDone("max", acc["max"], o) = GroupMeaning("max", S)
       /\ GroupDone("min", acc["min"], o) = GroupMeaning("min", S)
  <2>1. GroupDone("max", acc["max"], o) = acc["max"] /\ GroupDone("min", acc["min"], o) = acc["min"]
    BY DEF GroupDone, Lists
  <2>2. MaxHolds(acc["max"], Q) /\ MinHolds(acc["min"], Q)
    BY <1>1 DEF AccHolds
  <2>3. CASE nn = <<>>
    BY <1>4, <1>6, <2>1, <2>2, <2>3 DEF MaxHolds, MinHolds
  <2>4. CASE nn # <<>>
    <3>1. /\ acc["max"] = Extreme(nn, LAMBDA a, b : a > b)
          /\ acc["min"] = Extreme(nn, LAMBDA a, b : a < b)
      BY <1>1, <1>4, <2>2, <2>4, ExtremesMean
    <3>2. QED
      BY <1>6, <2>1, <2>4, <3>1
  <2>5. QED
    BY <2>3, <2>4
<1>18. /\ GroupDone("logical_and", acc["logical_and"], o) = GroupMeaning("logical_and", S)
       /\ GroupDone("logical_or", acc["logical_or"], o) = GroupMeaning("logical_or", S)
  <2>1. /\ GroupDone("logical_and", acc["logical_and"], o) = Result("bool", acc["logical_and"])
        /\ GroupDone("logical_or", acc["logical_or"], o) = Result("bool", acc["logical_or"])
    BY DEF GroupDone, Lists
  <2>2. acc["logical_and"] = (\A k \in DOMAIN nn : Num(rows[nn[k]].val) # 0)
    BY <1>1, <1>4 DEF AccHolds, AndHolds
  <2>3. acc["logical_or"] = (\E k \in DOMAIN nn : Num(rows[nn[k]].val) # 0)
    BY <1>1, <1>4 DEF AccHolds, OrHolds
  <2>4. QED
    BY <1>7, <2>1, <2>2, <2>3
<1>19. GroupDone("bit_and", acc["bit_and"], o) = GroupMeaning("bit_and", S)
  <2>1. GroupDone("bit_and", acc["bit_and"], o) = Result("bits", acc["bit_and"])
    BY DEF GroupDone, Lists
  <2>2. acc["bit_and"] = {b \in Bits : \A k \in DOMAIN nn : b \in BitsOf(rows[nn[k]].val)}
    BY <1>1, <1>4 DEF AccHolds, BitAndHolds
  <2>3. QED
    BY <1>8, <2>1, <2>2
<1>20. ASSUME NEW f \in {"bit_or", "bit_xor"}, ~ (nn = <<>> \/ MarkReached(f, nn))
       PROVE  GroupDone(f, acc[f], o) = GroupMeaning(f, S)
  <2>1. GroupDone(f, acc[f], o) = Result("bits", acc[f])
    BY DEF GroupDone, Lists
  <2>2. NoMark(f, Q)
    BY <1>4, <1>20, MarksAre
  <2>3. BitHolds(f, acc[f], Q)
    BY <1>1 DEF AccHolds
  <2>4. acc[f] = BitsUpTo(f, Q, Len(nn))
    BY <1>4, <1>20, <2>2, <2>3 DEF BitHolds
  <2>5. \A b : BitOnes(Q, Len(nn), b) = {k \in DOMAIN nn : b \in BitsOf(rows[nn[k]].val)}
    BY <1>4 DEF BitOnes
  <2>6. CASE f = "bit_or"
    <3>1. BitsUpTo(f, Q, Len(nn)) = {b \in Bits : BitOnes(Q, Len(nn), b) # {}}
      BY <2>6 DEF BitsUpTo
    <3>2. \A b : BitOnes(Q, Len(nn), b) # {} <=> \E k \in DOMAIN nn : b \in BitsOf(rows[nn[k]].val)
      BY <2>5
    <3>3. acc[f] = {b \in Bits : \E k \in DOMAIN nn : b \in BitsOf(rows[nn[k]].val)}
      BY <2>4, <3>1, <3>2
    <3>4. QED
      BY <1>8, <2>1, <2>6, <3>3
  <2>7. CASE f = "bit_xor"
    <3>1. BitsUpTo(f, Q, Len(nn)) = {b \in Bits : Cardinality(BitOnes(Q, Len(nn), b)) % 2 = 1}
      BY <2>7 DEF BitsUpTo
    <3>2. acc[f] = {b \in Bits : Cardinality({k \in DOMAIN nn : b \in BitsOf(rows[nn[k]].val)}) % 2 = 1}
      BY <2>4, <2>5, <3>1
    <3>3. QED
      BY <1>8, <2>1, <2>7, <3>2
  <2>8. QED
    BY <2>6, <2>7
<1>21. /\ GroupDone("population", acc["population"], o) = GroupMeaning("population", S)
       /\ Len(nn) # 1 => GroupDone("sample", acc["sample"], o) = GroupMeaning("sample", S)
  <2>1. ASSUME NEW a, ListHolds(a, Q)
        PROVE  Vals(a) = ValsAt(nn) /\ Len(a) = Len(nn) /\ (a = <<>> <=> nn = <<>>)
    <3>1. Len(a) = Len(nn)
      BY <1>4, <2>1, ListIs
    <3>2. IsSeq(a)
      BY <2>1 DEF ListHolds
    <3>3. a = <<>> <=> Len(a) = 0
      BY <3>2 DEF IsSeq
    <3>4. QED
      BY <1>4, <2>1, <3>1, <3>3 DEF ListHolds
  <2>2. ListHolds(acc["population"], Q) /\ ListHolds(acc["sample"], Q)
    BY <1>1 DEF AccHolds
  <2>3. GroupDone("population", acc["population"], o) = IF nn = <<>> THEN Null ELSE Spread(ValsAt(nn), Len(nn))
    BY <2>1, <2>2 DEF GroupDone, Lists, ListsDone
  <2>4. GroupDone("sample", acc["sample"], o) = IF nn = <<>> THEN Null ELSE Spread(ValsAt(nn), Len(nn) - 1)
    BY <2>1, <2>2 DEF GroupDone, Lists, ListsDone
  <2>5. Len(nn) # 1 => (nn = <<>> <=> Len(nn) < 2)
    BY <1>4
  <2>6. QED
    BY <1>9, <2>3, <2>4, <2>5
<1>22. GroupDone("approx_count_distinct", acc["approx_count_distinct"], o) = GroupMeaning("approx_count_distinct", S)
  <2>1. GroupDone("approx_count_distinct", acc["approx_count_distinct"], o) = IntV(Cardinality(acc["approx_count_distinct"]))
    BY DEF GroupDone, Lists
  <2>2. SeenVals(e, TRUE) = {rows[j].val : j \in S} \ {Null}
    BY DEF SeenVals, SeenIn, e
  <2>3. QED
    BY <1>1, <1>9, <2>1, <2>2
<1> DEFINE others == {"any_value", "array_agg", "array_concat_agg", "string_agg", "approx_quantiles", "approx_top_count"}
<1>23. ASSUME NEW f \in GroupFuncs \ others
       PROVE  \/ f \in {"bit_or", "bit_xor"} /\ (nn = <<>> \/ MarkReached(f, nn))
              \/ f = "sample" /\ Len(nn) = 1
              \/ GroupDone(f, acc[f], o) = GroupMeaning(f, S)
  <2>1. CASE f \in {"bit_or", "bit_xor"}
    BY <1>20, <2>1
  <2>2. CASE f \notin {"bit_or", "bit_xor"}
    <3>1. f \in {"array", "avg", "bit_and", "count", "count_star", "countif", "logical_and", "logical_or",
                 "max", "min", "sum", "population", "sample", "approx_count_distinct"}
      BY <2>2 DEF GroupFuncs
    <3> HIDE DEF S
    <3>2. QED
      BY <1>10, <1>11, <1>12, <1>14, <1>15, <1>16, <1>17, <1>18, <1>19, <1>21, <1>22, <3>1
  <2>3. QED
    BY <2>1, <2>2
<1>24. \A f \in GroupFuncs \ others : GroupAnswer(f, agg) = GroupDone(f, acc[f], o)
  BY Zenon DEF GroupAnswer, TwoArgFuncs, acc, o
<1>25. QED
  BY <1>23, <1>24 DEF GroupResults, nn

(* The result of a group is that of all the rows that count, for groups of *)
(* any length and any of the options: DISTINCT and IGNORE NULLS pass over  *)
(* what they should, and no row is missed or counted twice, except where   *)
(* BIT_OR or BIT_XOR takes a partial result for "no value yet" (the Step   *)
(* and Done methods of function_aggregate.go).                             *)
THEOREM GroupsMean == Spec => []GroupResults
<1>1. Init => GroupIInv
  BY GroupInit
<1>2. GroupIInv /\ [Next]_vars => GroupIInv'
  BY GroupStepHolds
<1>3. GroupIInv => GroupResults
  BY GroupImplied
<1>4. QED
  BY <1>1, <1>2, <1>3, PTL DEF Spec

---------------------------------------------------------------------------
(* The functions of a frame's values.  The four folds of the values of a   *)
(* window that are not treated above, named by their kind.                 *)
Folds4 == {"true", "distinct", "max", "min"}
Folded(kind, vs) ==
    CASE kind = "true" -> CountTrue(vs) [] kind = "distinct" -> Distinct(vs)
      [] kind = "max" -> Largest(vs) [] kind = "min" -> Smallest(vs)

LEMMA FoldedTable ==
  ASSUME NEW S, NEW vs \in Seq(S), NEW kind \in Folds4
  PROVE  \E t : TableOf(kind, t, vs, DOMAIN vs) /\ Folded(kind, vs) = t[DOMAIN vs]
<1>1. DOMAIN vs = 1..Len(vs) /\ Len(vs) \in Nat
  OBVIOUS
<1>2. PICK g : TableOf(kind, g, vs, DOMAIN vs)
  BY <1>1, TableExists, Zenon
<1>3. CASE kind = "true"
  <2> DEFINE IsTable(t) == t = [s \in SUBSET DOMAIN vs |-> IF s = {} THEN 0 ELSE AddTrue(t[s \ {Max(s)}], vs[Max(s)])]
             table == CHOOSE t : IsTable(t)
  <2>1. CountTrue(vs) = table[DOMAIN vs]
    BY Zenon DEF CountTrue, FoldLeft, MapThenFoldSet
  <2>2. \A t : TableOf(kind, t, vs, DOMAIN vs) <=> IsTable(t)
    BY <1>3 DEF TableOf, FoldBase, FoldStep
  <2> HIDE DEF IsTable
  <2>3. IsTable(table)
    BY <1>2, <2>2
  <2> HIDE DEF table
  <2>4. QED
    BY <1>3, <2>1, <2>2, <2>3 DEF Folded
<1>4. CASE kind = "distinct"
  <2> DEFINE IsTable(t) == t = [s \in SUBSET DOMAIN vs |-> IF s = {} THEN <<>> ELSE KeepNew(t[s \ {Max(s)}], vs[Max(s)])]
             table == CHOOSE t : IsTable(t)
  <2>1. Distinct(vs) = table[DOMAIN vs]
    BY Zenon DEF Distinct, FoldLeft, MapThenFoldSet
  <2>2. \A t : TableOf(kind, t, vs, DOMAIN vs) <=> IsTable(t)
    BY <1>4 DEF TableOf, FoldBase, FoldStep
  <2> HIDE DEF IsTable
  <2>3. IsTable(table)
    BY <1>2, <2>2
  <2> HIDE DEF table
  <2>4. QED
    BY <1>4, <2>1, <2>2, <2>3 DEF Folded
<1>5. CASE kind = "max"
  <2> DEFINE IsTable(t) == t = [s \in SUBSET DOMAIN vs |-> IF s = {} THEN Null ELSE Larger(t[s \ {Max(s)}], vs[Max(s)])]
             table == CHOOSE t : IsTable(t)
  <2>1. Largest(vs) = table[DOMAIN vs]
    BY Zenon DEF Largest, FoldLeft, MapThenFoldSet
  <2>2. \A t : TableOf(kind, t, vs, DOMAIN vs) <=> IsTable(t)
    BY <1>5 DEF TableOf, FoldBase, FoldStep
  <2> HIDE DEF IsTable
  <2>3. IsTable(table)
    BY <1>2, <2>2
  <2> HIDE DEF table
  <2>4. QED
    BY <1>5, <2>1, <2>2, <2>3 DEF Folded
<1>6. CASE kind = "min"
  <2> DEFINE IsTable(t) == t = [s \in SUBSET DOMAIN vs |-> IF s = {} THEN Null ELSE Smaller(t[s \ {Max(s)}], vs[Max(s)])]
             table == CHOOSE t : IsTable(t)
  <2>1. Smallest(vs) = table[DOMAIN vs]
    BY Zenon DEF Smallest, FoldLeft, MapThenFoldSet
  <2>2. \A t : TableOf(kind, t, vs, DOMAIN vs) <=> IsTable(t)
    BY <1>6 DEF TableOf, FoldBase, FoldStep
  <2> HIDE DEF IsTable
  <2>3. IsTable(table)
    BY <1>2, <2>2
  <2> HIDE DEF table
  <2>4. QED
    BY <1>6, <2>1, <2>2, <2>3 DEF Folded
<1>7. QED
  BY <1>3, <1>4, <1>5, <1>6 DEF Folds4

LEMMA FoldedSteps ==
  ASSUME NEW S, NEW vs \in Seq(S), NEW kind \in Folds4
  PROVE  \E h : Steps(kind, h, vs) /\ Folded(kind, vs) = h[Len(vs)]
<1>1. PICK t : TableOf(kind, t, vs, DOMAIN vs) /\ Folded(kind, vs) = t[DOMAIN vs]
  BY FoldedTable
<1>2. PICK h : Steps(kind, h, vs) /\ t[DOMAIN vs] = h[Len(vs)]
  BY <1>1, TableSteps
<1>3. QED
  BY <1>1, <1>2

(* One value more is one step more, and no value is no step.               *)
LEMMA FoldedAppend ==
  ASSUME NEW S, NEW vs \in Seq(S), NEW v \in S, NEW kind \in Folds4
  PROVE  Folded(kind, Append(vs, v)) = FoldStep(kind, Folded(kind, vs), v)
<1>1. PICK g : Steps(kind, g, vs) /\ Folded(kind, vs) = g[Len(vs)]
  BY FoldedSteps
<1>2. Append(vs, v) \in Seq(S)
  OBVIOUS
<1>3. PICK h : Steps(kind, h, Append(vs, v)) /\ Folded(kind, Append(vs, v)) = h[Len(Append(vs, v))]
  BY <1>2, FoldedSteps
<1>4. QED
  BY <1>1, <1>3, StepsAppend

LEMMA FoldedEmpty ==
  ASSUME NEW kind \in Folds4
  PROVE  Folded(kind, <<>>) = FoldBase(kind)
<1>1. <<>> \in Seq({}) /\ Len(<<>>) = 0
  OBVIOUS
<1>2. PICK h : Steps(kind, h, <<>>) /\ Folded(kind, <<>>) = h[Len(<<>>)]
  BY <1>1, FoldedSteps
<1>3. QED
  BY <1>1, <1>2 DEF Steps

LEMMA FoldsAppend ==
  ASSUME NEW S, NEW vs \in Seq(S), NEW v \in S
  PROVE  /\ CountTrue(Append(vs, v)) = AddTrue(CountTrue(vs), v)
         /\ Distinct(Append(vs, v)) = KeepNew(Distinct(vs), v)
         /\ Largest(Append(vs, v)) = Larger(Largest(vs), v)
         /\ Smallest(Append(vs, v)) = Smaller(Smallest(vs), v)
<1>1. \A kind \in Folds4 : Folded(kind, Append(vs, v)) = FoldStep(kind, Folded(kind, vs), v)
  BY FoldedAppend
<1>2. CountTrue(Append(vs, v)) = AddTrue(CountTrue(vs), v)
  BY <1>1 DEF Folds4, Folded, FoldStep
<1>3. Distinct(Append(vs, v)) = KeepNew(Distinct(vs), v)
  BY <1>1 DEF Folds4, Folded, FoldStep
<1>4. Largest(Append(vs, v)) = Larger(Largest(vs), v)
  BY <1>1 DEF Folds4, Folded, FoldStep
<1>5. Smallest(Append(vs, v)) = Smaller(Smallest(vs), v)
  BY <1>1 DEF Folds4, Folded, FoldStep
<1>6. QED
  BY <1>2, <1>3, <1>4, <1>5

LEMMA FoldsEmpty ==
  CountTrue(<<>>) = 0 /\ Distinct(<<>>) = <<>> /\ Largest(<<>>) = Null /\ Smallest(<<>>) = Null
<1>1. \A kind \in Folds4 : Folded(kind, <<>>) = FoldBase(kind)
  BY FoldedEmpty
<1>2. QED
  BY <1>1 DEF Folds4, Folded, FoldBase

(* What these folds give for values that are not NULL.                     *)
FoldsMean(Q) ==
    /\ MaxHolds(Largest(Q), Q)
    /\ MinHolds(Smallest(Q), Q)
    /\ CountTrue(Q) = Cardinality(NonZero(Q))

LEMMA FoldsMeanMore ==
  ASSUME NEW Q \in Seq(IntVs), NEW v \in IntVs, FoldsMean(Q)
  PROVE  FoldsMean(Append(Q, v))
<1> DEFINE R == Append(Q, v)
           r == [val |-> v]
<1>1. /\ Len(R) = Len(Q) + 1 /\ Len(Q) \in Nat
      /\ 1..Len(R) = 1..Len(Q) \union {Len(R)}
      /\ R[Len(R)] = v /\ \A k \in 1..Len(Q) : R[k] = Q[k] /\ k # Len(R)
  BY OneMore
<1>2. Num(v) \in Int /\ v # Null
  BY IntOfV
<1>3. /\ CountTrue(R) = AddTrue(CountTrue(Q), v)
      /\ Largest(R) = Larger(Largest(Q), v)
      /\ Smallest(R) = Smaller(Smallest(Q), v)
  BY FoldsAppend
<1>4. \A a : Larger(a, v) = GroupStep("max", a, r) /\ Smaller(a, v) = GroupStep("min", a, r)
  BY <1>2 DEF GroupStep, Lists, ExtremeStep, Larger, Smaller
<1>5. MaxHolds(Largest(R), R) /\ MinHolds(Smallest(R), R)
  <2>1. r.val = v
    OBVIOUS
  <2> HIDE DEF r
  <2>2. /\ \A a : MaxHolds(a, Q) => MaxHolds(GroupStep("max", a, r), R)
        /\ \A a : MinHolds(a, Q) => MinHolds(GroupStep("min", a, r), R)
    BY <2>1, ExtremesGrow
  <2>3. QED
    BY <1>3, <1>4, <2>2 DEF FoldsMean
<1> HIDE DEF R
<1>6. NonZero(R) = IF Num(v) = 0 THEN NonZero(Q) ELSE NonZero(Q) \union {Len(R)}
  BY <1>1 DEF NonZero
<1>7. IsFiniteSet(NonZero(Q)) /\ Cardinality(NonZero(Q)) \in Nat /\ Len(R) \notin NonZero(Q)
  <2>1. NonZero(Q) \subseteq 1..Len(Q)
    BY DEF NonZero
  <2>2. IsFiniteSet(1..Len(Q))
    BY <1>1, FS_Interval
  <2>3. QED
    BY <1>1, <2>1, <2>2, FS_Subset, FS_CardinalityType
<1>8. Cardinality(NonZero(Q) \union {Len(R)}) = Cardinality(NonZero(Q)) + 1
  BY <1>7, FS_AddElement
<1>9. CountTrue(R) = Cardinality(NonZero(R))
  BY <1>3, <1>6, <1>7, <1>8 DEF AddTrue, FoldsMean
<1>10. QED
  BY <1>5, <1>9 DEF FoldsMean, R

LEMMA FoldsMeanAll ==
  ASSUME NEW Q \in Seq(IntVs)
  PROVE  FoldsMean(Q)
<1> DEFINE T == {n \in Nat : \E R \in Seq(IntVs) : Len(R) = n /\ ~ FoldsMean(R)}
<1>1. T = {}
  <2> SUFFICES ASSUME T # {} PROVE FALSE
    OBVIOUS
  <2>1. PICK n \in T : \A m \in T : n <= m
    <3>1. T \in SUBSET Nat
      OBVIOUS
    <3> HIDE DEF T
    <3>2. QED
      BY <3>1, LeastNat
  <2>2. PICK R \in Seq(IntVs) : Len(R) = n /\ ~ FoldsMean(R)
    BY <2>1
  <2>3. n # 0
    <3>1. SUFFICES ASSUME R = <<>> PROVE FALSE
      BY <2>2
    <3>2. NonZero(<<>>) = {} /\ Cardinality({}) = 0
      BY FS_EmptySet DEF NonZero
    <3>3. FoldsMean(<<>>)
      BY <3>2, FoldsEmpty DEF FoldsMean, MaxHolds, MinHolds
    <3>4. QED
      BY <2>2, <3>1, <3>3
  <2> DEFINE front == SubSeq(R, 1, n - 1)
  <2>4. /\ front \in Seq(IntVs) /\ Len(front) = n - 1 /\ n - 1 \in Nat
        /\ R[n] \in IntVs /\ R = Append(front, R[n])
    BY <2>2, <2>3
  <2>5. FoldsMean(front)
    <3>1. n - 1 \notin T
      BY <2>1, <2>4
    <3>2. QED
      BY <2>4, <3>1
  <2> HIDE DEF front
  <2>6. FoldsMean(Append(front, R[n]))
    BY <2>4, <2>5, FoldsMeanMore
  <2>7. QED
    BY <2>2, <2>4, <2>6
<1>2. QED
  BY <1>1

---------------------------------------------------------------------------
(* What RelevantValues makes of the values of a frame: without the NULLs   *)
(* when drop, without repetitions when dist.                               *)
KeptOf(V, drop) == IF drop THEN NonNull(V) ELSE V
PassOf(V, drop, dist) == IF dist THEN Distinct(KeptOf(V, drop)) ELSE KeptOf(V, drop)

(* They are the values of the rows that count.                             *)
FirstKept(K, D) == (K = <<>> <=> D = <<>>) /\ (K # <<>> => D[1] = K[1])
FrameVals(S, V, drop, dist) ==
    /\ FirstKept(KeptOf(V, drop), Distinct(KeptOf(V, drop)))
    /\ Distinct(KeptOf(V, drop)) \in Seq(RowVals(rows))
    /\ Range(Distinct(KeptOf(V, drop))) = SeenIn(S, drop)
    /\ PassOf(V, drop, dist) \in Seq(RowVals(rows))
    /\ ValsAt(Counted(S, drop, dist)) = PassOf(V, drop, dist)
    /\ ValsAt(Counted(S, TRUE, dist)) = NonNull(PassOf(V, drop, dist))

LEMMA FrameValsNone ==
  ASSUME NEW drop \in BOOLEAN, NEW dist \in BOOLEAN
  PROVE  FrameVals({}, <<>>, drop, dist)
<1>1. KeptOf(<<>>, drop) = <<>>
  BY NonNullEmpty DEF KeptOf
<1>2. PassOf(<<>>, drop, dist) = <<>> /\ Distinct(<<>>) = <<>>
  BY <1>1, FoldsEmpty DEF PassOf
<1>3. Range(<<>>) = {}
  BY DEF Range
<1>4. SeenIn({}, drop) = {}
  BY DEF SeenIn
<1>5. ValsAt(Counted({}, drop, dist)) = <<>> /\ ValsAt(Counted({}, TRUE, dist)) = <<>>
  BY CountedNone
<1>6. <<>> \in Seq(RowVals(rows))
  OBVIOUS
<1>7. QED
  BY <1>1, <1>2, <1>3, <1>4, <1>5, <1>6, NonNullEmpty DEF FrameVals, FirstKept

(* The values seen, with a row more.                                       *)
LEMMA SeenMore ==
  ASSUME NEW S, NEW m, NEW drop \in BOOLEAN
  PROVE  /\ SeenIn(S \union {m}, drop) =
              IF drop /\ rows[m].val = Null THEN SeenIn(S, drop) ELSE SeenIn(S, drop) \union {rows[m].val}
         /\ rows[m].val # Null => (rows[m].val \in SeenIn(S, TRUE) <=> rows[m].val \in SeenIn(S, drop))
BY DEF SeenIn

(* A value that is appended is in the range.                               *)
LEMMA RangeAppend ==
  ASSUME NEW W, NEW D \in Seq(W), NEW v \in W
  PROVE  Range(Append(D, v)) = Range(D) \union {v} /\ Append(D, v) \in Seq(W)
<1> DEFINE A == Append(D, v)
           n == Len(D)
<1>1. /\ A \in Seq(W) /\ DOMAIN A = 1..(n + 1) /\ DOMAIN D = 1..n /\ n \in Nat
      /\ A[n + 1] = v /\ \A i \in 1..n : A[i] = D[i]
  OBVIOUS
<1> HIDE DEF A, n
<1>2. Range(A) = {A[i] : i \in 1..(n + 1)} /\ Range(D) = {D[i] : i \in 1..n}
  BY <1>1 DEF Range
<1>3. 1..(n + 1) = 1..n \union {n + 1}
  BY <1>1
<1>4. QED
  BY <1>1, <1>2, <1>3 DEF A

LEMMA FrameValsMore ==
  ASSUME NEW e \in Nat, NEW S \in SUBSET (1..e), NEW V \in Seq(RowVals(rows)), rows[e + 1].val \in RowVals(rows),
         NEW drop \in BOOLEAN, NEW dist \in BOOLEAN, FrameVals(S, V, drop, dist)
  PROVE  FrameVals(S \union {e + 1}, Append(V, rows[e + 1].val), drop, dist)
<1> DEFINE m == e + 1
           v == rows[m].val
           W == RowVals(rows)
           T == S \union {m}
           K == KeptOf(V, drop)
           L == KeptOf(Append(V, v), drop)
           P == PassOf(V, drop, dist)
           Q == PassOf(Append(V, v), drop, dist)
           passed == drop /\ v = Null
           counts == CountsAfter(S, m, drop, dist)
<1>1. K \in Seq(W) /\ v \in W
  <2>1. Seq(W \ {Null}) \subseteq Seq(W)
    OBVIOUS
  <2> HIDE DEF W
  <2>2. V \in Seq(W)
    BY DEF W
  <2>3. NonNull(V) \in Seq(W)
    BY <2>1, <2>2, NonNullType
  <2>4. QED
    BY <2>2, <2>3 DEF KeptOf, W
<1>2. L = IF passed THEN K ELSE Append(K, v)
  <2>1. NonNull(Append(V, v)) = KeepNonNull(NonNull(V), v)
    BY <1>1, NonNullAppend
  <2>2. QED
    BY <2>1 DEF KeptOf, KeepNonNull
<1>3. Distinct(Append(K, v)) = KeepNew(Distinct(K), v)
  BY <1>1, FoldsAppend
<1>4. /\ Distinct(K) \in Seq(W) /\ Range(Distinct(K)) = SeenIn(S, drop) /\ FirstKept(K, Distinct(K))
      /\ P \in Seq(W)
      /\ ValsAt(Counted(S, drop, dist)) = P /\ ValsAt(Counted(S, TRUE, dist)) = NonNull(P)
  BY DEF FrameVals
<1>5. Range(Append(Distinct(K), v)) = Range(Distinct(K)) \union {v} /\ Append(Distinct(K), v) \in Seq(W)
  <2> HIDE DEF W, K, v
  <2>1. QED
    BY <1>1, <1>4, RangeAppend
<1>6. SeenIn(T, drop) = IF passed THEN SeenIn(S, drop) ELSE SeenIn(S, drop) \union {v}
  BY SeenMore
<1>7. v # Null => (v \in SeenIn(S, TRUE) <=> v \in SeenIn(S, drop))
  BY SeenMore
<1>8. counts <=> ~ passed /\ (dist => v \notin SeenIn(S, drop))
  BY DEF CountsAfter
<1>9. CountsAfter(S, m, TRUE, dist) <=> v # Null /\ counts
  BY <1>7 DEF CountsAfter
<1>10. Q = IF dist THEN Distinct(L) ELSE L
  BY DEF PassOf
<1>11. P = IF dist THEN Distinct(K) ELSE K
  BY DEF PassOf
<1>12. ValsAt(Counted(T, drop, dist)) =
         IF counts THEN Append(ValsAt(Counted(S, drop, dist)), v) ELSE ValsAt(Counted(S, drop, dist))
  BY CountedValsMore
<1>13. ValsAt(Counted(T, TRUE, dist)) =
         IF CountsAfter(S, m, TRUE, dist) THEN Append(ValsAt(Counted(S, TRUE, dist)), v) ELSE ValsAt(Counted(S, TRUE, dist))
  BY CountedValsMore
<1>14. P \in Seq(W) /\ v \in W => NonNull(Append(P, v)) = KeepNonNull(NonNull(P), v)
  BY NonNullAppend
<1> HIDE DEF W, K, L, P, Q, v, T, counts, m
<1>15. Distinct(L) = IF passed \/ v \in SeenIn(S, drop) THEN Distinct(K) ELSE Append(Distinct(K), v)
  BY <1>2, <1>3, <1>4 DEF KeepNew
<1>16. Distinct(L) \in Seq(W) /\ Range(Distinct(L)) = SeenIn(T, drop)
  BY <1>4, <1>5, <1>6, <1>15
<1>17. Q = IF counts THEN Append(P, v) ELSE P
  <2>1. CASE dist
    BY <1>8, <1>10, <1>11, <1>15, <2>1
  <2>2. CASE ~ dist
    BY <1>2, <1>8, <1>10, <1>11, <2>2
  <2>3. QED
    BY <2>1, <2>2
<1>18. Q \in Seq(W)
  BY <1>1, <1>4, <1>17
<1>19. ValsAt(Counted(T, drop, dist)) = Q
  BY <1>4, <1>12, <1>17
<1>20. ValsAt(Counted(T, TRUE, dist)) = NonNull(Q)
  <2>1. NonNull(Append(P, v)) = IF v = Null THEN NonNull(P) ELSE Append(NonNull(P), v)
    BY <1>1, <1>4, <1>14 DEF KeepNonNull
  <2>2. QED
    BY <1>4, <1>9, <1>13, <1>17, <2>1
<1>21. FirstKept(L, Distinct(L))
  <2>1. CASE passed
    BY <1>2, <1>4, <1>15, <2>1
  <2>2. CASE ~ passed /\ K = <<>>
    <3>1. Distinct(K) = <<>>
      BY <1>4, <2>2 DEF FirstKept
    <3>2. SeenIn(S, drop) = {}
      BY <1>4, <3>1 DEF Range
    <3>3. L = Append(<<>>, v) /\ Distinct(L) = Append(<<>>, v)
      <4>1. L = Append(K, v) /\ Distinct(L) = Append(Distinct(K), v)
        BY <1>2, <1>15, <2>2, <3>2
      <4>2. QED
        BY <2>2, <3>1, <4>1
    <3>4. Append(<<>>, v) # <<>>
      OBVIOUS
    <3>5. L # <<>> /\ Distinct(L) # <<>> /\ Distinct(L)[1] = L[1]
      BY <3>3, <3>4
    <3>6. QED
      BY <3>5 DEF FirstKept
  <2>3. CASE ~ passed /\ K # <<>>
    <3>1. Distinct(K) # <<>> /\ Distinct(K)[1] = K[1]
      BY <1>4, <2>3 DEF FirstKept
    <3>2. L # <<>> /\ L[1] = K[1]
      BY <1>1, <1>2, <2>3
    <3>3. Append(Distinct(K), v) # <<>> /\ Append(Distinct(K), v)[1] = Distinct(K)[1]
      BY <1>1, <1>4, <3>1
    <3>4. Distinct(L) # <<>> /\ Distinct(L)[1] = K[1]
      BY <1>15, <3>1, <3>3
    <3>5. QED
      BY <3>2, <3>4 DEF FirstKept
  <2>4. QED
    BY <2>1, <2>2, <2>3
<1>22. QED
  BY <1>16, <1>18, <1>19, <1>20, <1>21 DEF FrameVals, W, L, Q, T, v, m

LEMMA FrameValsHold ==
  ASSUME NEW l, NEW n, Within(rows, l, n), NEW drop \in BOOLEAN, NEW dist \in BOOLEAN
  PROVE  FrameVals((l + 1)..n, ValsBetween(rows, l, n), drop, dist)
<1> DEFINE Holds1(e) == FrameVals((l + 1)..e, ValsBetween(rows, l, e), drop, dist)
           T == {e \in l..n : ~ Holds1(e)}
<1>0. l \in Nat /\ n \in Nat /\ l <= n /\ n <= Len(rows) /\ IsSeq(rows)
  BY DEF Within
<1>1. T = {}
  <2> SUFFICES ASSUME T # {} PROVE FALSE
    OBVIOUS
  <2>1. PICK e \in T : \A i \in T : e <= i
    <3>1. T \in SUBSET Nat
      BY <1>0
    <3> HIDE DEF T
    <3>2. QED
      BY <3>1, LeastNat
  <2>2. e # l
    <3>1. Within(rows, l, l) /\ (l + 1)..l = {} /\ l - l = 0
      BY <1>0 DEF Within
    <3>2. ValsBetween(rows, l, l) = NextVals(rows, l, 0)
      BY <3>1, BetweenIs
    <3>3. NextVals(rows, l, 0) = <<>>
      BY DEF NextVals
    <3>4. Holds1(l)
      BY <3>1, <3>2, <3>3, FrameValsNone
    <3>5. QED
      BY <2>1, <3>4
  <2> DEFINE d == e - 1
  <2>3. d \in Nat /\ d \in l..n /\ e = d + 1 /\ d < e /\ Within(rows, l, d) /\ d + 1 <= Len(rows)
    BY <1>0, <2>1, <2>2 DEF Within
  <2>4. Holds1(d)
    <3>1. d \notin T
      <4> HIDE DEF T, d
      <4>1. ASSUME d \in T PROVE FALSE
        <5>1. e <= d
          BY <2>1, <4>1
        <5>2. QED
          BY <2>3, <5>1
      <4>2. QED
        BY <4>1
    <3>2. QED
      BY <2>3, <3>1
  <2> HIDE DEF d
  <2>5. /\ ValsBetween(rows, l, d) \in Seq(RowVals(rows))
        /\ ValsBetween(rows, l, d + 1) = Append(ValsBetween(rows, l, d), rows[d + 1].val)
        /\ rows[d + 1].val \in RowVals(rows)
    BY <2>3, BetweenIs, EnterVals
  <2>6. (l + 1)..d \in SUBSET (1..d) /\ (l + 1)..(d + 1) = (l + 1)..d \union {d + 1}
    BY <1>0, <2>3
  <2>7. FrameVals((l + 1)..d \union {d + 1}, Append(ValsBetween(rows, l, d), rows[d + 1].val), drop, dist)
    BY <2>3, <2>4, <2>5, <2>6, FrameValsMore
  <2>8. Holds1(e)
    BY <2>3, <2>5, <2>6, <2>7
  <2>9. QED
    BY <2>1, <2>8
<1>2. QED
  BY <1>0, <1>1

---------------------------------------------------------------------------
(* What the functions of a frame answer, from its values.  The values of a *)
(* window are INT64 or NULL here, and COUNT( * ) takes no DISTINCT.        *)
IntegerWindows ==
    /\ \A b \in {"single", "count"} \cap DOMAIN Inputs : \A r \in Inputs[b] : \A i \in DOMAIN r : IsInt(r[i].val)
    /\ \A c \in Calls :
         c.builder \in Appending => /\ {c.opt.distinct, c.opt.ignoreNulls} \subseteq BOOLEAN
                                    /\ c.builder = "constant" => ~ c.opt.distinct

LEMMA IntegersCompare ==
  ASSUME IntegerWindows
  PROVE  ComparedByValue
<1> SUFFICES ASSUME NEW b \in {"single", "count"} \cap DOMAIN Inputs, NEW r \in Inputs[b], NEW i \in DOMAIN r
             PROVE  SameInGo(r[i].val, r[i].val)
  BY DEF ComparedByValue
<1> DEFINE v == r[i].val
<1>1. v = Null \/ v = IntV(Num(v))
  BY DEF IntegerWindows, IsInt
<1> HIDE DEF v
<1>2. ASSUME v = IntV(Num(v)) PROVE v[1] = "int"
  <2>1. IntV(Num(v))[1] = "int"
    BY DEF IntV, Result
  <2>2. QED
    BY <1>2, <2>1
<1>3. SameInGo(v, v)
  BY <1>1, <1>2 DEF SameInGo
<1>4. QED
  BY <1>3 DEF v

(* The positions js hold the values P.                                     *)
PickedTo(js, P) ==
    /\ P = ValsAt(js) /\ Len(P) = Len(js) /\ Len(js) \in Nat
    /\ DOMAIN js = 1..Len(js) /\ DOMAIN P = 1..Len(js)
    /\ \A k \in 1..Len(js) : P[k] = rows[js[k]].val
    /\ js = <<>> <=> Len(js) = 0
    /\ P = <<>> <=> js = <<>>

LEMMA PickedOf ==
  ASSUME NEW e \in Nat, NEW S \in SUBSET (1..e), NEW drop \in BOOLEAN, NEW dist \in BOOLEAN
  PROVE  PickedTo(Counted(S, drop, dist), ValsAt(Counted(S, drop, dist)))
<1> DEFINE C == CountedRows(S, drop, dist)
           js == Ascending(C)
           n == Len(js)
           V == ValsAt(js)
           U == {V[k] : k \in 1..n}
<1>1. C \in SUBSET (1..e)
  BY CountedMore
<1>2. Cardinality(C) \in Nat
  <2>1. e + 0 \in Nat /\ 1 \in Int /\ e \in Int
    OBVIOUS
  <2>2. IsFiniteSet(1..e)
    BY <2>1, FS_Interval
  <2>3. QED
    BY <1>1, <2>2, FS_Subset, FS_CardinalityType
<1> HIDE DEF C
<1>3. js \in Seq({js[i] : i \in 1..Cardinality(C)}) /\ DOMAIN js = 1..n /\ n \in Nat
  BY <1>2, CountedSeq
<1> HIDE DEF js
<1>4. js = <<>> <=> n = 0
  BY <1>3
<1> HIDE DEF n
<1>5. V = [k \in 1..n |-> rows[js[k]].val]
  BY <1>3 DEF ValsAt
<1>6. DOMAIN V = 1..n /\ \A k \in 1..n : V[k] = rows[js[k]].val
  BY <1>5
<1>7. V \in [1..n -> U]
  BY <1>5
<1>7a. V = ValsAt(js)
  OBVIOUS
<1> HIDE DEF U, V
<1>8. V \in Seq(U) /\ Len(V) = n
  BY <1>3, <1>6, <1>7
<1>9. V = <<>> <=> js = <<>>
  BY <1>4, <1>8
<1>10. PickedTo(js, V)
  BY <1>3, <1>4, <1>6, <1>7a, <1>8, <1>9 DEF PickedTo, n
<1>11. js = Counted(S, drop, dist) /\ V = ValsAt(Counted(S, drop, dist))
  BY DEF js, V, C, Counted
<1>12. QED
  BY <1>10, <1>11

(* The values of a frame without NULL: those that count are the same.      *)
LEMMA NoNulls ==
  ASSUME NEW S, \A j \in S : rows[j].val # Null, NEW drop \in BOOLEAN, NEW dist \in BOOLEAN
  PROVE  Counted(S, drop, dist) = Counted(S, TRUE, dist)
<1>1. CountedRows(S, drop, dist) = CountedRows(S, TRUE, dist)
  <2>1. {j \in S : drop => rows[j].val # Null} = {j \in S : TRUE => rows[j].val # Null}
    OBVIOUS
  <2>2. QED
    BY <2>1, Zenon DEF CountedRows
<1>2. QED
  BY <1>1 DEF Counted

(* What the functions mean.                                                *)
OrNull(cond, r) == IF cond THEN Null ELSE r
ValAt(js, k) == IF k \in DOMAIN js THEN rows[js[k]].val ELSE Null
JsOf(i) == Counted(FrameRows(i), Ign, Dist)
NnOf(i) == Counted(FrameRows(i), TRUE, Dist)

LEMMA MeaningIs ==
  ASSUME NEW i, NEW arg
  PROVE  /\ FrameMeaning("array_agg", i, arg) = Result("array", ValsAt(JsOf(i)))
         /\ FrameMeaning("avg", i, arg) = OrNull(NnOf(i) = <<>>, Result("ratio", <<Total(NnOf(i)), Len(NnOf(i))>>))
         /\ FrameMeaning("count", i, arg) = IntV(Len(NnOf(i)))
         /\ FrameMeaning("count_star", i, arg) = IntV(Cardinality(FrameRows(i)))
         /\ FrameMeaning("countif", i, arg) = IntV(Cardinality({k \in DOMAIN NnOf(i) : Num(rows[NnOf(i)[k]].val) # 0}))
         /\ FrameMeaning("sum", i, arg) = OrNull(NnOf(i) = <<>>, IntV(Total(NnOf(i))))
         /\ FrameMeaning("string_agg", i, arg) = OrNull(NnOf(i) = <<>>, Result("joined", ValsAt(NnOf(i))))
         /\ FrameMeaning("any_value", i, arg) = ValAt(JsOf(i), 1)
         /\ FrameMeaning("first_value", i, arg) = ValAt(JsOf(i), 1)
         /\ FrameMeaning("last_value", i, arg) = ValAt(JsOf(i), Len(JsOf(i)))
         /\ FrameMeaning("nth_value", i, arg) = ValAt(JsOf(i), arg.offset)
         /\ FrameMeaning("logical_and", i, arg) = Result("bool", \A k \in DOMAIN NnOf(i) : Num(rows[NnOf(i)[k]].val) # 0)
         /\ FrameMeaning("logical_or", i, arg) = Result("bool", \E k \in DOMAIN NnOf(i) : Num(rows[NnOf(i)[k]].val) # 0)
<1>1. FrameMeaning("array_agg", i, arg) = Result("array", ValsAt(JsOf(i)))
  BY DEF FrameMeaning, OrNull, ValAt, JsOf, NnOf, Ign, Dist, Statistics, PairFuncs, Population
<1>2. FrameMeaning("avg", i, arg) = OrNull(NnOf(i) = <<>>, Result("ratio", <<Total(NnOf(i)), Len(NnOf(i))>>))
  BY DEF FrameMeaning, OrNull, ValAt, JsOf, NnOf, Ign, Dist, Statistics, PairFuncs, Population
<1>3. FrameMeaning("count", i, arg) = IntV(Len(NnOf(i)))
  BY DEF FrameMeaning, OrNull, ValAt, JsOf, NnOf, Ign, Dist, Statistics, PairFuncs, Population
<1>4. FrameMeaning("count_star", i, arg) = IntV(Cardinality(FrameRows(i)))
  BY DEF FrameMeaning, OrNull, ValAt, JsOf, NnOf, Ign, Dist, Statistics, PairFuncs, Population
<1>5. FrameMeaning("countif", i, arg) = IntV(Cardinality({k \in DOMAIN NnOf(i) : Num(rows[NnOf(i)[k]].val) # 0}))
  BY DEF FrameMeaning, OrNull, ValAt, JsOf, NnOf, Ign, Dist, Statistics, PairFuncs, Population
<1>6. FrameMeaning("sum", i, arg) = OrNull(NnOf(i) = <<>>, IntV(Total(NnOf(i))))
  BY DEF FrameMeaning, OrNull, ValAt, JsOf, NnOf, Ign, Dist, Statistics, PairFuncs, Population
<1>7. FrameMeaning("string_agg", i, arg) = OrNull(NnOf(i) = <<>>, Result("joined", ValsAt(NnOf(i))))
  BY DEF FrameMeaning, OrNull, ValAt, JsOf, NnOf, Ign, Dist, Statistics, PairFuncs, Population
<1>8. FrameMeaning("any_value", i, arg) = ValAt(JsOf(i), 1)
  BY DEF FrameMeaning, OrNull, ValAt, JsOf, NnOf, Ign, Dist, Statistics, PairFuncs, Population
<1>9. FrameMeaning("first_value", i, arg) = ValAt(JsOf(i), 1)
  BY DEF FrameMeaning, OrNull, ValAt, JsOf, NnOf, Ign, Dist, Statistics, PairFuncs, Population
<1>10. FrameMeaning("last_value", i, arg) = ValAt(JsOf(i), Len(JsOf(i)))
  BY DEF FrameMeaning, OrNull, ValAt, JsOf, NnOf, Ign, Dist, Statistics, PairFuncs, Population
<1>11. FrameMeaning("nth_value", i, arg) = ValAt(JsOf(i), arg.offset)
  BY DEF FrameMeaning, OrNull, ValAt, JsOf, NnOf, Ign, Dist, Statistics, PairFuncs, Population
<1>12. FrameMeaning("logical_and", i, arg) = Result("bool", \A k \in DOMAIN NnOf(i) : Num(rows[NnOf(i)[k]].val) # 0)
  BY DEF FrameMeaning, OrNull, ValAt, JsOf, NnOf, Ign, Dist, Statistics, PairFuncs, Population
<1>13. FrameMeaning("logical_or", i, arg) = Result("bool", \E k \in DOMAIN NnOf(i) : Num(rows[NnOf(i)[k]].val) # 0)
  BY DEF FrameMeaning, OrNull, ValAt, JsOf, NnOf, Ign, Dist, Statistics, PairFuncs, Population
<1>14. QED
  BY <1>1, <1>2, <1>3, <1>4, <1>5, <1>6, <1>7, <1>8, <1>9, <1>10, <1>11, <1>12, <1>13

LEMMA MaxMeaningIs ==
  ASSUME NEW i, NEW arg
  PROVE  FrameMeaning("max", i, arg) = OrNull(NnOf(i) = <<>>, Extreme(NnOf(i), LAMBDA a, b : a > b))
BY DEF FrameMeaning, OrNull, ValAt, JsOf, NnOf, Ign, Dist, Statistics, PairFuncs, Population

LEMMA MinMeaningIs ==
  ASSUME NEW i, NEW arg
  PROVE  FrameMeaning("min", i, arg) = OrNull(NnOf(i) = <<>>, Extreme(NnOf(i), LAMBDA a, b : a < b))
BY DEF FrameMeaning, OrNull, ValAt, JsOf, NnOf, Ign, Dist, Statistics, PairFuncs, Population

\* What a statistic divides by.
Divisor(f, n) == IF f \in Population THEN n ELSE n - 1

LEMMA StatisticMeaningIs ==
  ASSUME NEW f \in Statistics \ PairFuncs, NEW i, NEW arg,
         NnOf(i) = <<>> <=> Len(NnOf(i)) = 0, Len(NnOf(i)) \in Nat, f \in Population => Len(NnOf(i)) # 1
  PROVE  FrameMeaning(f, i, arg) =
           OrNull(Len(NnOf(i)) < 2, Spread(ValsAt(NnOf(i)), Divisor(f, Len(NnOf(i)))))
<1>1. f \in {"stddev", "stddev_pop", "var_pop", "var_samp"}
  BY DEF Statistics, PairFuncs
<1>2. CASE f \in Population
  <2>1. FrameMeaning(f, i, arg) = OrNull(NnOf(i) = <<>>, Spread(ValsAt(NnOf(i)), Len(NnOf(i))))
    <3> DEFINE m == OrNull(NnOf(i) = <<>>, Spread(ValsAt(NnOf(i)), Len(NnOf(i))))
    <3>1. FrameMeaning("stddev_pop", i, arg) = m
      BY DEF FrameMeaning, OrNull, NnOf, Dist, Population, Statistics, PairFuncs
    <3>2. FrameMeaning("var_pop", i, arg) = m
      BY DEF FrameMeaning, OrNull, NnOf, Dist, Population, Statistics, PairFuncs
    <3> HIDE DEF m
    <3>3. f \in {"stddev_pop", "var_pop"}
      BY <1>2 DEF Population
    <3>4. QED
      BY <3>1, <3>2, <3>3 DEF m
  <2> DEFINE n == Len(NnOf(i))
  <2>2. n \in Nat /\ n # 1 /\ (NnOf(i) = <<>> <=> n = 0)
    BY <1>2
  <2> HIDE DEF n
  <2>3. NnOf(i) = <<>> <=> n < 2
    BY <2>2
  <2>4. QED
    BY <1>2, <2>1, <2>3 DEF Divisor, OrNull, n
<1>3. CASE f \notin Population
  <2>1. f \in {"stddev", "var_samp"}
    BY <1>1, <1>3 DEF Population
  <2>2. FrameMeaning(f, i, arg) = OrNull(Len(NnOf(i)) < 2, Spread(ValsAt(NnOf(i)), Len(NnOf(i)) - 1))
    BY <2>1 DEF FrameMeaning, OrNull, NnOf, Dist, Population, Statistics, PairFuncs
  <2>3. QED
    BY <1>3, <2>2 DEF Divisor
<1>4. QED
  BY <1>2, <1>3

(* What they answer: P are the values the status lets count, Q those of    *)
(* them that are not NULL.                                                 *)
Counting(s, i, P, Q) ==
    /\ RelevantValues(s) = P /\ NonNull(P) = Q
    /\ P \in Seq(RowVals(rows)) /\ Q \in Seq(IntVs)
    /\ PickedTo(JsOf(i), P) /\ PickedTo(NnOf(i), Q)

LEMMA ListAnswers ==
  ASSUME NEW s, NEW i, NEW arg, NEW P, NEW Q, Counting(s, i, P, Q)
  PROVE  /\ ListDone("array_agg", s) = FrameMeaning("array_agg", i, arg)
         /\ ListDone("avg", s) = FrameMeaning("avg", i, arg)
         /\ ListDone("countif", s) = FrameMeaning("countif", i, arg)
<1>1. /\ ListDone("array_agg", s) = Result("array", P)
      /\ ListDone("avg", s) = IF Q = <<>> THEN Null ELSE Result("ratio", <<SumOf(Q), Len(Q)>>)
      /\ ListDone("countif", s) = IntV(CountTrue(Q))
  BY DEF ListDone, Counting
<1>2. P = ValsAt(JsOf(i)) /\ Len(Q) = Len(NnOf(i)) /\ (Q = <<>> <=> NnOf(i) = <<>>)
  BY DEF Counting, PickedTo
<1>3. Total(NnOf(i)) = SumOf(Q)
  <2>1. Q \in Seq(IntVs) /\ Len(Q) = Len(NnOf(i)) /\ \A k \in 1..Len(Q) : Q[k] = rows[NnOf(i)[k]].val
    BY DEF Counting, PickedTo
  <2>2. QED
    BY <2>1, TotalIs
<1>4. CountTrue(Q) = Cardinality({k \in DOMAIN NnOf(i) : Num(rows[NnOf(i)[k]].val) # 0})
  <2>1. CountTrue(Q) = Cardinality(NonZero(Q))
    BY FoldsMeanAll DEF Counting, FoldsMean
  <2>2. NonZero(Q) = {k \in DOMAIN NnOf(i) : Num(rows[NnOf(i)[k]].val) # 0}
    BY DEF NonZero, Counting, PickedTo
  <2>3. QED
    BY <2>1, <2>2
<1>5. ListDone("array_agg", s) = FrameMeaning("array_agg", i, arg)
  BY <1>1, <1>2, MeaningIs
<1>6. ListDone("avg", s) = FrameMeaning("avg", i, arg)
  BY <1>1, <1>2, <1>3, MeaningIs DEF OrNull
<1>7. ListDone("countif", s) = FrameMeaning("countif", i, arg)
  BY <1>1, <1>4, MeaningIs
<1>8. QED
  BY <1>5, <1>6, <1>7

LEMMA MaxAnswers ==
  ASSUME NEW s, NEW i, NEW arg, NEW P, NEW Q, Counting(s, i, P, Q)
  PROVE  ValuedDone("max", s) = FrameMeaning("max", i, arg)
<1> DEFINE nn == NnOf(i)
           extreme == Extreme(nn, LAMBDA a, b : a > b)
<1>1. ValuedDone("max", s) = Largest(Q)
  BY DEF ValuedDone, Counting
<1>2. /\ Len(Q) = Len(nn) /\ (Q = <<>> <=> nn = <<>>)
      /\ Q \in Seq(IntVs) /\ DOMAIN nn = 1..Len(Q)
      /\ \A k \in 1..Len(Q) : Q[k] = rows[nn[k]].val
  BY DEF Counting, PickedTo
<1>3. MaxHolds(Largest(Q), Q)
  BY <1>2, FoldsMeanAll DEF FoldsMean
<1>4. FrameMeaning("max", i, arg) = OrNull(nn = <<>>, extreme)
  BY MaxMeaningIs, Zenon
<1> HIDE DEF nn
<1>5. CASE Q = <<>>
  <2>1. Largest(Q) = Null
    BY <1>3, <1>5 DEF MaxHolds
  <2> HIDE DEF extreme
  <2>2. QED
    BY <1>1, <1>2, <1>4, <1>5, <2>1 DEF OrNull
<1>6. CASE Q # <<>>
  <2>1. Largest(Q) = extreme
    BY <1>2, <1>3, <1>6, ExtremesMean, Zenon
  <2> HIDE DEF extreme
  <2>2. QED
    BY <1>1, <1>2, <1>4, <1>6, <2>1 DEF OrNull
<1>7. QED
  BY <1>5, <1>6

LEMMA MinAnswers ==
  ASSUME NEW s, NEW i, NEW arg, NEW P, NEW Q, Counting(s, i, P, Q)
  PROVE  ValuedDone("min", s) = FrameMeaning("min", i, arg)
<1> DEFINE nn == NnOf(i)
           extreme == Extreme(nn, LAMBDA a, b : a < b)
<1>1. ValuedDone("min", s) = Smallest(Q)
  BY DEF ValuedDone, Counting
<1>2. /\ Len(Q) = Len(nn) /\ (Q = <<>> <=> nn = <<>>)
      /\ Q \in Seq(IntVs) /\ DOMAIN nn = 1..Len(Q)
      /\ \A k \in 1..Len(Q) : Q[k] = rows[nn[k]].val
  BY DEF Counting, PickedTo
<1>3. MinHolds(Smallest(Q), Q)
  BY <1>2, FoldsMeanAll DEF FoldsMean
<1>4. FrameMeaning("min", i, arg) = OrNull(nn = <<>>, extreme)
  BY MinMeaningIs, Zenon
<1> HIDE DEF nn
<1>5. CASE Q = <<>>
  <2>1. Smallest(Q) = Null
    BY <1>3, <1>5 DEF MinHolds
  <2> HIDE DEF extreme
  <2>2. QED
    BY <1>1, <1>2, <1>4, <1>5, <2>1 DEF OrNull
<1>6. CASE Q # <<>>
  <2>1. Smallest(Q) = extreme
    BY <1>2, <1>3, <1>6, ExtremesMean, Zenon
  <2> HIDE DEF extreme
  <2>2. QED
    BY <1>1, <1>2, <1>4, <1>6, <2>1 DEF OrNull
<1>7. QED
  BY <1>5, <1>6

LEMMA ValuedAnswers ==
  ASSUME NEW s, NEW i, NEW arg, NEW P, NEW Q, Counting(s, i, P, Q)
  PROVE  /\ ValuedDone("string_agg", s) = FrameMeaning("string_agg", i, arg)
         /\ ValuedDone("sum", s) = FrameMeaning("sum", i, arg)
<1> DEFINE nn == NnOf(i)
<1>1. /\ ValuedDone("string_agg", s) = IF Q = <<>> THEN Null ELSE Result("joined", Q)
      /\ ValuedDone("sum", s) = IF Q = <<>> THEN Null ELSE IntV(SumOf(Q))
  BY DEF ValuedDone, Counting
<1>2. /\ Q = ValsAt(nn) /\ Len(Q) = Len(nn) /\ (Q = <<>> <=> nn = <<>>)
      /\ Q \in Seq(IntVs)
      /\ \A k \in 1..Len(Q) : Q[k] = rows[nn[k]].val
  BY DEF Counting, PickedTo
<1>3. Total(nn) = SumOf(Q)
  BY <1>2, TotalIs
<1>4. ValuedDone("string_agg", s) = FrameMeaning("string_agg", i, arg)
  BY <1>1, <1>2, MeaningIs DEF OrNull
<1>5. ValuedDone("sum", s) = FrameMeaning("sum", i, arg)
  BY <1>1, <1>2, <1>3, MeaningIs DEF OrNull
<1>6. QED
  BY <1>4, <1>5

(* The functions of a position.  ANY_VALUE takes the first of all values.  *)
LEMMA NavigationAnswers ==
  ASSUME NEW s, NEW i, NEW arg, NEW P, NEW Q, Counting(s, i, P, Q)
  PROVE  /\ FirstKept(s.values, P) => NavigationDone("any_value", s, arg) = FrameMeaning("any_value", i, arg)
         /\ NavigationDone("first_value", s, arg) = FrameMeaning("first_value", i, arg)
         /\ NavigationDone("last_value", s, arg) = FrameMeaning("last_value", i, arg)
         /\ arg.offset \in Nat \ {0} => NavigationDone("nth_value", s, arg) = FrameMeaning("nth_value", i, arg)
<1> DEFINE js == JsOf(i)
           n == Len(P)
<1>1. /\ NavigationDone("any_value", s, arg) = IF s.values = <<>> THEN Null ELSE s.values[1]
      /\ NavigationDone("first_value", s, arg) = IF P = <<>> THEN Null ELSE P[1]
      /\ NavigationDone("last_value", s, arg) = IF P = <<>> THEN Null ELSE P[Len(P)]
  BY DEF NavigationDone, Counting
<1>2. NavigationDone("nth_value", s, arg) = IF arg.offset = 0 THEN Panic ELSE IF Len(P) < arg.offset THEN Null ELSE P[arg.offset]
  BY DEF NavigationDone, Counting
<1>3. /\ DOMAIN js = 1..n /\ n \in Nat /\ (P = <<>> <=> n = 0)
      /\ \A k \in 1..n : P[k] = rows[js[k]].val
      /\ Len(js) = n
  BY DEF Counting, PickedTo
<1>4. \A k \in Nat \ {0} : ValAt(js, k) = IF n < k THEN Null ELSE P[k]
  <2> HIDE DEF js, n
  <2>1. QED
    BY <1>3 DEF ValAt
<1>5. /\ FrameMeaning("any_value", i, arg) = ValAt(js, 1)
      /\ FrameMeaning("first_value", i, arg) = ValAt(js, 1)
      /\ FrameMeaning("last_value", i, arg) = ValAt(js, Len(js))
      /\ FrameMeaning("nth_value", i, arg) = ValAt(js, arg.offset)
  BY MeaningIs
<1>6. ValAt(js, 1) = IF P = <<>> THEN Null ELSE P[1]
  BY <1>3, <1>4
<1>7. ValAt(js, Len(js)) = IF P = <<>> THEN Null ELSE P[n]
  <2>1. CASE n = 0
    <3>1. Len(js) \notin DOMAIN js
      BY <1>3, <2>1
    <3>2. QED
      BY <1>3, <2>1, <3>1 DEF ValAt
  <2>2. CASE n # 0
    BY <1>3, <1>4, <2>2
  <2>3. QED
    BY <2>1, <2>2
<1>8. ASSUME FirstKept(s.values, P)
      PROVE  NavigationDone("any_value", s, arg) = FrameMeaning("any_value", i, arg)
  BY <1>1, <1>5, <1>6, <1>8 DEF FirstKept
<1>9. ASSUME arg.offset \in Nat \ {0}
      PROVE  NavigationDone("nth_value", s, arg) = FrameMeaning("nth_value", i, arg)
  <2>1. ValAt(js, arg.offset) = IF n < arg.offset THEN Null ELSE P[arg.offset]
    BY <1>4, <1>9
  <2>2. QED
    BY <1>2, <1>5, <1>9, <2>1
<1>10. QED
  BY <1>1, <1>5, <1>6, <1>7, <1>8, <1>9

(* The functions that panic on a NULL, where there is none.                *)
LEMMA LogicalAnswers ==
  ASSUME NEW s, NEW i, NEW arg, NEW P, Counting(s, i, P, P)
  PROVE  /\ LogicalDone("logical_and", s) = FrameMeaning("logical_and", i, arg)
         /\ LogicalDone("logical_or", s) = FrameMeaning("logical_or", i, arg)
<1> DEFINE nn == NnOf(i)
           n == Len(P)
           Deciding(or) == {k \in DOMAIN P : P[k] # Null /\ (Num(P[k]) # 0) = or}
           Nulls(or) == {k \in DOMAIN P : P[k] = Null /\ \A j \in Deciding(or) : k < j}
<1>1. /\ DOMAIN nn = 1..n /\ DOMAIN P = 1..n
      /\ \A k \in 1..n : P[k] = rows[nn[k]].val /\ P[k] # Null
  <2>1. P \in Seq(IntVs)
    BY DEF Counting
  <2>2. \A k \in 1..n : P[k] \in IntVs
    BY <2>1
  <2>3. QED
    BY <2>2, IntOfV DEF Counting, PickedTo
<1>2. \A or \in BOOLEAN : Nulls(or) = {}
  BY <1>1
<1>3. LogicalDone("logical_and", s) =
        IF Nulls("logical_and" = "logical_or") # {} THEN Panic
        ELSE Result("bool", (Deciding("logical_and" = "logical_or") # {}) = ("logical_and" = "logical_or"))
  BY Zenon DEF LogicalDone, Counting
<1>4. LogicalDone("logical_or", s) =
        IF Nulls("logical_or" = "logical_or") # {} THEN Panic
        ELSE Result("bool", (Deciding("logical_or" = "logical_or") # {}) = ("logical_or" = "logical_or"))
  BY Zenon DEF LogicalDone, Counting
<1>5. Deciding(TRUE) # {} <=> \E k \in DOMAIN nn : Num(rows[nn[k]].val) # 0
  BY <1>1
<1>6. Deciding(FALSE) # {} <=> ~ \A k \in DOMAIN nn : Num(rows[nn[k]].val) # 0
  BY <1>1
<1>7. /\ FrameMeaning("logical_and", i, arg) = Result("bool", \A k \in DOMAIN nn : Num(rows[nn[k]].val) # 0)
      /\ FrameMeaning("logical_or", i, arg) = Result("bool", \E k \in DOMAIN nn : Num(rows[nn[k]].val) # 0)
  BY MeaningIs
<1>8. (("logical_and" = "logical_or") = FALSE) /\ (("logical_or" = "logical_or") = TRUE)
  OBVIOUS
<1> HIDE DEF nn, n, Nulls, Deciding
<1>9. ((Deciding(FALSE) # {}) = FALSE) = (\A k \in DOMAIN nn : Num(rows[nn[k]].val) # 0)
  BY <1>6
<1>10. ((Deciding(TRUE) # {}) = TRUE) = (\E k \in DOMAIN nn : Num(rows[nn[k]].val) # 0)
  BY <1>5
<1>11. LogicalDone("logical_and", s) = FrameMeaning("logical_and", i, arg)
  BY <1>2, <1>3, <1>7, <1>8, <1>9
<1>12. LogicalDone("logical_or", s) = FrameMeaning("logical_or", i, arg)
  BY <1>2, <1>4, <1>7, <1>8, <1>10
<1>13. QED
  BY <1>11, <1>12

LEMMA StatisticAnswers ==
  ASSUME NEW s, NEW i, NEW arg, NEW P, Counting(s, i, P, P), NEW f \in Statistics \ PairFuncs,
         f \in Population => Len(P) # 1
  PROVE  StatisticDone(f, s) = FrameMeaning(f, i, arg)
<1>1. /\ Len(P) = Len(NnOf(i)) /\ P = ValsAt(NnOf(i)) /\ P \in Seq(IntVs) /\ RelevantValues(s) = P
      /\ P = <<>> <=> NnOf(i) = <<>>
  BY DEF Counting, PickedTo
<1>2. Null \notin Range(P)
  <2>1. \A k \in DOMAIN P : P[k] \in IntVs
    BY <1>1
  <2>2. QED
    BY <2>1, IntOfV DEF Range
<1>3. StatisticDone(f, s) = IF Len(P) < 2 THEN Null ELSE Spread(P, Divisor(f, Len(P)))
  BY <1>1, <1>2 DEF StatisticDone, Divisor
<1>4. Len(P) \in Nat /\ (P = <<>> <=> Len(P) = 0)
  BY <1>1
<1>5. FrameMeaning(f, i, arg) = OrNull(Len(NnOf(i)) < 2, Spread(ValsAt(NnOf(i)), Divisor(f, Len(NnOf(i)))))
  BY <1>1, <1>4, StatisticMeaningIs
<1>6. QED
  BY <1>1, <1>3, <1>5 DEF OrNull

(* Done, for the functions that a builder serves.                          *)
LEMMA DoneIs ==
  ASSUME NEW s, NEW arg, NEW f \in FrameFuncs, RelevantPanics(s) => f = "any_value"
  PROVE  /\ f \in ListFuncs => Done(f, s, arg) = ListDone(f, s)
         /\ f \in ValuedFuncs => Done(f, s, arg) = ValuedDone(f, s)
         /\ f \in Navigation => Done(f, s, arg) = NavigationDone(f, s, arg)
         /\ f \in Logical => Done(f, s, arg) = LogicalDone(f, s)
         /\ f \in Statistics \ PairFuncs => Done(f, s, arg) = StatisticDone(f, s)
<1> USE DEF Done, ListFuncs, ValuedFuncs, Navigation, Logical, Statistics, PairFuncs, RankFuncs
<1>1. f \in ListFuncs => Done(f, s, arg) = ListDone(f, s)
  OBVIOUS
<1>2. f \in ValuedFuncs => Done(f, s, arg) = ValuedDone(f, s)
  OBVIOUS
<1>3. f \in Navigation => Done(f, s, arg) = NavigationDone(f, s, arg)
  OBVIOUS
<1>4. f \in Logical => Done(f, s, arg) = LogicalDone(f, s)
  OBVIOUS
<1>5. f \in Statistics \ PairFuncs => Done(f, s, arg) = StatisticDone(f, s)
  OBVIOUS
<1> QED
  BY <1>1, <1>2, <1>3, <1>4, <1>5

(* Where the functions do not deviate from what they mean.                 *)
LEMMA NotDeviating ==
  ASSUME NEW f \in FrameFuncs, NEW i, NEW arg, ~ Deviates(f, i, arg)
  PROVE  LET vs == {rows[j].val : j \in FrameRows(i)}
         IN  /\ Dist /\ Null \in vs => f = "any_value"
             /\ f \in Logical \union (Statistics \ PairFuncs) => Null \notin vs
             /\ f \in Population => Len(JsOf(i)) # 1
<1> DEFINE vs == {rows[j].val : j \in FrameRows(i)}
<1>1. Dist /\ Null \in vs => f = "any_value"
  BY DEF Deviates, Dist
<1>2. ASSUME f \in Logical \union (Statistics \ PairFuncs), Null \in vs PROVE FALSE
  <2>1. f # "any_value" /\ (f \in Logical \/ (f \in Statistics \ PairFuncs /\ f \notin Logical /\ f \notin PairFuncs))
    BY <1>2 DEF Logical, Statistics, PairFuncs
  <2>2. ~ Dist
    BY <1>1, <1>2, <2>1
  <2>3. CASE f \in Logical
    BY <1>2, <2>2, <2>3 DEF Deviates, Dist, Logical, PairFuncs, Statistics
  <2>4. CASE f \in Statistics \ PairFuncs /\ f \notin Logical
    BY <1>2, <2>2, <2>4 DEF Deviates, Dist, Logical, PairFuncs, Statistics
  <2>5. QED
    BY <2>1, <2>3, <2>4
<1>3. ASSUME f \in Population PROVE Len(JsOf(i)) # 1
  <2>1. f # "any_value" /\ f \notin Logical /\ f \in Statistics /\ f \notin PairFuncs
    BY <1>3 DEF Population, Logical, Statistics, PairFuncs
  <2>2. ~ (Dist /\ Null \in vs)
    BY <1>1, <2>1
  <2> DEFINE n == Len(Counted(FrameRows(i), call.opt.ignoreNulls, call.opt.distinct))
  <2>3. Deviates(f, i, arg) =
          IF call.opt.distinct /\ Null \in vs THEN f # "any_value" ELSE
          CASE f \in Logical -> Null \in vs
            [] f \in PairFuncs -> left > 0
            [] f \in Statistics \ PairFuncs -> Null \in vs \/ (f \in Population /\ n = 1)
            [] f = "percentile_cont" -> IntV(0) \in vs /\ \A v \in vs : v = Null \/ Num(v) <= 0
            [] f = "percentile_disc" -> 0 < arg.quarters /\ arg.quarters * n <= 4
            [] OTHER -> FALSE
    BY Zenon DEF Deviates
  <2>4. n = Len(JsOf(i))
    BY DEF JsOf, Dist, Ign
  <2> HIDE DEF vs, n
  <2>5. f \notin {"percentile_cont", "percentile_disc"}
    BY <1>3 DEF Population
  <2>6. n # 1
    BY <1>3, <2>1, <2>2, <2>3, <2>5 DEF Dist
  <2>7. QED
    BY <2>4, <2>6
<1>4. QED
  BY <1>1, <1>2, <1>3

(* The functions of the values of a frame, served by the builder "single". *)
LEMMA WindowCall ==
  ASSUME IntegerWindows, CallInv, call.builder \in Appending
  PROVE  /\ Dist \in BOOLEAN /\ Ign \in BOOLEAN
         /\ call.builder = "constant" => ~ Dist
         /\ call.builder \in {"single", "count"} => RowVals(rows) \ {Null} \subseteq IntVs
<1>1. /\ {call.opt.distinct, call.opt.ignoreNulls} \subseteq BOOLEAN
      /\ call.builder = "constant" => ~ call.opt.distinct
  BY DEF IntegerWindows, CallInv
<1>2. ASSUME call.builder \in {"single", "count"}, NEW v \in RowVals(rows) \ {Null}
      PROVE  v \in IntVs
  <2>1. call.builder \in DOMAIN Inputs /\ rows \in Inputs[call.builder]
    BY InputsType DEF CallInv
  <2>2. PICK i \in DOMAIN rows : v = rows[i].val
    BY DEF RowVals
  <2>3. IsInt(v) /\ v # Null
    BY <1>2, <2>1, <2>2 DEF IntegerWindows
  <2>4. QED
    BY <2>3 DEF IsInt, IntVs
<1>3. QED
  BY <1>1, <1>2 DEF Dist, Ign

(* The values of the rows of a frame.                                      *)
LEMMA RangeIs ==
  ASSUME NEW l, NEW e, Within(rows, l, e)
  PROVE  Range(ValsBetween(rows, l, e)) = {rows[j].val : j \in (l + 1)..e}
<1> DEFINE V == ValsBetween(rows, l, e)
           n == e - l
<1>1. l \in Nat /\ e \in Nat /\ l <= e
  BY DEF Within
<1>2. V = [i \in 1..n |-> rows[l + i].val]
  BY BetweenIs DEF NextVals
<1>3. Range(V) = {rows[l + i].val : i \in 1..n}
  <2>1. DOMAIN V = 1..n /\ \A i \in 1..n : V[i] = rows[l + i].val
    BY <1>2
  <2> HIDE DEF V
  <2>2. QED
    BY <2>1 DEF Range
<1>4. \A i \in 1..n : l + i \in (l + 1)..e
  BY <1>1
<1>5. \A j \in (l + 1)..e : j - l \in 1..n /\ l + (j - l) = j
  BY <1>1
<1> HIDE DEF V, n
<1>6. QED
  BY <1>3, <1>4, <1>5 DEF V

(* What counts for the functions of the builder "single".                  *)
LEMMA SingleCounts ==
  ASSUME IntegerWindows, AnswerIInv, Windowed, Ready, call.builder = "single"
  PROVE  LET P == PassOf(agg.values, Ign, Dist)
         IN  /\ Counting(agg, at, P, NonNull(P))
             /\ Range(agg.values) = {rows[j].val : j \in FrameRows(at)}
             /\ ~ Ign => FirstKept(agg.values, P)
             /\ Null \notin Range(agg.values) => NonNull(P) = P
             /\ RelevantPanics(agg) => Dist /\ Null \in Range(agg.values)
<1> DEFINE V == ValsBetween(rows, left, entered)
           P == PassOf(agg.values, Ign, Dist)
           S == FrameRows(at)
           W == RowVals(rows)
<1>1. call.builder \in Appending
  BY DEF Appending
<1>2. S = (left + 1)..entered /\ Within(rows, left, entered) /\ agg.values = V /\ agg.opt = call.opt
  BY <1>1, StatusHeld DEF Held
<1>3. Dist \in BOOLEAN /\ Ign \in BOOLEAN /\ W \ {Null} \subseteq IntVs
  BY <1>1, WindowCall DEF AnswerIInv, FrameIInv
<1>4. FrameVals(S, V, Ign, Dist)
  BY <1>2, <1>3, FrameValsHold
<1>5. entered \in Nat /\ S \in SUBSET (1..entered)
  BY <1>2 DEF Within
<1>6. /\ FirstKept(KeptOf(V, Ign), Distinct(KeptOf(V, Ign)))
      /\ P \in Seq(W)
      /\ ValsAt(JsOf(at)) = P /\ ValsAt(NnOf(at)) = NonNull(P)
  BY <1>2, <1>4 DEF FrameVals, JsOf, NnOf
<1>7. PickedTo(JsOf(at), P) /\ PickedTo(NnOf(at), NonNull(P))
  <2>1. /\ PickedTo(JsOf(at), ValsAt(JsOf(at)))
        /\ PickedTo(NnOf(at), ValsAt(NnOf(at)))
    BY <1>3, <1>5, PickedOf DEF JsOf, NnOf
  <2>2. QED
    BY <1>6, <2>1
<1>8. NonNull(P) \in Seq(IntVs)
  <2>1. NonNull(P) \in Seq(W \ {Null})
    BY <1>6, NonNullType
  <2> HIDE DEF P, W
  <2>2. QED
    BY <1>3, <2>1
<1>9. RelevantValues(agg) = P
  BY <1>2 DEF RelevantValues, PassOf, KeptOf, Ign, Dist
<1>10. Counting(agg, at, P, NonNull(P))
  BY <1>6, <1>7, <1>8, <1>9 DEF Counting
<1>11. Range(agg.values) = {rows[j].val : j \in S}
  BY <1>2, RangeIs
<1>12. ASSUME ~ Ign PROVE FirstKept(agg.values, P)
  <2>1. KeptOf(V, Ign) = V
    BY <1>12 DEF KeptOf
  <2>2. CASE Dist
    BY <1>2, <1>6, <2>1, <2>2 DEF PassOf
  <2>3. CASE ~ Dist
    <3>1. P = agg.values
      BY <1>2, <2>1, <2>3 DEF PassOf
    <3>2. QED
      BY <3>1 DEF FirstKept
  <2>4. QED
    BY <2>2, <2>3
<1>13. ASSUME Null \notin Range(agg.values) PROVE NonNull(P) = P
  <2>1. \A j \in S : rows[j].val # Null
    BY <1>11, <1>13
  <2>2. JsOf(at) = NnOf(at)
    BY <1>3, <2>1, NoNulls DEF JsOf, NnOf
  <2>3. QED
    BY <1>6, <2>2
<1>14. RelevantPanics(agg) => Dist /\ Null \in Range(agg.values)
  BY <1>2 DEF RelevantPanics, Dist
<1>15. QED
  BY <1>10, <1>11, <1>12, <1>13, <1>14

LEMMA SingleMeans ==
  ASSUME IntegerWindows, AnswerIInv, Windowed, Ready, call.builder = "single",
         NEW f \in CallFuncs \cap FrameFuncs, NEW arg \in ArgsOf(f), ~ Deviates(f, at, arg)
  PROVE  Done(f, agg, arg) = FrameMeaning(f, at, arg)
<1> DEFINE P == PassOf(agg.values, Ign, Dist)
           vs == {rows[j].val : j \in FrameRows(at)}
<1>1. /\ Counting(agg, at, P, NonNull(P))
      /\ Range(agg.values) = vs
      /\ ~ Ign => FirstKept(agg.values, P)
      /\ Null \notin vs => NonNull(P) = P
      /\ RelevantPanics(agg) => Dist /\ Null \in vs
  BY SingleCounts
<1>2. /\ Dist /\ Null \in vs => f = "any_value"
      /\ f \in Logical \union (Statistics \ PairFuncs) => Null \notin vs
      /\ f \in Population => Len(JsOf(at)) # 1
  BY NotDeviating
<1> HIDE DEF P, vs
<1>3. RelevantPanics(agg) => f = "any_value"
  BY <1>1, <1>2
<1>4. Builder(f) = "single" /\ (Ign => f \in TakesNullOption)
  BY DEF CallFuncs, Ign
<1>5. f \notin {"count", "count_star"}
  BY <1>4 DEF Builder, RankBuilder
<1>6. CASE f \in {"array_agg", "avg", "countif"}
  <2>1. f \in ListFuncs
    BY <1>6 DEF ListFuncs
  <2>2. Done(f, agg, arg) = ListDone(f, agg)
    BY <1>3, <2>1, DoneIs
  <2>3. QED
    BY <1>1, <1>6, <2>2, ListAnswers
<1>7. CASE f \in ValuedFuncs
  <2>1. Done(f, agg, arg) = ValuedDone(f, agg)
    BY <1>3, <1>7, DoneIs
  <2>2. f \in {"max", "min", "string_agg", "sum"}
    BY <1>7 DEF ValuedFuncs
  <2>3. QED
    BY <1>1, <2>1, <2>2, MaxAnswers, MinAnswers, ValuedAnswers
<1>8. CASE f \in {"any_value", "first_value", "last_value", "nth_value"}
  <2>1. f \in Navigation
    BY <1>8 DEF Navigation
  <2>2. Done(f, agg, arg) = NavigationDone(f, agg, arg)
    BY <1>3, <2>1, DoneIs
  <2>3. f = "any_value" => FirstKept(agg.values, P)
    BY <1>1, <1>4 DEF TakesNullOption, Percentiles
  <2>4. f = "nth_value" => arg.offset \in Nat \ {0}
    BY DEF ArgsOf, Args
  <2>5. QED
    BY <1>1, <1>8, <2>2, <2>3, <2>4, NavigationAnswers
<1>9. CASE f \in Logical
  <2>1. Done(f, agg, arg) = LogicalDone(f, agg)
    BY <1>3, <1>9, DoneIs
  <2>2. Counting(agg, at, P, P)
    BY <1>1, <1>2, <1>9
  <2>3. f \in {"logical_and", "logical_or"}
    BY <1>9 DEF Logical
  <2>4. QED
    BY <2>1, <2>2, <2>3, LogicalAnswers
<1>10. CASE f \in Statistics \ PairFuncs
  <2>1. Done(f, agg, arg) = StatisticDone(f, agg)
    BY <1>3, <1>10, DoneIs
  <2>2. Counting(agg, at, P, P)
    BY <1>1, <1>2, <1>10
  <2>3. f \in Population => Len(P) # 1
    BY <1>2, <2>2 DEF Counting, PickedTo
  <2>4. QED
    BY <1>10, <2>1, <2>2, <2>3, StatisticAnswers
<1>11. QED
  BY <1>5, <1>6, <1>7, <1>8, <1>9, <1>10 DEF FrameFuncs, ListFuncs

(* COUNT, of the builder "count", which holds no NULL.                     *)
LEMMA CountMeans ==
  ASSUME IntegerWindows, AnswerIInv, Windowed, Ready, call.builder = "count",
         NEW f \in CallFuncs \cap FrameFuncs, NEW arg
  PROVE  Done(f, agg, arg) = FrameMeaning(f, at, arg)
<1> DEFINE V == ValsBetween(rows, left, entered)
           S == FrameRows(at)
<1>1. Builder(f) = "count" /\ (Ign => f \in TakesNullOption)
  BY DEF CallFuncs, Ign
<1>2. f = "count"
  BY <1>1 DEF Builder, RankBuilder
<1>3. ~ Ign
  BY <1>1, <1>2 DEF TakesNullOption, Percentiles
<1>4. call.builder \in Appending
  BY DEF Appending
<1>5. S = (left + 1)..entered /\ Within(rows, left, entered) /\ agg.values = NonNull(V) /\ agg.opt = call.opt
  BY <1>4, StatusHeld DEF Held
<1>6. Dist \in BOOLEAN
  BY <1>4, WindowCall DEF AnswerIInv, FrameIInv
<1>7. FrameVals(S, V, TRUE, Dist)
  BY <1>5, <1>6, FrameValsHold
<1>8. RelevantValues(agg) = PassOf(V, TRUE, Dist)
  BY <1>3, <1>5 DEF RelevantValues, PassOf, KeptOf, Ign, Dist
<1>9. ValsAt(NnOf(at)) = RelevantValues(agg)
  BY <1>7, <1>8 DEF FrameVals, NnOf
<1>10. Len(RelevantValues(agg)) = Len(NnOf(at))
  <2>1. entered \in Nat /\ S \in SUBSET (1..entered)
    BY <1>5 DEF Within
  <2>2. PickedTo(NnOf(at), ValsAt(NnOf(at)))
    BY <1>6, <2>1, PickedOf DEF NnOf
  <2>3. QED
    BY <1>9, <2>2 DEF PickedTo
<1>11. ~ RelevantPanics(agg)
  <2>1. NonNull(V) \in Seq(RowVals(rows) \ {Null})
    BY <1>5, BetweenIs, NonNullType
  <2>2. Null \notin Range(agg.values)
    BY <1>5, <2>1 DEF Range
  <2>3. QED
    BY <2>2 DEF RelevantPanics
<1>12. Done(f, agg, arg) = ListDone("count", agg)
  BY <1>2, <1>11, DoneIs DEF ListFuncs
<1>13. QED
  BY <1>2, <1>10, <1>12, MeaningIs DEF ListDone

(* COUNT( * ), of the builder "constant".                                  *)
LEMMA StarMeans ==
  ASSUME IntegerWindows, AnswerIInv, Windowed, Ready, call.builder = "constant",
         NEW f \in CallFuncs \cap FrameFuncs, NEW arg
  PROVE  Done(f, agg, arg) = FrameMeaning(f, at, arg)
<1>1. Builder(f) = "constant" /\ (Ign => f \in TakesNullOption)
  BY DEF CallFuncs, Ign
<1>2. f = "count_star"
  BY <1>1 DEF Builder, RankBuilder, FrameFuncs, ListFuncs, ValuedFuncs, Logical, Statistics, PairFuncs
<1>3. ~ Ign
  BY <1>1, <1>2 DEF TakesNullOption, Percentiles
<1>4. call.builder \in Appending
  BY DEF Appending
<1>5. ~ Dist
  BY <1>4, WindowCall DEF AnswerIInv, FrameIInv
<1>6. ListDone("count_star", agg) = IntV(Cardinality(FrameRows(at)))
  BY <1>3, <1>5, CountsImplied DEF WithoutOptions, Ign, Dist, CountsMean
<1>7. ~ RelevantPanics(agg)
  BY <1>4, <1>5, StatusHeld DEF RelevantPanics, Dist
<1>8. Done(f, agg, arg) = ListDone("count_star", agg)
  BY <1>2, <1>7, DoneIs DEF ListFuncs
<1>9. QED
  BY <1>2, <1>6, <1>8, MeaningIs

LEMMA FramesImplied ==
  ASSUME IntegerWindows, AnswerIInv
  PROVE  FrameResults
<1> SUFFICES ASSUME ~ IsGroup, ~ call.frame.exclude, Ready,
                    NEW f \in CallFuncs \cap FrameFuncs, NEW arg \in ArgsOf(f), ~ Deviates(f, at, arg)
             PROVE  Done(f, agg, arg) = FrameMeaning(f, at, arg)
  BY DEF FrameResults
<1>1. Windowed
  BY DEF Windowed
<1>2. call.builder = Builder(f)
  BY DEF CallFuncs
<1>3. Builder(f) \in {"single", "count", "constant"}
  <2>1. f \notin {"dense_rank", "percent_rank", "cume_dist", "ntile", "rank", "row_number", "corr", "covar_pop", "covar_samp"}
    BY DEF FrameFuncs, ListFuncs, ValuedFuncs, Logical, Statistics, PairFuncs
  <2>2. QED
    BY <2>1 DEF Builder, RankBuilder
<1>4. QED
  BY <1>1, <1>2, <1>3, SingleMeans, CountMeans, StarMeans

(* For partitions of any length, any frame without EXCLUDE and any options *)
(* of a call: whenever SQLite asks for a value, the functions of a frame's *)
(* values answer what they mean on the frame of that row, except where     *)
(* they deviate as Deviates says (the Done methods of function_window.go). *)
(* The values are INT64 or NULL, and COUNT( * ) takes no DISTINCT.         *)
THEOREM FramesMean ==
  ASSUME IntegerWindows
  PROVE  Spec => []FrameResults
<1>1. Init => AnswerIInv
  BY AnswerInit
<1>2. AnswerIInv /\ [Next]_vars => AnswerIInv'
  BY AnswerStep, IntegersCompare
<1>3. AnswerIInv => FrameResults
  BY FramesImplied
<1>4. QED
  BY <1>1, <1>2, <1>3, PTL DEF Spec

===============================================================================
