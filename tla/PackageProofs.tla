--------------------------- MODULE PackageProofs ---------------------------
(***************************************************************************)
(* What TLAPS proves about where packages come from.  TreeCache, for any   *)
(* tree, any requests and any nesting of sorted traversals: the cache is   *)
(* true of the tree whenever no request is on, and requests are answered   *)
(* from it as from the tree.  PkgFetch, for any index, any runs and any    *)
(* number of nested calls: what is merged was verified, and what verifies  *)
(* is not thrown away.                                                     *)
(***************************************************************************)
EXTENDS TreeCache, PkgFetch, SequenceTheorems, FiniteSetTheorems, WellFoundedInduction, TLAPS

-----------------------------------------------------------------------------
(* Sorting arrays.                                                         *)

\* Each element once.
Once(s) == \A i, j \in DOMAIN s : s[i] = s[j] => i = j

\* B[i] has what comes before i, in an order of 1..n.
Orders(B, n) ==
  /\ B \in [1..n -> SUBSET (1..n)]
  /\ \A i \in 1..n : i \notin B[i]
  /\ \A i, j \in 1..n : i # j => i \in B[j] \/ j \in B[i]
  /\ \A i, j \in 1..n : i \in B[j] => B[i] \subseteq B[j]

LEMMA RanksAscend ==
  ASSUME NEW n \in Nat, NEW B, Orders(B, n), NEW j \in 1..n, NEW i \in B[j]
  PROVE  /\ Cardinality(B[i]) < Cardinality(B[j])
         /\ Cardinality(B[i]) \in Nat /\ Cardinality(B[j]) \in Nat /\ Cardinality(B[j]) < n
<1>1. /\ B[j] \subseteq 1..n /\ j \notin B[j] /\ i \in 1..n /\ i \notin B[i]
      /\ B[i] \subseteq B[j]
  BY DEF Orders
<1>2. IsFiniteSet(1..n) /\ Cardinality(1..n) = n
  BY FS_Interval
<1>3. IsFiniteSet(B[j]) /\ Cardinality(B[j]) <= n /\ B[j] # 1..n
  BY <1>1, <1>2, FS_Subset
<1>4. Cardinality(B[j]) # n
  BY <1>1, <1>2, <1>3, FS_Subset
<1>5. IsFiniteSet(B[i]) /\ Cardinality(B[i]) <= Cardinality(B[j]) /\ B[i] # B[j]
  BY <1>1, <1>3, FS_Subset
<1>6. Cardinality(B[i]) # Cardinality(B[j])
  BY <1>1, <1>3, <1>5, FS_Subset
<1>7. Cardinality(B[i]) \in Nat /\ Cardinality(B[j]) \in Nat
  BY <1>3, <1>5, FS_CardinalityType
<1> QED
  BY <1>3, <1>4, <1>5, <1>6, <1>7

LEMMA RankBounds ==
  ASSUME NEW n \in Nat, NEW B, Orders(B, n), NEW i \in 1..n
  PROVE  Cardinality(B[i]) \in Nat /\ Cardinality(B[i]) < n
<1>1. B[i] \subseteq 1..n /\ i \notin B[i]
  BY DEF Orders
<1>2. IsFiniteSet(1..n) /\ Cardinality(1..n) = n
  BY FS_Interval
<1>3. IsFiniteSet(B[i]) /\ Cardinality(B[i]) <= n /\ B[i] # 1..n
  BY <1>1, <1>2, FS_Subset
<1>4. Cardinality(B[i]) # n
  BY <1>1, <1>2, <1>3, FS_Subset
<1>5. Cardinality(B[i]) \in Nat
  BY <1>3, FS_CardinalityType
<1> QED
  BY <1>3, <1>4, <1>5

LEMMA RanksDiffer ==
  ASSUME NEW n \in Nat, NEW B, Orders(B, n), NEW i \in 1..n, NEW j \in 1..n,
         Cardinality(B[i]) = Cardinality(B[j])
  PROVE  i = j
<1>1. SUFFICES ASSUME i # j PROVE FALSE
  OBVIOUS
<1>2. i \in B[j] \/ j \in B[i]
  BY <1>1 DEF Orders
<1>3. CASE i \in B[j]
  BY <1>3, RanksAscend
<1>4. CASE j \in B[i]
  BY <1>4, RanksAscend
<1> QED
  BY <1>2, <1>3, <1>4

\* Every place is taken.
LEMMA EveryRank ==
  ASSUME NEW n \in Nat, NEW B, Orders(B, n), NEW k \in 1..n
  PROVE  \E i \in 1..n : Cardinality(B[i]) = k - 1
<1> DEFINE r == [i \in 1..n |-> Cardinality(B[i]) + 1]
<1>1. r \in [1..n -> 1..n]
  BY RankBounds
<1>2. \A i, j \in 1..n : r[i] = r[j] => i = j
  <2> SUFFICES ASSUME NEW i \in 1..n, NEW j \in 1..n, r[i] = r[j] PROVE i = j
    OBVIOUS
  <2>1. Cardinality(B[i]) \in Nat /\ Cardinality(B[j]) \in Nat
    BY RankBounds
  <2>2. Cardinality(B[i]) = Cardinality(B[j])
    BY <2>1
  <2> QED
    BY <2>2, RanksDiffer
<1> HIDE DEF r
<1>3. r \in Injection(1..n, 1..n)
  BY <1>1, <1>2 DEF Injection, IsInjective
<1>4. IsFiniteSet(1..n)
  BY FS_Interval
<1>5. r \in Surjection(1..n, 1..n)
  BY <1>3, <1>4, FS_Injection
<1>6. PICK i \in 1..n : r[i] = k
  BY <1>5 DEF Surjection
<1>7. Cardinality(B[i]) \in Nat
  BY RankBounds
<1> QED
  BY <1>6, <1>7 DEF r

\* t has the elements of s in this order.
Arranged(t, s, B) ==
  t = [n \in DOMAIN s |-> s[CHOOSE i \in DOMAIN s : Cardinality(B[i]) = n - 1]]

LEMMA Arranging ==
  ASSUME NEW S, NEW s \in Seq(S), NEW B, Orders(B, Len(s)), NEW t, Arranged(t, s, B)
  PROVE  /\ t \in Seq(S) /\ Len(t) = Len(s) /\ ToSet(t) = ToSet(s)
         /\ Once(s) => Once(t)
         /\ \A k, l \in DOMAIN t : k < l =>
              \E i, j \in DOMAIN s : t[k] = s[i] /\ t[l] = s[j] /\ i \in B[j]
<1> DEFINE n == Len(s)
           g == [k \in 1..n |-> CHOOSE i \in 1..n : Cardinality(B[i]) = k - 1]
<1>1. n \in Nat /\ DOMAIN s = 1..n
  OBVIOUS
<1>2. \A k \in 1..n : g[k] \in 1..n /\ Cardinality(B[g[k]]) = k - 1
  BY <1>1, EveryRank
<1>3. t = [k \in 1..n |-> s[g[k]]]
  BY <1>1 DEF Arranged
<1>4. \A i \in 1..n : \E k \in 1..n : g[k] = i
  <2> SUFFICES ASSUME NEW i \in 1..n PROVE \E k \in 1..n : g[k] = i
    OBVIOUS
  <2>1. Cardinality(B[i]) \in Nat /\ Cardinality(B[i]) < n
    BY <1>1, RankBounds
  <2> DEFINE k == Cardinality(B[i]) + 1
  <2>2. k \in 1..n /\ k - 1 = Cardinality(B[i])
    BY <1>1, <2>1
  <2>3. g[k] = i
    BY <1>1, <1>2, <2>2, RanksDiffer
  <2> QED
    BY <2>2, <2>3
<1> HIDE DEF g
<1>5. t \in Seq(S) /\ Len(t) = n /\ DOMAIN t = 1..n
  BY <1>1, <1>2, <1>3
<1>6. ToSet(t) = ToSet(s)
  <2>1. \A i \in 1..n : \E k \in 1..n : t[k] = s[i]
    <3> SUFFICES ASSUME NEW i \in 1..n PROVE \E k \in 1..n : t[k] = s[i]
      OBVIOUS
    <3>1. PICK k \in 1..n : g[k] = i
      BY <1>4
    <3> QED
      BY <1>3, <3>1
  <2>2. \A k \in 1..n : \E i \in 1..n : t[k] = s[i]
    BY <1>2, <1>3
  <2>3. ToSet(t) = {t[k] : k \in 1..n} /\ ToSet(s) = {s[i] : i \in 1..n}
    BY <1>1, <1>5 DEF ToSet
  <2> HIDE DEF n
  <2> QED
    BY <2>1, <2>2, <2>3
<1>7. ASSUME NEW k \in 1..n, NEW l \in 1..n, k < l
      PROVE  g[k] \in B[g[l]] /\ g[k] # g[l]
  <2>1. g[k] \in 1..n /\ g[l] \in 1..n /\ Cardinality(B[g[k]]) = k - 1 /\ Cardinality(B[g[l]]) = l - 1
    BY <1>2
  <2>2. g[k] # g[l]
    BY <1>7, <2>1
  <2>3. g[l] \notin B[g[k]]
    <3> SUFFICES ASSUME g[l] \in B[g[k]] PROVE FALSE
      OBVIOUS
    <3>1. Cardinality(B[g[l]]) < Cardinality(B[g[k]])
      BY <1>1, <2>1, RanksAscend
    <3> QED
      BY <1>7, <2>1, <3>1
  <2> QED
    BY <1>1, <2>1, <2>2, <2>3 DEF Orders
<1>8. \A k, l \in 1..n : g[k] = g[l] => k = l
  <2> SUFFICES ASSUME NEW k \in 1..n, NEW l \in 1..n, k # l PROVE g[k] # g[l]
    OBVIOUS
  <2>1. k < l \/ l < k
    OBVIOUS
  <2> QED
    BY <2>1, <1>7
<1>9. Once(s) => Once(t)
  <2> SUFFICES ASSUME Once(s), NEW k \in 1..n, NEW l \in 1..n, t[k] = t[l] PROVE k = l
    BY <1>5 DEF Once
  <2>1. g[k] \in 1..n /\ g[l] \in 1..n /\ s[g[k]] = s[g[l]]
    BY <1>2, <1>3
  <2>2. g[k] = g[l]
    BY <1>1, <2>1 DEF Once
  <2> QED
    BY <1>8, <2>2
<1>10. ASSUME NEW k \in DOMAIN t, NEW l \in DOMAIN t, k < l
       PROVE  \E i, j \in DOMAIN s : t[k] = s[i] /\ t[l] = s[j] /\ i \in B[j]
  BY <1>1, <1>2, <1>3, <1>5, <1>7, <1>10
<1> QED
  BY <1>5, <1>6, <1>9, <1>10

Plains == [pn : Nat, ver : Nat]

LEMMA PkgOrder ==
  ASSUME NEW p \in Plains, NEW q \in Plains
  PROVE  /\ ~(PkgLess(p, q) /\ PkgLess(q, p))
         /\ \A r \in Plains : PkgLess(p, q) /\ ~PkgLess(r, q) => PkgLess(p, r)
         /\ \A r \in Plains : PkgLess(p, q) /\ ~PkgLess(p, r) => PkgLess(r, q)
BY DEF PkgLess, Plains

\* What sorting makes of an array that is not yet sorted.
PkgsBefore(s) ==
  [i \in DOMAIN s |-> {j \in DOMAIN s : PkgLess(s[j], s[i]) \/ (j < i /\ ~PkgLess(s[i], s[j]))}]

LEMMA PkgsArranged ==
  ASSUME NEW s \in Seq(Plains), NEW B, NEW t, B = PkgsBefore(s), Arranged(t, s, B)
  PROVE  /\ t \in Seq(Plains) /\ Len(t) = Len(s) /\ ToSet(t) = ToSet(s)
         /\ Once(s) => Once(t)
         /\ \A k, l \in DOMAIN t : k < l => ~PkgLess(t[l], t[k])
<1> DEFINE n == Len(s)
<1>1. n \in Nat /\ DOMAIN s = 1..n /\ \A i \in 1..n : s[i] \in Plains
  OBVIOUS
<1>2. \A p, q \in Plains : ~(PkgLess(p, q) /\ PkgLess(q, p))
  BY PkgOrder
<1>3. \A p, q, r \in Plains : PkgLess(p, q) /\ ~PkgLess(r, q) => PkgLess(p, r)
  BY PkgOrder
<1>4. \A p, q, r \in Plains : PkgLess(p, q) /\ ~PkgLess(p, r) => PkgLess(r, q)
  BY PkgOrder
<1>5. \A i, j \in 1..n : j \in B[i] <=> PkgLess(s[j], s[i]) \/ (j < i /\ ~PkgLess(s[i], s[j]))
  BY <1>1 DEF PkgsBefore
<1>6. Orders(B, n)
  <2>1. B \in [1..n -> SUBSET (1..n)]
    BY <1>1 DEF PkgsBefore
  <2>2. \A i \in 1..n : i \notin B[i]
    BY <1>1, <1>2, <1>5
  <2>3. \A i, j \in 1..n : i # j => i \in B[j] \/ j \in B[i]
    <3> SUFFICES ASSUME NEW i \in 1..n, NEW j \in 1..n, i < j PROVE i \in B[j] \/ j \in B[i]
      OBVIOUS
    <3> QED
      BY <1>5
  <2>4. ASSUME NEW i \in 1..n, NEW j \in 1..n, NEW k \in 1..n, i \in B[j], k \in B[i]
        PROVE  k \in B[j]
    <3>1. s[i] \in Plains /\ s[j] \in Plains /\ s[k] \in Plains
      BY <1>1
    <3>2. CASE PkgLess(s[i], s[j]) /\ PkgLess(s[k], s[i])
      BY <1>2, <1>3, <1>5, <3>1, <3>2
    <3>3. CASE PkgLess(s[i], s[j]) /\ ~PkgLess(s[i], s[k])
      BY <1>4, <1>5, <3>1, <3>3
    <3>4. CASE PkgLess(s[k], s[i]) /\ ~PkgLess(s[j], s[i])
      BY <1>3, <1>5, <3>1, <3>4
    <3>5. CASE i < j /\ k < i /\ ~PkgLess(s[j], s[i]) /\ ~PkgLess(s[i], s[k])
      <4>1. ~PkgLess(s[j], s[k])
        BY <1>3, <3>1, <3>5
      <4> QED
        BY <1>5, <3>5, <4>1
    <3> QED
      BY <1>5, <2>4, <3>2, <3>3, <3>4, <3>5
  <2> QED
    BY <2>1, <2>2, <2>3, <2>4 DEF Orders
<1>8. /\ t \in Seq(Plains) /\ Len(t) = Len(s) /\ ToSet(t) = ToSet(s)
      /\ Once(s) => Once(t)
      /\ \A k, l \in DOMAIN t : k < l =>
           \E i, j \in DOMAIN s : t[k] = s[i] /\ t[l] = s[j] /\ i \in B[j]
  BY <1>6, Arranging
<1>9. \A i, j \in 1..n : i \in B[j] => ~PkgLess(s[j], s[i])
  BY <1>1, <1>2, <1>5
<1>10. ASSUME NEW k \in DOMAIN t, NEW l \in DOMAIN t, k < l PROVE ~PkgLess(t[l], t[k])
  <2>1. PICK i \in DOMAIN s, j \in DOMAIN s : t[k] = s[i] /\ t[l] = s[j] /\ i \in B[j]
    BY <1>8, <1>10
  <2> QED
    BY <1>1, <1>9, <2>1
<1> QED
  BY <1>8, <1>10

LEMMA PkgsInOrder ==
  ASSUME NEW s \in Seq(Plains)
  PROVE  LET t == InOrder(s, PkgLess)
         IN  /\ t \in Seq(Plains) /\ Len(t) = Len(s) /\ ToSet(t) = ToSet(s)
             /\ Once(s) => Once(t)
             /\ \A k, l \in DOMAIN t : k < l => ~PkgLess(t[l], t[k])
<1> DEFINE t == InOrder(s, PkgLess)
<1>1. Arranged(t, s, PkgsBefore(s))
  BY DEF InOrder, Arranged, PkgsBefore
<1> HIDE DEF t
<1>2. /\ t \in Seq(Plains) /\ Len(t) = Len(s) /\ ToSet(t) = ToSet(s)
      /\ Once(s) => Once(t)
      /\ \A k, l \in DOMAIN t : k < l => ~PkgLess(t[l], t[k])
  BY <1>1, PkgsArranged
<1> QED
  BY <1>2 DEF t
LEMMA CatOrder ==
  ASSUME \A c \in Ids : ctx[c].name \in Nat, NEW p \in Ids, NEW q \in Ids
  PROVE  /\ ~(CatLess(p, q) /\ CatLess(q, p))
         /\ \A r \in Ids : CatLess(p, q) /\ ~CatLess(r, q) => CatLess(p, r)
         /\ \A r \in Ids : CatLess(p, q) /\ ~CatLess(p, r) => CatLess(r, q)
BY DEF CatLess

CatsBefore(s) ==
  [i \in DOMAIN s |-> {j \in DOMAIN s : CatLess(s[j], s[i]) \/ (j < i /\ ~CatLess(s[i], s[j]))}]

LEMMA CatsArranged ==
  ASSUME \A c \in Ids : ctx[c].name \in Nat, NEW s \in Seq(Ids), NEW B, NEW t,
         B = CatsBefore(s), Arranged(t, s, B)
  PROVE  /\ t \in Seq(Ids) /\ Len(t) = Len(s) /\ ToSet(t) = ToSet(s)
         /\ Once(s) => Once(t)
         /\ \A k, l \in DOMAIN t : k < l => ~CatLess(t[l], t[k])
<1> DEFINE n == Len(s)
<1>1. n \in Nat /\ DOMAIN s = 1..n /\ \A i \in 1..n : s[i] \in Ids
  OBVIOUS
<1>2. \A p, q \in Ids : ~(CatLess(p, q) /\ CatLess(q, p))
  BY CatOrder
<1>3. \A p, q, r \in Ids : CatLess(p, q) /\ ~CatLess(r, q) => CatLess(p, r)
  BY CatOrder
<1>4. \A p, q, r \in Ids : CatLess(p, q) /\ ~CatLess(p, r) => CatLess(r, q)
  BY CatOrder
<1>5. \A i, j \in 1..n : j \in B[i] <=> CatLess(s[j], s[i]) \/ (j < i /\ ~CatLess(s[i], s[j]))
  BY <1>1 DEF CatsBefore
<1>6. Orders(B, n)
  <2>1. B \in [1..n -> SUBSET (1..n)]
    BY <1>1 DEF CatsBefore
  <2>2. \A i \in 1..n : i \notin B[i]
    BY <1>1, <1>2, <1>5
  <2>3. \A i, j \in 1..n : i # j => i \in B[j] \/ j \in B[i]
    <3> SUFFICES ASSUME NEW i \in 1..n, NEW j \in 1..n, i < j PROVE i \in B[j] \/ j \in B[i]
      OBVIOUS
    <3> QED
      BY <1>5
  <2>4. ASSUME NEW i \in 1..n, NEW j \in 1..n, NEW k \in 1..n, i \in B[j], k \in B[i]
        PROVE  k \in B[j]
    <3>1. s[i] \in Ids /\ s[j] \in Ids /\ s[k] \in Ids
      BY <1>1
    <3>2. CASE CatLess(s[i], s[j]) /\ CatLess(s[k], s[i])
      BY <1>2, <1>3, <1>5, <3>1, <3>2
    <3>3. CASE CatLess(s[i], s[j]) /\ ~CatLess(s[i], s[k])
      BY <1>4, <1>5, <3>1, <3>3
    <3>4. CASE CatLess(s[k], s[i]) /\ ~CatLess(s[j], s[i])
      BY <1>3, <1>5, <3>1, <3>4
    <3>5. CASE i < j /\ k < i /\ ~CatLess(s[j], s[i]) /\ ~CatLess(s[i], s[k])
      <4>1. ~CatLess(s[j], s[k])
        BY <1>3, <3>1, <3>5
      <4> QED
        BY <1>5, <3>5, <4>1
    <3> QED
      BY <1>5, <2>4, <3>2, <3>3, <3>4, <3>5
  <2> QED
    BY <2>1, <2>2, <2>3, <2>4 DEF Orders
<1>8. /\ t \in Seq(Ids) /\ Len(t) = Len(s) /\ ToSet(t) = ToSet(s)
      /\ Once(s) => Once(t)
      /\ \A k, l \in DOMAIN t : k < l =>
           \E i, j \in DOMAIN s : t[k] = s[i] /\ t[l] = s[j] /\ i \in B[j]
  <2>1. s \in Seq(Ids) /\ Orders(B, Len(s)) /\ Arranged(t, s, B)
    BY <1>6
  <2> DEFINE I == Ids
  <2> HIDE DEF I
  <2>2. s \in Seq(I)
    BY DEF I
  <2>3. /\ t \in Seq(I) /\ Len(t) = Len(s) /\ ToSet(t) = ToSet(s)
        /\ Once(s) => Once(t)
        /\ \A k, l \in DOMAIN t : k < l =>
           \E i, j \in DOMAIN s : t[k] = s[i] /\ t[l] = s[j] /\ i \in B[j]
    BY <2>1, <2>2, Arranging
  <2> QED
    BY <2>3 DEF I
<1>9. \A i, j \in 1..n : i \in B[j] => ~CatLess(s[j], s[i])
  BY <1>1, <1>2, <1>5
<1>10. ASSUME NEW k \in DOMAIN t, NEW l \in DOMAIN t, k < l PROVE ~CatLess(t[l], t[k])
  <2>1. PICK i \in DOMAIN s, j \in DOMAIN s : t[k] = s[i] /\ t[l] = s[j] /\ i \in B[j]
    BY <1>8, <1>10
  <2> QED
    BY <1>1, <1>9, <2>1
<1> QED
  BY <1>8, <1>10

LEMMA CatsInOrder ==
  ASSUME \A c \in Ids : ctx[c].name \in Nat, NEW s \in Seq(Ids)
  PROVE  LET t == InOrder(s, CatLess)
         IN  /\ t \in Seq(Ids) /\ Len(t) = Len(s) /\ ToSet(t) = ToSet(s)
             /\ Once(s) => Once(t)
             /\ \A k, l \in DOMAIN t : k < l => ~CatLess(t[l], t[k])
<1> DEFINE t == InOrder(s, CatLess)
<1>1. Arranged(t, s, CatsBefore(s))
  BY DEF InOrder, Arranged, CatsBefore
<1> HIDE DEF t
<1>2. /\ t \in Seq(Ids) /\ Len(t) = Len(s) /\ ToSet(t) = ToSet(s)
      /\ Once(s) => Once(t)
      /\ \A k, l \in DOMAIN t : k < l => ~CatLess(t[l], t[k])
  BY <1>1, CatsArranged
<1> QED
  BY <1>2 DEF t

-----------------------------------------------------------------------------
(* The invariant.                                                          *)

CatRecord ==
  [name : Categories, pkgs : [elems : Seq(Plains), sorted : BOOLEAN], complete : BOOLEAN]

\* The array of categories has each category that was allocated.
CacheTyped ==
  /\ kind \in Kinds /\ {complete, crashed} \subseteq BOOLEAN
  /\ ctx \in Seq(CatRecord)
  /\ cats \in [elems : Seq(Ids), sorted : BOOLEAN]
  /\ Once(cats.elems) /\ ToSet(cats.elems) = Ids

CatLabels == {"cat", "hits", "pkgdir", "pkglist"}
CallRecord(c) ==
  [request |-> c.request, at |-> c.at, back |-> c.back, out |-> c.out,
   names |-> c.names, known |-> c.known, item |-> c.item, cat |-> c.cat,
   dirs |-> c.dirs, files |-> c.files, knownPkgs |-> c.knownPkgs,
   found |-> c.found, elem |-> c.elem]
CallTyped(c, n) ==
  /\ c = CallRecord(c)
  /\ c.at \in CatLabels \cup {"tree", "catdir", "catlist", "blocks", "done"}
  /\ c.back \in {"done", "catlist", "catdir"}
  /\ c.names \subseteq Categories /\ c.files \subseteq Disk
  /\ c.item \in Nat /\ c.elem \in Nat
  /\ c.at = "catlist" \/ c.back = "catlist" => c.item # 0
  /\ c.at \in CatLabels => c.cat \in 1..n
  /\ c.at = "blocks" => c.cat \in 0..n
CallsTyped ==
  /\ \/ calls = <<>>
     \/ Len(calls) = 1 /\ calls = <<calls[1]>>
     \/ Len(calls) = 2 /\ calls = <<calls[1], calls[2]>>
  /\ \A i \in 1..Len(calls) : CallTyped(calls[i], Len(ctx))
  /\ crashed => calls # <<>>

FlagsInv == CacheTyped /\ CallsTyped /\ FlagsTrue

\* Callbacks ask again in sorted traversals only, which visit no category before all
\* are known, and call back when a category is read.
Nested ==
  /\ \A i \in 1..Len(calls) :
       /\ calls[i].request.inner # None => Sorting(calls[i].request)
       /\ Sorting(calls[i].request) /\ calls[i].at \in CatLabels => calls[i].back # "catdir"
  /\ Len(calls) = 2 =>
       /\ Sorting(calls[1].request) /\ Sorting(calls[2].request)
       /\ calls[1].at \in {"hits", "pkglist"}

NamesIn == {ctx[c].name : c \in Ids}
Loading == calls # <<>> /\ Call.at = "blocks"
Reading(c) == calls # <<>> /\ Call.at = "pkgdir" /\ Call.cat = c
Walking == calls # <<>> /\ (Call.at = "catdir" \/ (Call.at \in CatLabels /\ Call.back = "catdir"))
FromFile == kind \in {"packages", "gtree"}

\* Every category is cached once; all of them when all were read.
CatsInv ==
  /\ \A c, d \in Ids : ctx[c].name = ctx[d].name => c = d
  /\ complete /\ ~FromFile => NamesIn = Categories
  /\ Walking =>
       /\ ~FromFile
       /\ Categories \ Call.names \subseteq NamesIn
       /\ ~Call.known => Call.names \cap NamesIn = {}

\* The packages of a category that were read.
Held(c) == {p \in InDir(ctx[c]) : [pn |-> p.pn, ver |-> p.ver] \in ToSet(ctx[c].pkgs.elems)}

\* All or none of each name is held.
Whole(c, p) == \A q \in InDir(ctx[c]) : q.pn = p.pn => q \in Held(c)

\* A file is read before anything is asked of it.
FileInv ==
  FromFile =>
    /\ complete => \A c \in Ids : ctx[c].complete
    /\ ~complete /\ ~Loading => Ids = {}

LoadInv ==
  Loading =>
    /\ FromFile /\ ~complete
    /\ \A c \in Ids : ~ctx[c].complete /\ Held(c) = InDir(ctx[c]) \ Call.files
    /\ \A p \in Disk \ Call.files : p.cat \in NamesIn
    /\ Call.cat = 0 => Ids = {}
    /\ kind = "gtree" /\ Call.cat # 0 =>
         /\ \A c \in Ids : ctx[c].name <= ctx[Call.cat].name
         /\ \A q \in Call.files : ctx[Call.cat].name <= q.cat

PkgsInv ==
  \A c \in Ids : LET s == ctx[c].pkgs.elems IN
    /\ Once(s) /\ ToSet(s) \subseteq Plain(InDir(ctx[c]))
    /\ ctx[c].complete => Held(c) = InDir(ctx[c])
    /\ ~ctx[c].complete /\ ~Reading(c) /\ ~Loading =>
         /\ \A p \in Held(c) : Whole(c, p)
         /\ kind = "vdb" => Held(c) = {}

\* What is still to be read of a category is not held.
ReadInv ==
  \A c \in Ids : Reading(c) =>
    /\ ~FromFile /\ ~ctx[c].complete
    /\ Call.files \subseteq InDir(ctx[c]) /\ Call.files \cap Held(c) = {}
    /\ IF kind = "ebuild" /\ FilterName
       THEN /\ Call.dirs = {}
            /\ \A p \in NamedDir(ctx[c], Query.pn) : p \in Call.files \/ p \in Held(c)
            /\ \A p \in Call.files : p.pn = Query.pn
            /\ \A p \in Held(c) : p.pn # Query.pn => Whole(c, p)
       ELSE /\ \A p \in InDir(ctx[c]) : p \in Held(c) \/ p \in Call.files \/ p.pn \in Call.dirs
            /\ \A p \in Call.files : p.pn \notin Call.dirs
            /\ \A p \in Held(c) : p.pn \in Call.dirs => Call.knownPkgs

HeldInv == Nested /\ CatsInv /\ FileInv /\ LoadInv /\ PkgsInv /\ ReadInv
CacheInv == FlagsInv /\ (~crashed => HeldInv)

-----------------------------------------------------------------------------
(* Arrays in the cache.                                                    *)

LEMMA CtxFacts ==
  ASSUME CacheTyped
  PROVE  /\ Len(ctx) \in Nat /\ Ids = DOMAIN ctx
         /\ \A c \in Ids : /\ ctx[c] \in CatRecord /\ ctx[c].name \in Categories /\ ctx[c].name \in Nat
                           /\ ctx[c].pkgs.elems \in Seq(Plains) /\ ctx[c].pkgs.sorted \in BOOLEAN
                           /\ ctx[c].complete \in BOOLEAN
<1>1. Len(ctx) \in Nat /\ Ids = DOMAIN ctx
  BY DEF CacheTyped, Ids
<1>2. ASSUME NEW c \in Ids PROVE ctx[c] \in CatRecord
  BY <1>1 DEF CacheTyped, Ids
<1>3. \A r \in CatRecord : /\ r.name \in Categories /\ r.name \in Nat
                           /\ r.pkgs.elems \in Seq(Plains) /\ r.pkgs.sorted \in BOOLEAN
                           /\ r.complete \in BOOLEAN
  BY CacheAssumption DEF CatRecord
<1> QED
  BY <1>1, <1>2, <1>3

\* An array is in order if it says so.
PkgsFlag(arr) ==
  arr.sorted => \A i, j \in DOMAIN arr.elems : i < j => ~PkgLess(arr.elems[j], arr.elems[i])

LEMMA SortedPkgsFacts ==
  ASSUME CacheTyped, FlagsTrue, NEW c \in Ids
  PROVE  LET arr == SortedPkgs(c)
         IN  /\ arr \in [elems : Seq(Plains), sorted : BOOLEAN] /\ PkgsFlag(arr)
             /\ Len(arr.elems) = Len(ctx[c].pkgs.elems)
             /\ ToSet(arr.elems) = ToSet(ctx[c].pkgs.elems)
             /\ Once(ctx[c].pkgs.elems) => Once(arr.elems)
<1> DEFINE s == ctx[c].pkgs.elems
           t == InOrder(s, PkgLess)
<1>1. s \in Seq(Plains) /\ ctx[c].pkgs \in [elems : Seq(Plains), sorted : BOOLEAN]
  BY CtxFacts DEF CatRecord
<1>2. /\ t \in Seq(Plains) /\ Len(t) = Len(s) /\ ToSet(t) = ToSet(s)
      /\ Once(s) => Once(t)
      /\ \A k, l \in DOMAIN t : k < l => ~PkgLess(t[l], t[k])
  BY <1>1, PkgsInOrder
<1>3. SortedPkgs(c) = IF ctx[c].pkgs.sorted THEN ctx[c].pkgs ELSE [elems |-> t, sorted |-> TRUE]
  BY DEF SortedPkgs, SortedBy
<1>4. PkgsFlag(ctx[c].pkgs)
  BY DEF FlagsTrue, PkgsFlag
<1> HIDE DEF t
<1> QED
  BY <1>1, <1>2, <1>3, <1>4 DEF PkgsFlag

CatsFlag(arr) ==
  arr.sorted => \A i, j \in DOMAIN arr.elems :
    i < j => ctx[arr.elems[i]].name <= ctx[arr.elems[j]].name

LEMMA SortedCatsFacts ==
  ASSUME CacheTyped, FlagsTrue
  PROVE  /\ SortedCats \in [elems : Seq(Ids), sorted : BOOLEAN] /\ CatsFlag(SortedCats)
         /\ Once(SortedCats.elems) /\ ToSet(SortedCats.elems) = Ids
<1> DEFINE s == cats.elems
           t == InOrder(s, CatLess)
<1>1. s \in Seq(Ids) /\ cats \in [elems : Seq(Ids), sorted : BOOLEAN] /\ Once(s) /\ ToSet(s) = Ids
  BY DEF CacheTyped
<1>2. \A c \in Ids : ctx[c].name \in Nat
  BY CtxFacts
<1>3. /\ t \in Seq(Ids) /\ Len(t) = Len(s) /\ ToSet(t) = ToSet(s)
      /\ Once(s) => Once(t)
      /\ \A k, l \in DOMAIN t : k < l => ~CatLess(t[l], t[k])
  BY <1>1, <1>2, CatsInOrder
<1>4. SortedCats = IF cats.sorted THEN cats ELSE [elems |-> t, sorted |-> TRUE]
  BY DEF SortedCats, SortedBy
<1>5. CatsFlag(cats)
  BY DEF FlagsTrue, CatsFlag
<1> HIDE DEF t
<1>6. \A k \in DOMAIN t : t[k] \in Ids
  BY <1>3
<1>7. \A k, l \in DOMAIN t : k < l => ctx[t[k]].name <= ctx[t[l]].name
  BY <1>2, <1>3, <1>6 DEF CatLess
<1>8. CASE cats.sorted
  BY <1>1, <1>4, <1>5, <1>8
<1>9. CASE ~cats.sorted
  <2>1. SortedCats = [elems |-> t, sorted |-> TRUE]
    BY <1>4, <1>9
  <2> QED
    BY <1>1, <1>3, <1>7, <2>1 DEF CatsFlag
<1> QED
  BY <1>8, <1>9

\* The place of the first element with a property, or 0.
LEMMA LeastOf ==
  ASSUME NEW I \in SUBSET Nat, I # {}
  PROVE  Min(I) \in I /\ \A i \in I : Min(I) <= i
<1>1. PICK i \in I : \A j \in I : ~(<<j, i>> \in OpToRel(<, Nat))
  <2>1. IsWellFoundedOn(OpToRel(<, Nat), Nat)
    BY NatLessThanWellFounded
  <2> QED
    BY <2>1, WFMin
<1>2. \A j, k \in Nat : ~(<<j, k>> \in OpToRel(<, Nat)) => k <= j
  BY DEF OpToRel
<1>3. \A j \in I : i <= j
  BY <1>1, <1>2
<1> QED
  BY <1>3 DEF Min

LEMMA FindCatIs ==
  ASSUME CacheTyped, FlagsTrue, NEW name
  PROVE  \/ FindCat(name) = 0 /\ \A c \in Ids : ctx[c].name # name
         \/ FindCat(name) \in Ids /\ FindCat(name) # 0 /\ ctx[FindCat(name)].name = name
<1> DEFINE s == SortedCats.elems
           I == {i \in 1..Len(s) : ctx[s[i]].name = name}
           at == IF I # {} THEN Min(I) ELSE 0
<1>1. s \in Seq(Ids) /\ ToSet(s) = Ids
  BY SortedCatsFacts
<1>2. FindCat(name) = IF at = 0 THEN 0 ELSE s[at]
  BY DEF FindCat, SelectInSeq
<1>3. \A c \in Ids : \E i \in 1..Len(s) : s[i] = c
  BY <1>1 DEF ToSet
<1>4. CASE I = {}
  BY <1>2, <1>3, <1>4
<1>5. CASE I # {}
  <2>0. I \in SUBSET Nat
    OBVIOUS
  <2>1. at \in I
    <3> HIDE DEF I
    <3> QED
      BY <1>5, <2>0, LeastOf
  <2>2. at \in 1..Len(s) /\ ctx[s[at]].name = name /\ s[at] \in Ids
    <3>1. at \in 1..Len(s) /\ ctx[s[at]].name = name
      <4> HIDE DEF at
      <4> QED
        BY <2>1
    <3> HIDE DEF at
    <3> QED
      BY <1>1, <3>1
  <2> HIDE DEF at, s
  <2>3. FindCat(name) = s[at]
    BY <1>2, <2>2
  <2> QED
    BY <2>2, <2>3 DEF Ids
<1> QED
  BY <1>4, <1>5

LEMMA FindPkgIs ==
  ASSUME CacheTyped, FlagsTrue, NEW c \in Ids, NEW pn
  PROVE  /\ FindPkg(c, pn) \in Nat
         /\ FindPkg(c, pn) = 0 <=> \A p \in ToSet(ctx[c].pkgs.elems) : p.pn # pn
<1> DEFINE s == SortedPkgs(c).elems
           I == {i \in 1..Len(s) : s[i].pn = pn}
<1>1. s \in Seq(Plains) /\ ToSet(s) = ToSet(ctx[c].pkgs.elems)
  BY SortedPkgsFacts
<1>2. FindPkg(c, pn) = IF I # {} THEN Min(I) ELSE 0
  BY DEF FindPkg, SelectInSeq
<1>3. I = {} <=> \A p \in ToSet(s) : p.pn # pn
  BY <1>1 DEF ToSet
<1>0. I \in SUBSET Nat
  OBVIOUS
<1>4. I # {} => Min(I) \in I
  <2> HIDE DEF I
  <2> QED
    BY <1>0, LeastOf
<1> HIDE DEF s
<1>5. I # {} => Min(I) \in 1..Len(s)
  BY <1>4
<1> HIDE DEF I
<1> QED
  BY <1>1, <1>2, <1>3, <1>5

-----------------------------------------------------------------------------
(* Steps of the cache.                                                     *)

PkgsMoved(c) ==
  \/ ctx'[c].pkgs = ctx[c].pkgs
  \/ ctx'[c].pkgs = SortedPkgs(c)
  \/ \E p \in Plains : ctx'[c].pkgs = Appended(ctx[c].pkgs, p)

\* No category is added, and only packages and the flag of one change.
CtxMoved ==
  /\ Len(ctx') = Len(ctx) /\ DOMAIN ctx' = Ids /\ ctx' = [c \in Ids |-> ctx'[c]]
  /\ \A c \in Ids :
       /\ ctx'[c] = [name |-> ctx[c].name, pkgs |-> ctx'[c].pkgs, complete |-> ctx'[c].complete]
       /\ ctx'[c].complete \in BOOLEAN /\ PkgsMoved(c)
CatsMoved == cats' = cats \/ cats' = SortedCats
FlagsMoved == kind' = kind /\ {complete', crashed'} \subseteq BOOLEAN

LEMMA RecordOf ==
  ASSUME CacheTyped, NEW c \in Ids
  PROVE  ctx[c] = [name |-> ctx[c].name, pkgs |-> ctx[c].pkgs, complete |-> ctx[c].complete]
<1>1. ctx[c] \in CatRecord
  BY CtxFacts
<1> QED
  BY <1>1 DEF CatRecord

LEMMA RecordExcept ==
  ASSUME NEW r, r = [name |-> r.name, pkgs |-> r.pkgs, complete |-> r.complete], NEW x
  PROVE  /\ [r EXCEPT !.pkgs = x] = [name |-> r.name, pkgs |-> x, complete |-> r.complete]
         /\ [r EXCEPT !.complete = x] = [name |-> r.name, pkgs |-> r.pkgs, complete |-> x]
OBVIOUS

LEMMA ExceptAt ==
  ASSUME NEW s, NEW n \in Nat, DOMAIN s = 1..n, NEW i \in 1..n, NEW v,
         NEW t, t = [s EXCEPT ![i] = v]
  PROVE  /\ Len(t) = n /\ DOMAIN t = 1..n /\ t = [j \in 1..n |-> t[j]]
         /\ t[i] = v /\ \A j \in 1..n : j # i => t[j] = s[j]
<1>1. DOMAIN t = 1..n /\ t = [j \in DOMAIN t |-> t[j]]
  OBVIOUS
<1>2. t[i] = v /\ \A j \in 1..n : j # i => t[j] = s[j]
  OBVIOUS
<1>3. Len(t) = n
  BY <1>1
<1> QED
  BY <1>1, <1>2, <1>3

LEMMA CtxSame == ASSUME CacheTyped, ctx' = ctx PROVE CtxMoved
<1>1. /\ Ids = DOMAIN ctx /\ \A c \in Ids : ctx[c].complete \in BOOLEAN
  BY CtxFacts
<1>2. ctx = [c \in DOMAIN ctx |-> ctx[c]]
  BY DEF CacheTyped
<1>3. \A c \in Ids :
        ctx[c] = [name |-> ctx[c].name, pkgs |-> ctx[c].pkgs, complete |-> ctx[c].complete]
  BY RecordOf
<1> QED
  BY <1>1, <1>2, <1>3 DEF CtxMoved, PkgsMoved

PkgsPut(c, x) == ctx' = [ctx EXCEPT ![c].pkgs = x]
CompletePut(c, b) == ctx' = [ctx EXCEPT ![c].complete = b]
CompleteAll(b) == ctx' = [c \in DOMAIN ctx |-> [ctx[c] EXCEPT !.complete = b]]

LEMMA OnePkgs ==
  ASSUME CacheTyped, NEW c \in Ids, NEW x, PkgsPut(c, x),
         \/ x = ctx[c].pkgs \/ x = SortedPkgs(c)
         \/ \E p \in Plains : x = Appended(ctx[c].pkgs, p)
  PROVE  /\ CtxMoved /\ \A d \in Ids : d # c => ctx'[d] = ctx[d]
         /\ ctx'[c].pkgs = x /\ ctx'[c].complete = ctx[c].complete /\ ctx'[c].name = ctx[c].name
<1>0. DOMAIN ctx = 1..Len(ctx) /\ Len(ctx) \in Nat
  BY DEF CacheTyped
<1>1. /\ Ids = DOMAIN ctx /\ \A d \in Ids : ctx[d].complete \in BOOLEAN
  BY CtxFacts
<1> DEFINE r == [ctx[c] EXCEPT !.pkgs = x]
<1>8. ctx' = [ctx EXCEPT ![c] = r]
  BY DEF PkgsPut
<1> HIDE DEF r
<1>2. Len(ctx') = Len(ctx) /\ DOMAIN ctx' = Ids /\ ctx' = [d \in Ids |-> ctx'[d]]
  <2>1. c \in 1..Len(ctx)
    BY <1>0, <1>1
  <2>2. Len(ctx') = Len(ctx) /\ DOMAIN ctx' = 1..Len(ctx) /\ ctx' = [j \in 1..Len(ctx) |-> ctx'[j]]
    <3> DEFINE t == ctx'
               n == Len(ctx)
    <3>1. n \in Nat /\ DOMAIN ctx = 1..n /\ c \in 1..n /\ t = [ctx EXCEPT ![c] = r]
      BY <1>0, <1>8, <2>1
    <3> HIDE DEF t, n
    <3>3. DOMAIN t = 1..n /\ t = [j \in DOMAIN t |-> t[j]]
      BY <3>1
    <3>4. Len(t) = n
      BY <3>1, <3>3
    <3>2. Len(t) = n /\ DOMAIN t = 1..n /\ t = [j \in 1..n |-> t[j]]
      BY <3>3, <3>4
    <3> QED
      BY <3>2 DEF t, n
  <2> QED
    BY <1>0, <1>1, <2>2
<1>3. \A d \in Ids :
        ctx[d] = [name |-> ctx[d].name, pkgs |-> ctx[d].pkgs, complete |-> ctx[d].complete]
  BY RecordOf
<1>4. ctx'[c] = r /\ \A d \in Ids : d # c => ctx'[d] = ctx[d]
  BY <1>0, <1>1, <1>8, ExceptAt
<1>5. ctx'[c] = [name |-> ctx[c].name, pkgs |-> x, complete |-> ctx[c].complete]
  BY <1>3, <1>4, RecordExcept DEF r
<1>6. PkgsMoved(c)
  BY <1>5 DEF PkgsMoved
<1>7. \A d \in Ids : d # c => PkgsMoved(d)
  BY <1>4 DEF PkgsMoved
<1> QED
  BY <1>1, <1>2, <1>3, <1>4, <1>5, <1>6, <1>7 DEF CtxMoved

LEMMA OneComplete ==
  ASSUME CacheTyped, NEW c \in Ids, NEW b \in BOOLEAN, CompletePut(c, b)
  PROVE  /\ CtxMoved /\ \A d \in Ids : d # c => ctx'[d] = ctx[d]
         /\ ctx'[c].pkgs = ctx[c].pkgs /\ ctx'[c].complete = b /\ ctx'[c].name = ctx[c].name
<1>0. DOMAIN ctx = 1..Len(ctx) /\ Len(ctx) \in Nat
  BY DEF CacheTyped
<1>1. /\ Ids = DOMAIN ctx /\ \A d \in Ids : ctx[d].complete \in BOOLEAN
  BY CtxFacts
<1> DEFINE r == [ctx[c] EXCEPT !.complete = b]
<1>8. ctx' = [ctx EXCEPT ![c] = r]
  BY DEF CompletePut
<1> HIDE DEF r
<1>2. Len(ctx') = Len(ctx) /\ DOMAIN ctx' = Ids /\ ctx' = [d \in Ids |-> ctx'[d]]
  <2>1. c \in 1..Len(ctx)
    BY <1>0, <1>1
  <2>2. Len(ctx') = Len(ctx) /\ DOMAIN ctx' = 1..Len(ctx) /\ ctx' = [j \in 1..Len(ctx) |-> ctx'[j]]
    <3> DEFINE t == ctx'
               n == Len(ctx)
    <3>1. n \in Nat /\ DOMAIN ctx = 1..n /\ c \in 1..n /\ t = [ctx EXCEPT ![c] = r]
      BY <1>0, <1>8, <2>1
    <3> HIDE DEF t, n
    <3>3. DOMAIN t = 1..n /\ t = [j \in DOMAIN t |-> t[j]]
      BY <3>1
    <3>4. Len(t) = n
      BY <3>1, <3>3
    <3>2. Len(t) = n /\ DOMAIN t = 1..n /\ t = [j \in 1..n |-> t[j]]
      BY <3>3, <3>4
    <3> QED
      BY <3>2 DEF t, n
  <2> QED
    BY <1>0, <1>1, <2>2
<1>3. \A d \in Ids :
        ctx[d] = [name |-> ctx[d].name, pkgs |-> ctx[d].pkgs, complete |-> ctx[d].complete]
  BY RecordOf
<1>4. ctx'[c] = r /\ \A d \in Ids : d # c => ctx'[d] = ctx[d]
  BY <1>0, <1>1, <1>8, ExceptAt
<1>5. ctx'[c] = [name |-> ctx[c].name, pkgs |-> ctx[c].pkgs, complete |-> b]
  BY <1>3, <1>4, RecordExcept DEF r
<1>6. \A d \in Ids : PkgsMoved(d)
  BY <1>4, <1>5 DEF PkgsMoved
<1> QED
  BY <1>1, <1>2, <1>3, <1>4, <1>5, <1>6 DEF CtxMoved

LEMMA EveryComplete ==
  ASSUME CacheTyped, NEW b \in BOOLEAN, CompleteAll(b)
  PROVE  /\ CtxMoved
         /\ \A c \in Ids : ctx'[c].pkgs = ctx[c].pkgs /\ ctx'[c].complete = b /\ ctx'[c].name = ctx[c].name
<1>1. Ids = DOMAIN ctx /\ DOMAIN ctx = 1..Len(ctx) /\ Len(ctx) \in Nat
  BY CtxFacts DEF Ids
<1>2. Len(ctx') = Len(ctx) /\ DOMAIN ctx' = Ids /\ ctx' = [d \in Ids |-> ctx'[d]]
  BY <1>1 DEF CompleteAll
<1>3. \A d \in Ids :
        ctx[d] = [name |-> ctx[d].name, pkgs |-> ctx[d].pkgs, complete |-> ctx[d].complete]
  BY RecordOf
<1>4. ASSUME NEW d \in Ids
      PROVE  ctx'[d] = [name |-> ctx[d].name, pkgs |-> ctx[d].pkgs, complete |-> b]
  <2>1. ctx'[d] = [ctx[d] EXCEPT !.complete = b]
    BY <1>1 DEF CompleteAll
  <2> QED
    BY <1>3, <2>1, RecordExcept
<1>5. \A d \in Ids : PkgsMoved(d)
  <2> SUFFICES ASSUME NEW d \in Ids PROVE ctx'[d].pkgs = ctx[d].pkgs
    BY DEF PkgsMoved
  <2>1. ctx'[d] = [name |-> ctx[d].name, pkgs |-> ctx[d].pkgs, complete |-> b]
    BY <1>4
  <2> QED
    BY <2>1
<1>6. ASSUME NEW d \in Ids
      PROVE  /\ ctx'[d] = [name |-> ctx[d].name, pkgs |-> ctx'[d].pkgs, complete |-> ctx'[d].complete]
             /\ ctx'[d].pkgs = ctx[d].pkgs /\ ctx'[d].complete = b /\ ctx'[d].name = ctx[d].name
  <2>1. ctx'[d] = [name |-> ctx[d].name, pkgs |-> ctx[d].pkgs, complete |-> b]
    BY <1>4
  <2> QED
    BY <2>1
<1> QED
  BY <1>2, <1>5, <1>6 DEF CtxMoved

LEMMA MovedTyped ==
  ASSUME CacheTyped, FlagsTrue, FlagsMoved, CatsMoved, CtxMoved
  PROVE  CacheTyped' /\ FlagsTrue' /\ Ids' = Ids
<1>1. Ids' = Ids /\ Ids = 1..Len(ctx) /\ Len(ctx) \in Nat
  BY CtxFacts DEF CtxMoved, Ids
<1>2. ASSUME NEW c \in Ids
      PROVE  ctx'[c] \in CatRecord /\ PkgsFlag(ctx'[c].pkgs)
  <2>1. /\ ctx[c].name \in Categories /\ ctx[c] \in CatRecord
        /\ ctx[c].pkgs \in [elems : Seq(Plains), sorted : BOOLEAN]
    BY CtxFacts DEF CatRecord
  <2>2. PkgsFlag(ctx[c].pkgs)
    BY DEF FlagsTrue, PkgsFlag
  <2>3. SortedPkgs(c) \in [elems : Seq(Plains), sorted : BOOLEAN] /\ PkgsFlag(SortedPkgs(c))
    BY SortedPkgsFacts
  <2>4. \A p \in Plains : /\ Appended(ctx[c].pkgs, p) \in [elems : Seq(Plains), sorted : BOOLEAN]
                          /\ PkgsFlag(Appended(ctx[c].pkgs, p))
    BY <2>1 DEF Appended, PkgsFlag
  <2>5. ctx'[c].pkgs \in [elems : Seq(Plains), sorted : BOOLEAN] /\ PkgsFlag(ctx'[c].pkgs)
    BY <2>1, <2>2, <2>3, <2>4 DEF CtxMoved, PkgsMoved
  <2>6. /\ ctx'[c] = [name |-> ctx[c].name, pkgs |-> ctx'[c].pkgs, complete |-> ctx'[c].complete]
        /\ ctx'[c].complete \in BOOLEAN
    BY DEF CtxMoved
  <2> QED
    BY <2>1, <2>5, <2>6 DEF CatRecord
<1>3. ctx' \in Seq(CatRecord)
  BY <1>1, <1>2 DEF CtxMoved
<1>4. cats' \in [elems : Seq(Ids), sorted : BOOLEAN] /\ CatsFlag(cats')
      /\ Once(cats'.elems) /\ ToSet(cats'.elems) = Ids
  <2>1. cats \in [elems : Seq(Ids), sorted : BOOLEAN] /\ CatsFlag(cats)
        /\ Once(cats.elems) /\ ToSet(cats.elems) = Ids
    BY DEF CacheTyped, FlagsTrue, CatsFlag
  <2> QED
    BY <2>1, SortedCatsFacts DEF CatsMoved
<1>5. CacheTyped'
  BY <1>1, <1>3, <1>4 DEF CacheTyped, FlagsMoved
<1>6. \A c \in Ids : ctx'[c].name = ctx[c].name
  BY DEF CtxMoved
<1>7. cats'.sorted => \A i, j \in DOMAIN cats'.elems :
        i < j => ctx'[cats'.elems[i]].name <= ctx'[cats'.elems[j]].name
  <2>1. \A i \in DOMAIN cats'.elems : cats'.elems[i] \in Ids
    BY <1>4
  <2> QED
    BY <1>4, <1>6, <2>1 DEF CatsFlag
<1>8. FlagsTrue'
  BY <1>1, <1>2, <1>7 DEF FlagsTrue, PkgsFlag
<1> QED
  BY <1>1, <1>5, <1>8

\* A category is added.
CtxGrown(r) ==
  /\ ctx' = Append(ctx, r)
  /\ \/ cats' = Appended(cats, Len(ctx) + 1)
     \/ cats' = Appended(SortedCats, Len(ctx) + 1)

LEMMA GrownTyped ==
  ASSUME CacheTyped, FlagsTrue, FlagsMoved,
         NEW r \in CatRecord, PkgsFlag(r.pkgs), CtxGrown(r)
  PROVE  /\ CacheTyped' /\ FlagsTrue' /\ Ids' = Ids \cup {Len(ctx) + 1} /\ Len(ctx) + 1 \notin Ids
         /\ Len(ctx') = Len(ctx) + 1 /\ Len(ctx) \in Nat
         /\ \A c \in Ids : ctx'[c] = ctx[c]
         /\ ctx'[Len(ctx) + 1] = r
<1>1. Len(ctx) \in Nat /\ Ids = 1..Len(ctx) /\ ctx \in Seq(CatRecord)
  BY CtxFacts DEF Ids, CacheTyped
<1>2. /\ ctx' \in Seq(CatRecord) /\ Len(ctx') = Len(ctx) + 1
      /\ \A c \in Ids : ctx'[c] = ctx[c]
      /\ ctx'[Len(ctx) + 1] = r
  BY <1>1 DEF CtxGrown
<1>3. Ids' = Ids \cup {Len(ctx) + 1} /\ Len(ctx) + 1 \notin Ids
  BY <1>1, <1>2 DEF Ids
<1> DEFINE n == Len(ctx) + 1
<1>4. ASSUME NEW arr, arr \in [elems : Seq(Ids), sorted : BOOLEAN], Once(arr.elems),
             ToSet(arr.elems) = Ids, cats' = Appended(arr, n)
      PROVE  /\ cats' \in [elems : Seq(Ids'), sorted : BOOLEAN] /\ ~cats'.sorted
             /\ Once(cats'.elems) /\ ToSet(cats'.elems) = Ids'
  <2> DEFINE s == arr.elems
             t == cats'.elems
  <2>1. s \in Seq(Ids') /\ n \in Ids' /\ n \notin Ids
    BY <1>3, <1>4
  <2>2. cats' = [elems |-> Append(s, n), sorted |-> FALSE]
    BY <1>4 DEF Appended
  <2>3. /\ t = Append(s, n) /\ t \in Seq(Ids') /\ Len(t) = Len(s) + 1 /\ Len(s) \in Nat
        /\ DOMAIN t = 1..(Len(s) + 1) /\ DOMAIN s = 1..Len(s)
        /\ \A i \in 1..Len(s) : t[i] = s[i] /\ s[i] \in Ids
        /\ t[Len(s) + 1] = n
    <3>1. s \in Seq(Ids)
      BY <1>4
    <3> HIDE DEF s, n
    <3> QED
      BY <2>1, <2>2, <3>1
  <2>4. Once(t)
    <3> HIDE DEF t, s, n
    <3>1. Once(s)
      BY <1>4 DEF s
    <3> QED
      BY <2>1, <2>3, <3>1 DEF Once
  <2>5. ToSet(t) = Ids'
    <3>1. ToSet(s) = Ids
      BY <1>4
    <3>2. Ids' = Ids \cup {n}
      BY <1>3
    <3> HIDE DEF t, s, n
    <3>3. ToSet(t) = {t[i] : i \in 1..(Len(s) + 1)} /\ ToSet(s) = {s[i] : i \in 1..Len(s)}
      BY <2>3 DEF ToSet
    <3>4. \A x : x \in ToSet(t) <=> x \in ToSet(s) \/ x = n
      BY <2>3, <3>3
    <3> QED
      BY <3>1, <3>2, <3>4
  <2> QED
    BY <2>2, <2>3, <2>4, <2>5
<1>5. /\ cats' \in [elems : Seq(Ids'), sorted : BOOLEAN] /\ ~cats'.sorted
      /\ Once(cats'.elems) /\ ToSet(cats'.elems) = Ids'
  <2>1. CASE cats' = Appended(cats, n)
    BY <1>4, <2>1 DEF CacheTyped
  <2>2. CASE cats' = Appended(SortedCats, n)
    BY <1>4, <2>2, SortedCatsFacts
  <2> QED
    BY <2>1, <2>2 DEF CtxGrown
<1>6. CacheTyped'
  BY <1>2, <1>5 DEF CacheTyped, FlagsMoved
<1>7. \A c \in Ids' : PkgsFlag(ctx'[c].pkgs)
  BY <1>2, <1>3 DEF FlagsTrue, PkgsFlag
<1>8. FlagsTrue'
  BY <1>5, <1>7 DEF FlagsTrue, PkgsFlag
<1> QED
  BY <1>1, <1>2, <1>3, <1>6, <1>8

-----------------------------------------------------------------------------
(* Steps of the requests.                                                  *)

LEMMA CallFacts ==
  ASSUME CallsTyped, calls # <<>>
  PROVE  /\ Len(calls) \in 1..2 /\ Depth = Len(calls) /\ Depth \in 1..Len(calls)
         /\ DOMAIN calls = 1..Len(calls) /\ CallTyped(Call, Len(ctx))
<1>1. Len(calls) \in 1..2 /\ DOMAIN calls = 1..Len(calls)
  BY DEF CallsTyped
<1> QED
  BY <1>1 DEF CallsTyped, Depth, Call

\* The request that is worked on is c after the step, and others are as they were.
OnTop(c) ==
  /\ calls' # <<>> /\ Len(calls') = Len(calls) /\ Depth' = Depth /\ Call' = c
  /\ \A i \in 1..Len(calls) : i # Depth => calls'[i] = calls[i]
  /\ \/ Len(calls') = 1 /\ calls' = <<calls'[1]>>
     \/ Len(calls') = 2 /\ calls' = <<calls'[1], calls'[2]>>

LEMMA Continued ==
  ASSUME CallsTyped, calls # <<>>, NEW c, Continue(c)
  PROVE  OnTop(c)
<1>1. CASE Len(calls) = 1
  <2>1. calls = <<calls[1]>> /\ calls' = [calls EXCEPT ![1] = c]
    BY <1>1 DEF CallsTyped, Continue, Depth
  <2>2. calls' = <<c>>
    BY <2>1
  <2> QED
    BY <1>1, <2>2 DEF OnTop, Depth, Call
<1>2. CASE Len(calls) = 2
  <2>1. calls = <<calls[1], calls[2]>> /\ calls' = [calls EXCEPT ![2] = c]
    BY <1>2 DEF CallsTyped, Continue, Depth
  <2>2. calls' = <<calls[1], c>>
    BY <2>1
  <2> QED
    BY <1>2, <2>2 DEF OnTop, Depth, Call
<1> QED
  BY <1>1, <1>2, CallFacts

\* A callback asks again: d goes on when c is answered.
Pushed(d, c) ==
  /\ Len(calls) = 1 /\ calls' = <<d, c>> /\ calls' # <<>> /\ Len(calls') = 2
  /\ calls'[1] = d /\ calls'[2] = c /\ Depth' = 2 /\ Call' = c

LEMMA Pushing ==
  ASSUME NEW d, NEW c, Len(calls) = 1, calls' = <<d, c>>
  PROVE  Pushed(d, c)
BY DEF Pushed, Depth, Call

\* The last request is answered.
Popped ==
  \/ Len(calls) = 1 /\ calls' = <<>>
  \/ /\ Len(calls) = 2 /\ calls' = <<calls[1]>> /\ calls' # <<>> /\ Len(calls') = 1
     /\ calls'[1] = calls[1] /\ Depth' = 1 /\ Call' = calls[1]

LEMMA Popping ==
  ASSUME CallsTyped, calls # <<>>, calls' = SubSeq(calls, 1, Depth - 1)
  PROVE  Popped
<1>1. CASE Len(calls) = 1
  <2>1. calls = <<calls[1]>>
    BY <1>1 DEF CallsTyped
  <2> QED
    BY <1>1, <2>1 DEF Popped, Depth
<1>2. CASE Len(calls) = 2
  <2>1. calls = <<calls[1], calls[2]>>
    BY <1>2 DEF CallsTyped
  <2> DEFINE a == calls[1]
             b == calls[2]
  <2>2. calls = <<a, b>> /\ calls' = SubSeq(calls, 1, 1)
    BY <1>2, <2>1 DEF Depth
  <2> HIDE DEF a, b
  <2>4. calls' = SubSeq(<<a, b>>, 1, 1)
    BY <2>2
  <2>3. SubSeq(<<a, b>>, 1, 1) = <<a>>
    <3> DEFINE s == <<a, b>>
               t == SubSeq(s, 1, 1)
    <3>1. \A i \in 1..1 : s[i] \in {a, b}
      OBVIOUS
    <3>2. s[1] = a
      OBVIOUS
    <3> HIDE DEF s
    <3>3. t \in Seq({a, b}) /\ Len(t) = 1 /\ \A i \in 1..1 : t[i] = s[i]
      BY <3>1, SubSeqProperties
    <3> HIDE DEF t
    <3>4. t = <<a>>
      BY <3>2, <3>3
    <3> QED
      BY <3>4 DEF s, t
  <2>5. calls' = <<calls[1]>>
    BY <2>3, <2>4 DEF a
  <2>6. Len(calls') = 1 /\ calls'[1] = calls[1] /\ calls' # <<>>
    <3> DEFINE s == calls'
    <3>1. s = <<calls[1]>>
      BY <2>5
    <3> HIDE DEF s
    <3>2. Len(s) = 1 /\ s[1] = calls[1] /\ s # <<>>
      BY <3>1
    <3> QED
      BY <3>2 DEF s
  <2> QED
    BY <1>2, <2>5, <2>6 DEF Popped, Depth, Call
<1> QED
  BY <1>1, <1>2, CallFacts

\* d is c with other values of the fields F.
CallFields ==
  {"request", "at", "back", "out", "names", "known", "item", "cat", "dirs", "files",
   "knownPkgs", "found", "elem"}
Changed(c, d, F) == d = CallRecord(d) /\ \A f \in CallFields \ F : d[f] = c[f]

LEMMA TypedMore ==
  ASSUME NEW c, NEW n \in Nat, NEW m \in Nat, n <= m, CallTyped(c, n)
  PROVE  CallTyped(c, m)
BY DEF CallTyped, CatLabels

\* The types of requests after each kind of step.
LEMMA OnTopTyped ==
  ASSUME CallsTyped, calls # <<>>, NEW c, OnTop(c), Len(ctx) \in Nat, Len(ctx') \in Nat,
         Len(ctx) <= Len(ctx'), CallTyped(c, Len(ctx'))
  PROVE  CallsTyped'
<1>1. \A i \in 1..Len(calls) : CallTyped(calls[i], Len(ctx'))
  BY TypedMore DEF CallsTyped
<1>2. calls'[Depth] = c
  BY DEF OnTop, Call
<1>3. \A i \in 1..Len(calls') : CallTyped(calls'[i], Len(ctx'))
  BY <1>1, <1>2 DEF OnTop
<1> QED
  BY <1>3 DEF CallsTyped, OnTop

LEMMA PushedTyped ==
  ASSUME CallsTyped, NEW c, NEW d, Pushed(d, c), Len(ctx') = Len(ctx),
         CallTyped(c, Len(ctx)), CallTyped(d, Len(ctx))
  PROVE  CallsTyped'
BY DEF Pushed, CallsTyped

LEMMA PoppedTyped ==
  ASSUME CallsTyped, Popped, ctx' = ctx, crashed' = crashed, ~crashed
  PROVE  CallsTyped'
<1>1. CASE calls' = <<>>
  BY <1>1 DEF CallsTyped
<1>2. CASE Len(calls) = 2 /\ calls' = <<calls[1]>> /\ calls' # <<>> /\ Len(calls') = 1 /\ calls'[1] = calls[1]
  BY <1>2 DEF CallsTyped
<1> QED
  BY <1>1, <1>2 DEF Popped

LEMMA EnteredTyped ==
  ASSUME NEW r, NEW n \in Nat
  PROVE  CallTyped(Entered(r), n)
BY DEF Entered, CallTyped, CallRecord, CatLabels

\* What each assignment to the call that is worked on changes.
LEMMA ChangedAt ==
  ASSUME NEW c, c = CallRecord(c), NEW x
  PROVE  LET d == [c EXCEPT !.at = x] IN Changed(c, d, {"at"}) /\ d.at = x
BY DEF CallRecord, Changed, CallFields

LEMMA ChangedItem ==
  ASSUME NEW c, c = CallRecord(c), NEW x
  PROVE  LET d == [c EXCEPT !.item = x] IN Changed(c, d, {"item"}) /\ d.item = x
BY DEF CallRecord, Changed, CallFields

LEMMA ChangedElem ==
  ASSUME NEW c, c = CallRecord(c), NEW x
  PROVE  LET d == [c EXCEPT !.elem = x] IN Changed(c, d, {"elem"}) /\ d.elem = x
BY DEF CallRecord, Changed, CallFields

LEMMA ChangedOut ==
  ASSUME NEW c, c = CallRecord(c), NEW x
  PROVE  LET d == [c EXCEPT !.out = x] IN Changed(c, d, {"out"}) /\ d.out = x
BY DEF CallRecord, Changed, CallFields

-----------------------------------------------------------------------------
(* Steps that add nothing to the cache.                                    *)

LEMMA AtFacts ==
  ASSUME FlagsInv, NEW label, At(label)
  PROVE  /\ calls # <<>> /\ ~crashed /\ Call.at = label
         /\ CacheTyped /\ CallsTyped /\ FlagsTrue
         /\ CallTyped(Call, Len(ctx)) /\ Call = CallRecord(Call)
         /\ Len(ctx) \in Nat /\ Ids = 1..Len(ctx)
         /\ crashed \in BOOLEAN /\ complete \in BOOLEAN
         /\ label \in CatLabels => Call.cat \in Ids
<1>1. calls # <<>> /\ ~crashed /\ Call.at = label
  BY DEF At
<1>2. CacheTyped /\ CallsTyped /\ FlagsTrue
  BY DEF FlagsInv
<1>3. CallTyped(Call, Len(ctx))
  BY <1>1, <1>2, CallFacts
<1>4. Call = CallRecord(Call) /\ (Call.at \in CatLabels => Call.cat \in 1..Len(ctx))
  BY <1>3 DEF CallTyped
<1>5. crashed \in BOOLEAN /\ complete \in BOOLEAN
  BY <1>2 DEF CacheTyped
<1> QED
  BY <1>1, <1>2, <1>3, <1>4, <1>5, CtxFacts DEF Ids

Stays == kind' = kind /\ crashed' \in BOOLEAN /\ complete' = complete
Quiet ==
  /\ Stays /\ CatsMoved /\ CtxMoved
  /\ \A d \in Ids : /\ ctx'[d].complete = ctx[d].complete
                    /\ ctx'[d].pkgs = ctx[d].pkgs \/ ctx'[d].pkgs = SortedPkgs(d)

LEMMA StaysMoves ==
  ASSUME FlagsInv, Stays
  PROVE  FlagsMoved
BY DEF Stays, FlagsMoved, FlagsInv, CacheTyped

LEMMA QuietSame ==
  ASSUME CacheTyped, Stays, CatsMoved, ctx' = ctx
  PROVE  Quiet
BY CtxSame DEF Quiet

LEMMA QuietPkgs ==
  ASSUME CacheTyped, Stays, cats' = cats, NEW c \in Ids, NEW x, PkgsPut(c, x),
         x = ctx[c].pkgs \/ x = SortedPkgs(c)
  PROVE  Quiet
<1>1. /\ CtxMoved /\ \A d \in Ids : d # c => ctx'[d] = ctx[d]
      /\ ctx'[c].pkgs = x /\ ctx'[c].complete = ctx[c].complete
  BY OnePkgs
<1> QED
  BY <1>1 DEF Quiet, CatsMoved

\* The request that is worked on becomes c, which reads no directory or file, and
\* goes on to read the tree only when it did.
Settled(c) == c.at \notin {"pkgdir", "blocks"}
Strolls(c) == c.at = "catdir" \/ (c.at \in CatLabels /\ c.back = "catdir")
Proceeds(c) == OnTop(c) /\ CallTyped(c, Len(ctx')) /\ c.request = Call.request
QuietStep(c) ==
  /\ Quiet /\ Proceeds(c) /\ Settled(Call) /\ Settled(c)
  /\ Strolls(c) => Call.at \in CatLabels /\ Call.back = "catdir"
                   /\ c.back = "catdir" /\ c.names = Call.names /\ c.known = Call.known

\* What c has in place of the fields of the request that is worked on.
Goes(c, next) == Changed(Call, c, {"at"}) /\ c.at = next
Visits(c, id, back) ==
  /\ Changed(Call, c, {"cat", "at", "back", "item", "names"})
  /\ c.cat = id /\ c.at = "cat" /\ c.back = back
Starts(c, label, elem) == Changed(Call, c, {"at", "elem"}) /\ c.at = label /\ c.elem = elem
OneMore(out, p) == Append(out, [cat |-> Call.cat, pn |-> p.pn, ver |-> p.ver])
Tells(c, p, told) ==
  /\ Changed(Call, c, {"elem", "out"}) /\ c.elem = Call.elem + 1
  /\ c.out = IF told THEN OneMore(Call.out, p) ELSE Call.out

LEMMA EnterKnownStep ==
  ASSUME FlagsInv, EnterKnown
  PROVE  \E c : QuietStep(c) /\ Visits(c, FindCat(Query.cat), "done")
<1>1. At("tree") /\ FindCat(Query.cat) # 0
  BY DEF EnterKnown
<1>2. FindCat(Query.cat) \in 1..Len(ctx)
  BY <1>1, AtFacts, FindCatIs
<1> DEFINE id == FindCat(Query.cat)
           c == [Call EXCEPT !.cat = id, !.at = "cat", !.back = "done"]
<1>3. Continue(c)
  BY DEF EnterKnown, VisitCat
<1>4. Changed(Call, c, {"cat", "at", "back"}) /\ c.cat = id /\ c.at = "cat" /\ c.back = "done"
  <2>1. Call = CallRecord(Call)
    BY <1>1, AtFacts
  <2>2. c = [Call EXCEPT !.cat = id, !.at = "cat", !.back = "done"]
    OBVIOUS
  <2> HIDE DEF id, c
  <2> QED
    BY <2>1, <2>2 DEF CallRecord, Changed, CallFields
<1> HIDE DEF c
<1>5. OnTop(c)
  BY <1>1, <1>3, AtFacts, Continued
<1>6. Quiet /\ ctx' = ctx
  BY <1>1, AtFacts, QuietSame DEF EnterKnown, Stays, CatsMoved
<1>7. CallTyped(c, Len(ctx)) /\ c.request = Call.request
  BY <1>1, <1>2, <1>4, AtFacts DEF Changed, CallFields, CallTyped, CatLabels
<1>8. QuietStep(c)
  BY <1>1, <1>4, <1>5, <1>6, <1>7, AtFacts DEF QuietStep, Proceeds, Settled, Strolls, CatLabels
<1>9. Visits(c, FindCat(Query.cat), "done")
  BY <1>4 DEF Visits, Changed
<1> QED
  BY <1>8, <1>9

LEMMA QuietGoto ==
  ASSUME FlagsInv, NEW label, At(label), label \notin {"pkgdir", "blocks"},
         NEW next \in {"done", "catlist", "catdir"}, Goto(next), Quiet,
         next = "done" \/ (next = Call.back /\ label \in CatLabels)
  PROVE  \E c : QuietStep(c) /\ Goes(c, next)
<1> DEFINE c == [Call EXCEPT !.at = next]
<1>3. Continue(c)
  BY DEF Goto
<1>4. Changed(Call, c, {"at"}) /\ c.at = next
  BY AtFacts, ChangedAt
<1> HIDE DEF c
<1>5. OnTop(c)
  BY <1>3, AtFacts, Continued
<1>6. Len(ctx') = Len(ctx)
  BY DEF Quiet, CtxMoved
<1>7. CallTyped(c, Len(ctx)) /\ c.request = Call.request
  BY <1>4, AtFacts DEF Changed, CallFields, CallTyped, CatLabels
<1>8. QuietStep(c)
  BY <1>4, <1>5, <1>6, <1>7, AtFacts
     DEF QuietStep, Proceeds, Settled, Strolls, CatLabels, Changed, CallFields
<1> QED
  BY <1>4, <1>8 DEF Goes

LEMMA EnterUnknownStep ==
  ASSUME FlagsInv, EnterUnknown
  PROVE  \E c : QuietStep(c) /\ Goes(c, "done")
<1>1. At("tree") /\ Goto("done")
  BY DEF EnterUnknown
<1>2. Quiet
  BY <1>1, AtFacts, QuietSame DEF EnterUnknown, Stays, CatsMoved
<1> QED
  BY <1>1, <1>2, QuietGoto

LEMMA EnterCompleteStep ==
  ASSUME FlagsInv, EnterComplete
  PROVE  \E c : QuietStep(c) /\ Changed(Call, c, {"at", "item"}) /\ c.at = "catlist" /\ c.item = 1
<1>1. At("tree")
  BY DEF EnterComplete
<1> DEFINE c == [Call EXCEPT !.at = "catlist", !.item = 1]
<1>3. Continue(c)
  BY DEF EnterComplete
<1>4. Changed(Call, c, {"at", "item"}) /\ c.at = "catlist" /\ c.item = 1
  <2>1. Call = CallRecord(Call)
    BY <1>1, AtFacts
  <2>2. c = [Call EXCEPT !.at = "catlist", !.item = 1]
    OBVIOUS
  <2> HIDE DEF c
  <2> QED
    BY <2>1, <2>2 DEF CallRecord, Changed, CallFields
<1> HIDE DEF c
<1>5. OnTop(c)
  BY <1>1, <1>3, AtFacts, Continued
<1>6. Quiet /\ ctx' = ctx
  BY <1>1, AtFacts, QuietSame DEF EnterComplete, Stays, CatsMoved
<1>7. CallTyped(c, Len(ctx)) /\ c.request = Call.request
  BY <1>1, <1>4, AtFacts DEF Changed, CallFields, CallTyped, CatLabels
<1>8. QuietStep(c)
  BY <1>1, <1>4, <1>5, <1>6, <1>7, AtFacts DEF QuietStep, Proceeds, Settled, Strolls, CatLabels
<1> QED
  BY <1>4, <1>8

LEMMA NextCategoryStep ==
  ASSUME FlagsInv, NextCategory
  PROVE  \E c : /\ QuietStep(c)
                /\ IF Call.item <= Len(cats.elems)
                   THEN Visits(c, cats.elems[Call.item], "catlist") /\ c.item = Call.item + 1
                   ELSE Goes(c, "done")
<1>1. At("catlist")
  BY DEF NextCategory
<1>2. Quiet /\ ctx' = ctx
  BY <1>1, AtFacts, QuietSame DEF NextCategory, cache, Stays, CatsMoved
<1>3. CASE Call.item <= Len(cats.elems)
  <2> DEFINE id == cats.elems[Call.item]
             c0 == [Call EXCEPT !.item = @ + 1]
             c == [c0 EXCEPT !.cat = id, !.at = "cat", !.back = "catlist"]
  <2>1. id \in 1..Len(ctx)
    <3>1. Call.item \in Nat /\ Call.item # 0
      BY <1>1, AtFacts DEF CallTyped
    <3> QED
      BY <1>1, <1>3, <3>1, AtFacts DEF CacheTyped
  <2>2. Continue(c)
    BY <1>3 DEF NextCategory, VisitCat
  <2>3. Changed(Call, c0, {"item"}) /\ c0.item = Call.item + 1
    BY <1>1, AtFacts, ChangedItem
  <2>4. Changed(c0, c, {"cat", "at", "back"}) /\ c.cat = id /\ c.at = "cat" /\ c.back = "catlist"
    <3>1. c0 = CallRecord(c0)
      BY <2>3 DEF Changed
    <3>2. c = [c0 EXCEPT !.cat = id, !.at = "cat", !.back = "catlist"]
      OBVIOUS
    <3> HIDE DEF id, c0, c
    <3> QED
      BY <3>1, <3>2 DEF CallRecord, Changed, CallFields
  <2> HIDE DEF c, c0
  <2>5. OnTop(c)
    BY <1>1, <2>2, AtFacts, Continued
  <2>7. CallTyped(c, Len(ctx)) /\ c.request = Call.request
    BY <1>1, <2>1, <2>3, <2>4, AtFacts DEF Changed, CallFields, CallTyped, CatLabels
  <2>8. QuietStep(c)
    BY <1>1, <1>2, <2>4, <2>5, <2>7, AtFacts DEF QuietStep, Proceeds, Settled, Strolls, CatLabels
  <2>9. Visits(c, id, "catlist") /\ c.item = Call.item + 1
    BY <2>3, <2>4 DEF Visits, Changed, CallFields
  <2> QED
    BY <1>3, <2>8, <2>9
<1>4. CASE ~(Call.item <= Len(cats.elems))
  <2>1. Goto("done")
    BY <1>4 DEF NextCategory
  <2>2. \E c : QuietStep(c) /\ Goes(c, "done")
    BY <1>1, <1>2, <2>1, QuietGoto
  <2> QED
    BY <1>4, <2>2
<1> QED
  BY <1>3, <1>4

LEMMA HitFacts ==
  ASSUME FlagsInv, At("cat")
  PROVE  /\ Hit \in Nat
         /\ Hit = 0 /\ FilterName => \A p \in ToSet(ctx[Call.cat].pkgs.elems) : p.pn # Query.pn
         /\ Searched = ctx[Call.cat].pkgs \/ Searched = SortedPkgs(Call.cat)
<1>1. Call.cat \in Ids /\ CacheTyped /\ FlagsTrue
  BY AtFacts DEF CatLabels
<1> QED
  BY <1>1, FindPkgIs DEF Hit, Searched, Cat

LEMMA EnterHitsStep ==
  ASSUME FlagsInv, EnterHits
  PROVE  \E c : QuietStep(c) /\ Starts(c, "hits", Hit)
<1>1. At("cat") /\ Call.cat \in Ids
  BY AtFacts DEF EnterHits, CatLabels
<1>2. PkgsPut(Call.cat, Searched)
  BY DEF EnterHits, PkgsPut
<1>3. Quiet
  BY <1>1, <1>2, AtFacts, HitFacts, QuietPkgs DEF EnterHits, Stays
<1> DEFINE c == [Call EXCEPT !.at = "hits", !.elem = Hit]
<1>4. Continue(c)
  BY DEF EnterHits
<1>5. Changed(Call, c, {"at", "elem"}) /\ c.at = "hits" /\ c.elem = Hit
  <2>1. Call = CallRecord(Call)
    BY <1>1, AtFacts
  <2>2. c = [Call EXCEPT !.at = "hits", !.elem = Hit]
    OBVIOUS
  <2> HIDE DEF c
  <2> QED
    BY <2>1, <2>2 DEF CallRecord, Changed, CallFields
<1> HIDE DEF c
<1>6. OnTop(c)
  BY <1>1, <1>4, AtFacts, Continued
<1>7. CallTyped(c, Len(ctx)) /\ c.request = Call.request
  BY <1>1, <1>5, AtFacts, HitFacts DEF Changed, CallFields, CallTyped, CatLabels
<1>8. Len(ctx') = Len(ctx)
  BY <1>3 DEF Quiet, CtxMoved
<1>9. QuietStep(c)
  BY <1>1, <1>3, <1>5, <1>6, <1>7, <1>8, AtFacts
     DEF QuietStep, Proceeds, Settled, Strolls, CatLabels, Changed, CallFields
<1> QED
  BY <1>5, <1>9 DEF Starts

LEMMA EnterAbsentStep ==
  ASSUME FlagsInv, EnterAbsent
  PROVE  \E c : QuietStep(c) /\ Goes(c, Call.back)
<1>1. At("cat") /\ Call.cat \in Ids /\ Call.back \in {"done", "catlist", "catdir"}
  BY AtFacts DEF EnterAbsent, CatLabels, CallTyped
<1>2. PkgsPut(Call.cat, Searched)
  BY DEF EnterAbsent, PkgsPut
<1>3. Quiet
  BY <1>1, <1>2, AtFacts, HitFacts, QuietPkgs DEF EnterAbsent, Stays
<1>4. Goto(Call.back)
  BY DEF EnterAbsent, ReturnFromCat
<1> QED
  BY <1>1, <1>3, <1>4, QuietGoto DEF CatLabels

LEMMA EnterCachedStep ==
  ASSUME FlagsInv, EnterCached
  PROVE  \E c : QuietStep(c) /\ Starts(c, "pkglist", 1)
<1>1. At("cat") /\ Call.cat \in Ids
  BY AtFacts DEF EnterCached, CatLabels
<1> DEFINE x == IF Sorting(Call.request) THEN SortedPkgs(Call.cat) ELSE ctx[Call.cat].pkgs
<1>2. PkgsPut(Call.cat, x)
  BY DEF EnterCached, PkgsPut
<1> HIDE DEF x
<1>3. Quiet
  BY <1>1, <1>2, AtFacts, QuietPkgs DEF EnterCached, Stays, x
<1> DEFINE c == [Call EXCEPT !.at = "pkglist", !.elem = 1]
<1>4. Continue(c)
  BY DEF EnterCached
<1>5. Changed(Call, c, {"at", "elem"}) /\ c.at = "pkglist" /\ c.elem = 1
  <2>1. Call = CallRecord(Call)
    BY <1>1, AtFacts
  <2>2. c = [Call EXCEPT !.at = "pkglist", !.elem = 1]
    OBVIOUS
  <2> HIDE DEF c
  <2> QED
    BY <2>1, <2>2 DEF CallRecord, Changed, CallFields
<1> HIDE DEF c
<1>6. OnTop(c)
  BY <1>1, <1>4, AtFacts, Continued
<1>7. CallTyped(c, Len(ctx)) /\ c.request = Call.request
  BY <1>1, <1>5, AtFacts DEF Changed, CallFields, CallTyped, CatLabels
<1>8. Len(ctx') = Len(ctx)
  BY <1>3 DEF Quiet, CtxMoved
<1>9. QuietStep(c)
  BY <1>1, <1>3, <1>5, <1>6, <1>7, <1>8, AtFacts
     DEF QuietStep, Proceeds, Settled, Strolls, CatLabels, Changed, CallFields
<1> QED
  BY <1>5, <1>9 DEF Starts

\* The callback of d asks again.
Asking(d) == Entered([query |-> d.request.inner, flags |-> DefaultFlags, inner |-> None])
Nests(d) ==
  /\ Pushed(d, Asking(d)) /\ d.request.inner # None
  /\ d.request = Call.request /\ d.at = Call.at /\ d.back = Call.back
  /\ CallTyped(d, Len(ctx'))

LEMMA CallingBack ==
  ASSUME FlagsInv, calls # <<>>, Len(ctx') = Len(ctx), NEW c, CallTyped(c, Len(ctx)),
         c.request = Call.request, c.at = Call.at, c.back = Call.back,
         NEW p, Callback(c, p)
  PROVE  \E d : /\ Changed(c, d, {"out"}) /\ (Nests(d) \/ Proceeds(d))
                /\ d.out = Append(c.out, [cat |-> c.cat, pn |-> p.pn, ver |-> p.ver])
<1> DEFINE o == Append(c.out, [cat |-> c.cat, pn |-> p.pn, ver |-> p.ver])
           d == [c EXCEPT !.out = o]
           q == [query |-> c.request.inner, flags |-> DefaultFlags, inner |-> None]
<1>1. IF Depth = 1 /\ c.request.inner # None THEN calls' = <<d, Entered(q)>> ELSE Continue(d)
  BY DEF Callback
<1>2. Changed(c, d, {"out"}) /\ d.out = o
  <2>1. c = CallRecord(c)
    BY DEF CallTyped
  <2> HIDE DEF o
  <2> QED
    BY <2>1, ChangedOut
<1> HIDE DEF d
<1>3. /\ CallTyped(d, Len(ctx)) /\ d.request = c.request /\ d.at = c.at /\ d.back = c.back
  BY <1>2 DEF Changed, CallFields, CallTyped, CatLabels
<1>4. CASE Depth = 1 /\ c.request.inner # None
  <2>1. Pushed(d, Entered(q))
    BY <1>1, <1>4, Pushing DEF Depth
  <2>2. Nests(d)
    BY <1>3, <1>4, <2>1 DEF Nests, Asking
  <2> QED
    BY <1>2, <2>2
<1>5. CASE ~(Depth = 1 /\ c.request.inner # None)
  <2>1. Continue(d)
    BY <1>1, <1>5
  <2>2. OnTop(d)
    BY <2>1, Continued DEF FlagsInv
  <2>3. Proceeds(d)
    BY <1>3, <2>2 DEF Proceeds
  <2> QED
    BY <1>2, <2>3
<1> QED
  BY <1>4, <1>5

NestStep(d) == Quiet /\ Nests(d) /\ ctx' = ctx /\ cats' = cats /\ Call.at \in {"hits", "pkglist"}

LEMMA NextHitStep ==
  ASSUME FlagsInv, NextHit
  PROVE  \E c : /\ QuietStep(c) \/ NestStep(c)
                /\ IF Call.elem <= Len(Cat.pkgs.elems) /\ Cat.pkgs.elems[Call.elem].pn = Query.pn
                   THEN Tells(c, Cat.pkgs.elems[Call.elem], Fits(Query, Cat.pkgs.elems[Call.elem]))
                   ELSE Goes(c, Call.back)
<1>1. At("hits")
  BY DEF NextHit
<1>2. Quiet /\ ctx' = ctx /\ cats' = cats
  BY <1>1, AtFacts, QuietSame DEF NextHit, cache, Stays, CatsMoved
<1>3. CASE Call.elem <= Len(Cat.pkgs.elems) /\ Cat.pkgs.elems[Call.elem].pn = Query.pn
  <2> DEFINE p == Cat.pkgs.elems[Call.elem]
             c == [Call EXCEPT !.elem = @ + 1]
  <2>1. IF Fits(Query, p) THEN Callback(c, p) ELSE Continue(c)
    BY <1>3 DEF NextHit
  <2>2. Changed(Call, c, {"elem"}) /\ c.elem = Call.elem + 1
    BY <1>1, AtFacts, ChangedElem
  <2> HIDE DEF c
  <2>6. SUFFICES \E d : (QuietStep(d) \/ NestStep(d)) /\ Tells(d, p, Fits(Query, p))
    BY <1>3
  <2> HIDE DEF p
  <2>3. CallTyped(c, Len(ctx)) /\ c.request = Call.request /\ c.at = Call.at /\ c.back = Call.back
    BY <1>1, <2>2, AtFacts DEF Changed, CallFields, CallTyped, CatLabels
  <2>4. CASE Fits(Query, p) /\ Callback(c, p)
    <3>1. PICK d : /\ Changed(c, d, {"out"}) /\ (Nests(d) \/ Proceeds(d))
                   /\ d.out = Append(c.out, [cat |-> c.cat, pn |-> p.pn, ver |-> p.ver])
      BY <1>1, <1>2, <2>3, <2>4, AtFacts, CallingBack
    <3>2. ASSUME Nests(d) PROVE NestStep(d)
      BY <1>1, <1>2, <3>2, AtFacts DEF NestStep
    <3>3. ASSUME Proceeds(d) PROVE QuietStep(d)
      BY <1>1, <1>2, <2>2, <2>3, <3>1, <3>3, AtFacts
         DEF QuietStep, Settled, Strolls, CatLabels, Changed, CallFields
    <3>4. QuietStep(d) \/ NestStep(d)
      BY <3>1, <3>2, <3>3
    <3>5. Tells(d, p, Fits(Query, p))
      BY <2>2, <2>4, <3>1 DEF Tells, OneMore, Changed, CallFields
    <3> QED
      BY <3>4, <3>5
  <2>5. CASE ~Fits(Query, p) /\ Continue(c)
    <3>1. OnTop(c)
      BY <1>1, <2>5, AtFacts, Continued
    <3>2. QuietStep(c)
      BY <1>1, <1>2, <2>2, <2>3, <3>1, AtFacts
         DEF QuietStep, Proceeds, Settled, Strolls, CatLabels, Changed, CallFields
    <3>3. Tells(c, p, Fits(Query, p))
      BY <2>2, <2>5 DEF Tells, Changed, CallFields
    <3> QED
      BY <3>2, <3>3
  <2> QED
    BY <2>1, <2>4, <2>5
<1>4. CASE ~(Call.elem <= Len(Cat.pkgs.elems) /\ Cat.pkgs.elems[Call.elem].pn = Query.pn)
  <2>1. Goto(Call.back) /\ Call.back \in {"done", "catlist", "catdir"}
    BY <1>1, <1>4, AtFacts DEF NextHit, ReturnFromCat, CallTyped
  <2>2. \E c : QuietStep(c) /\ Goes(c, Call.back)
    BY <1>1, <1>2, <2>1, QuietGoto DEF CatLabels
  <2> QED
    BY <1>4, <2>2
<1> QED
  BY <1>3, <1>4

LEMMA NextCachedStep ==
  ASSUME FlagsInv, NextCached
  PROVE  \E c : /\ QuietStep(c) \/ NestStep(c)
                /\ IF Call.elem <= Len(Cat.pkgs.elems)
                   THEN Tells(c, Cat.pkgs.elems[Call.elem], TRUE)
                   ELSE Goes(c, Call.back)
<1>1. At("pkglist")
  BY DEF NextCached
<1>2. Quiet /\ ctx' = ctx /\ cats' = cats
  BY <1>1, AtFacts, QuietSame DEF NextCached, cache, Stays, CatsMoved
<1>3. CASE Call.elem <= Len(Cat.pkgs.elems)
  <2> DEFINE p == Cat.pkgs.elems[Call.elem]
             c == [Call EXCEPT !.elem = @ + 1]
  <2>1. Callback(c, p)
    BY <1>3 DEF NextCached
  <2>2. Changed(Call, c, {"elem"}) /\ c.elem = Call.elem + 1
    BY <1>1, AtFacts, ChangedElem
  <2> HIDE DEF c
  <2>7. SUFFICES \E d : (QuietStep(d) \/ NestStep(d)) /\ Tells(d, p, TRUE)
    BY <1>3
  <2> HIDE DEF p
  <2>3. CallTyped(c, Len(ctx)) /\ c.request = Call.request /\ c.at = Call.at /\ c.back = Call.back
    BY <1>1, <2>2, AtFacts DEF Changed, CallFields, CallTyped, CatLabels
  <2>4. PICK d : /\ Changed(c, d, {"out"}) /\ (Nests(d) \/ Proceeds(d))
                 /\ d.out = Append(c.out, [cat |-> c.cat, pn |-> p.pn, ver |-> p.ver])
    BY <1>1, <1>2, <2>1, <2>3, AtFacts, CallingBack
  <2>8. Tells(d, p, TRUE)
    BY <2>2, <2>4 DEF Tells, OneMore, Changed, CallFields
  <2>5. CASE Nests(d)
    BY <1>1, <1>2, <2>5, <2>8, AtFacts DEF NestStep
  <2>6. CASE Proceeds(d)
    <3>1. QuietStep(d)
      BY <1>1, <1>2, <2>2, <2>3, <2>4, <2>6, AtFacts
         DEF QuietStep, Settled, Strolls, CatLabels, Changed, CallFields
    <3> QED
      BY <2>8, <3>1
  <2> QED
    BY <2>4, <2>5, <2>6
<1>4. CASE ~(Call.elem <= Len(Cat.pkgs.elems))
  <2>1. Goto(Call.back) /\ Call.back \in {"done", "catlist", "catdir"}
    BY <1>1, <1>4, AtFacts DEF NextCached, ReturnFromCat, CallTyped
  <2>2. \E c : QuietStep(c) /\ Goes(c, Call.back)
    BY <1>1, <1>2, <2>1, QuietGoto DEF CatLabels
  <2> QED
    BY <1>4, <2>2
<1> QED
  BY <1>3, <1>4

LEMMA FinishStep ==
  ASSUME FlagsInv, Finish
  PROVE  Popped /\ Quiet /\ ctx' = ctx /\ Settled(Call) /\ calls # <<>> /\ ~crashed'
<1>1. At("done")
  BY DEF Finish
<1>2. Quiet /\ ctx' = ctx
  BY <1>1, AtFacts, QuietSame DEF Finish, cache, Stays, CatsMoved
<1>3. Popped
  BY <1>1, AtFacts, Popping DEF Finish
<1> QED
  BY <1>1, <1>2, <1>3, AtFacts DEF Settled, Finish

\* A request from outside.
Opens(c) ==
  /\ calls = <<>> /\ calls' = <<c>> /\ calls' # <<>> /\ Len(calls') = 1 /\ calls'[1] = c
  /\ Depth' = 1 /\ Call' = c /\ c.at = "tree" /\ c.back = "done"
  /\ CallTyped(c, Len(ctx)) /\ (c.request.inner # None => <<kind, Sorting(c.request)>> \in Nesting)

LEMMA BeginStep ==
  ASSUME FlagsInv, NEW r, Begin(r)
  PROVE  Quiet /\ ctx' = ctx /\ Opens(Entered(r)) /\ ~crashed'
<1>1. CacheTyped /\ Len(ctx) \in Nat /\ crashed \in BOOLEAN
  BY CtxFacts DEF FlagsInv, CacheTyped
<1>2. Quiet /\ ctx' = ctx
  BY <1>1, QuietSame DEF Begin, cache, Stays, CatsMoved
<1>3. /\ CallTyped(Entered(r), Len(ctx))
      /\ Entered(r).request = r /\ Entered(r).at = "tree" /\ Entered(r).back = "done"
  BY <1>1, EnteredTyped DEF Entered
<1> DEFINE c == Entered(r)
<1>4. calls' = <<c>>
  BY DEF Begin
<1> HIDE DEF c
<1>5. calls' # <<>> /\ Len(calls') = 1 /\ calls'[1] = c
  BY <1>4
<1> QED
  BY <1>2, <1>3, <1>4, <1>5 DEF Opens, Begin, Depth, Call, c

-----------------------------------------------------------------------------
(* Steps that read categories.                                             *)

NewFacts(c, name) ==
  /\ Stays /\ CtxGrown(NewCat(name)) /\ name \in Categories /\ Proceeds(c)

ProbeStep(c) ==
  /\ NewFacts(c, Query.cat) /\ Query.cat \notin NamesIn
  /\ ~complete /\ ~FromFile /\ Settled(Call) /\ Settled(c) /\ ~Strolls(c)
  /\ Visits(c, Len(ctx) + 1, "done")

LEMMA NewCatTyped ==
  ASSUME NEW name \in Categories
  PROVE  NewCat(name) \in CatRecord /\ PkgsFlag(NewCat(name).pkgs)
<1>1. <<>> \in Seq(Plains)
  OBVIOUS
<1> QED
  BY <1>1 DEF NewCat, NewArray, CatRecord, PkgsFlag

LEMMA GrownLen ==
  ASSUME CacheTyped, FlagsTrue, Stays, NEW name \in Categories, CtxGrown(NewCat(name))
  PROVE  Len(ctx') = Len(ctx) + 1 /\ Len(ctx) \in Nat
<1>1. FlagsMoved
  BY DEF FlagsMoved, Stays, CacheTyped
<1> QED
  BY <1>1, NewCatTyped, GrownTyped

LEMMA ProbeCategoryStep ==
  ASSUME FlagsInv, ProbeCategory
  PROVE  \E c : (QuietStep(c) /\ Goes(c, "done") /\ Query.cat \notin Categories) \/ ProbeStep(c)
<1>1. At("tree") /\ ~complete /\ ~FromFile /\ FindCat(Query.cat) = 0
  BY DEF ProbeCategory, FromFile
<1>2. \A d \in Ids : ctx[d].name # Query.cat
  BY <1>1, AtFacts, FindCatIs
<1>3. CASE Query.cat \in Categories
  <2>1. ctx' = Append(ctx, NewCat(Query.cat)) /\ cats' = Appended(SortedCats, Len(ctx')) /\ Stays
    BY <1>1, <1>3, AtFacts DEF ProbeCategory, Stays
  <2>2. Len(ctx') = Len(ctx) + 1
    BY <2>1, AtFacts, <1>1 DEF CacheTyped
  <2>3. CtxGrown(NewCat(Query.cat))
    BY <2>1, <2>2 DEF CtxGrown
  <2> DEFINE id == Len(ctx')
             c == [Call EXCEPT !.cat = id, !.at = "cat", !.back = "done"]
  <2>4. Continue(c)
    BY <1>3 DEF ProbeCategory, VisitCat
  <2>5. Changed(Call, c, {"cat", "at", "back"}) /\ c.cat = id /\ c.at = "cat" /\ c.back = "done"
    <3>1. Call = CallRecord(Call)
      BY <1>1, AtFacts
    <3>2. c = [Call EXCEPT !.cat = id, !.at = "cat", !.back = "done"]
      OBVIOUS
    <3> HIDE DEF id, c
    <3> QED
      BY <3>1, <3>2 DEF CallRecord, Changed, CallFields
  <2> HIDE DEF c
  <2>6. OnTop(c)
    BY <1>1, <2>4, AtFacts, Continued
  <2>7. CallTyped(c, Len(ctx')) /\ c.request = Call.request
    <3>1. CallTyped(Call, Len(ctx')) /\ id \in 1..Len(ctx')
      BY <1>1, <2>2, AtFacts, TypedMore
    <3> QED
      BY <2>5, <3>1 DEF Changed, CallFields, CallTyped, CatLabels
  <2>9. Visits(c, Len(ctx) + 1, "done")
    BY <2>2, <2>5 DEF Visits, Changed
  <2>8. ProbeStep(c)
    BY <1>1, <1>2, <1>3, <2>1, <2>3, <2>5, <2>6, <2>7, <2>9, AtFacts
       DEF ProbeStep, NewFacts, Proceeds, Settled, Strolls, CatLabels, NamesIn
  <2> QED
    BY <2>8
<1>4. CASE Query.cat \notin Categories
  <2>1. Goto("done") /\ cats' = SortedCats /\ ctx' = ctx /\ Stays
    BY <1>1, <1>4, AtFacts DEF ProbeCategory, Stays
  <2>2. Quiet
    BY <1>1, <2>1, AtFacts, QuietSame DEF CatsMoved
  <2>3. \E c : QuietStep(c) /\ Goes(c, "done")
    BY <1>1, <2>1, <2>2, QuietGoto
  <2> QED
    BY <1>4, <2>3
<1> QED
  BY <1>3, <1>4

OpenTreeFacts(c) ==
  /\ Quiet /\ ctx' = ctx /\ Proceeds(c) /\ Call.at = "tree" /\ c.at = "catdir"
  /\ Changed(Call, c, {"at", "names", "known"}) /\ ~Filter
  /\ c.names = Categories /\ c.known = (cats.elems # <<>>) /\ ~FromFile /\ ~complete

LEMMA OpenTreeStep ==
  ASSUME FlagsInv, OpenTree
  PROVE  \E c : OpenTreeFacts(c)
<1>1. At("tree") /\ ~FromFile /\ ~complete
  BY DEF OpenTree, FromFile
<1> DEFINE k == (cats.elems # <<>>)
           c == [Call EXCEPT !.at = "catdir", !.names = Categories, !.known = k]
<1>3. Continue(c)
  BY DEF OpenTree
<1>4. Changed(Call, c, {"at", "names", "known"}) /\ c.at = "catdir" /\ c.names = Categories /\ c.known = k
  <2>1. Call = CallRecord(Call)
    BY <1>1, AtFacts
  <2>2. c = [Call EXCEPT !.at = "catdir", !.names = Categories, !.known = k]
    OBVIOUS
  <2> HIDE DEF c, k
  <2> QED
    BY <2>1, <2>2 DEF CallRecord, Changed, CallFields
<1> HIDE DEF c
<1>5. OnTop(c)
  BY <1>1, <1>3, AtFacts, Continued
<1>6. Quiet /\ ctx' = ctx
  BY <1>1, AtFacts, QuietSame DEF OpenTree, cache, Stays, CatsMoved
<1>7. CallTyped(c, Len(ctx)) /\ c.request = Call.request
  BY <1>1, <1>4, AtFacts DEF Changed, CallFields, CallTyped, CatLabels
<1>8. OpenTreeFacts(c)
  BY <1>1, <1>4, <1>5, <1>6, <1>7, AtFacts DEF OpenTree, OpenTreeFacts, Proceeds
<1> QED
  BY <1>8

\* One more category is known.
ReadCategoryFacts(name, c) ==
  /\ Call.at = "catdir" /\ name \in Call.names
  /\ \/ Quiet /\ ctx' = ctx /\ name \in NamesIn
     \/ NewFacts(c, name) /\ (Call.known => name \notin NamesIn)
  /\ Proceeds(c) /\ c.names = Call.names \ {name} /\ c.known = Call.known
  /\ IF Sorting(c.request) THEN c.at = "catdir" ELSE c.at = "cat" /\ c.back = "catdir"
  /\ Changed(Call, c, {"names", "cat", "at", "back"})
  /\ c.at = "cat" => c.cat \in Ids' /\ ctx'[c.cat].name = name

LEMMA ReadCategoryStep ==
  ASSUME FlagsInv, ReadCategory
  PROVE  \E name, c : ReadCategoryFacts(name, c)
<1>1. At("catdir") /\ Stays
  BY AtFacts DEF ReadCategory, Stays
<1> DEFINE found(name) == IF Call.known THEN FindCat(name) ELSE 0
           new(name) == IF found(name) = 0 THEN Len(ctx) + 1 ELSE found(name)
           left(name) == [Call EXCEPT !.names = @ \ {name}]
           searched == IF Call.known THEN SortedCats ELSE cats
<1>2. PICK name \in Call.names :
        /\ cats' = IF found(name) = 0 THEN Appended(searched, new(name)) ELSE searched
        /\ ctx' = IF found(name) = 0 THEN Append(ctx, NewCat(name)) ELSE ctx
        /\ IF Sorting(Call.request) THEN Continue(left(name))
           ELSE VisitCat(left(name), new(name), "catdir")
  BY DEF ReadCategory
<1> DEFINE old == found(name)
           id == new(name)
           c == left(name)
           d == [c EXCEPT !.cat = id, !.at = "cat", !.back = "catdir"]
<1>3. name \in Categories
  BY <1>1, AtFacts DEF CallTyped
<1>4. old = 0 \/ (old \in Ids /\ old # 0 /\ ctx[old].name = name)
  <2> DEFINE f == FindCat(name)
  <2>1. CacheTyped /\ FlagsTrue
    BY <1>1, AtFacts
  <2>2. f = 0 \/ (f \in Ids /\ f # 0 /\ ctx[f].name = name)
    BY <2>1, FindCatIs
  <2>3. old = 0 \/ old = f
    OBVIOUS
  <2> HIDE DEF old, f
  <2> QED
    BY <2>2, <2>3
<1>5. Call.known /\ old = 0 => name \notin NamesIn
  BY <1>1, AtFacts, FindCatIs DEF NamesIn
<1>6. /\ \/ Quiet /\ ctx' = ctx /\ name \in NamesIn /\ id \in 1..Len(ctx')
         \/ CtxGrown(NewCat(name)) /\ (Call.known => name \notin NamesIn) /\ id \in 1..Len(ctx')
      /\ ctx'[id].name = name
  <2>0. Len(ctx) \in Nat /\ Ids = 1..Len(ctx)
    BY <1>1, AtFacts
  <2>1. CASE old = 0
    <3>1. ctx' = Append(ctx, NewCat(name)) /\ cats' = Appended(searched, Len(ctx) + 1) /\ id = Len(ctx) + 1
      BY <1>2, <2>1
    <3>2. CtxGrown(NewCat(name))
      BY <3>1 DEF CtxGrown
    <3>3. Len(ctx') = Len(ctx) + 1
      BY <1>1, <1>3, <3>2, GrownLen, AtFacts
    <3>4. ctx'[id].name = name
      <4>1. CacheTyped /\ FlagsTrue /\ FlagsMoved
        BY <1>1, AtFacts, StaysMoves
      <4>2. ctx'[Len(ctx) + 1] = NewCat(name)
        BY <1>3, <3>2, <4>1, NewCatTyped, GrownTyped
      <4> QED
        BY <3>1, <4>2 DEF NewCat
    <3> QED
      BY <1>5, <2>0, <2>1, <3>1, <3>2, <3>3, <3>4
  <2>2. CASE old # 0
    <3>1. ctx' = ctx /\ cats' = searched /\ id = old
      BY <1>2, <2>2
    <3>2. Quiet
      BY <1>1, <3>1, AtFacts, QuietSame DEF CatsMoved
    <3> QED
      BY <1>4, <2>0, <2>2, <3>1, <3>2 DEF NamesIn
  <2> QED
    BY <2>1, <2>2
<1>7. Len(ctx') \in Nat /\ Len(ctx) <= Len(ctx')
  <2>1. CASE CtxGrown(NewCat(name))
    <3>1. Len(ctx') = Len(ctx) + 1 /\ Len(ctx) \in Nat
      BY <1>1, <1>3, <2>1, GrownLen, AtFacts
    <3> QED
      BY <3>1
  <2>2. CASE ctx' = ctx
    BY <1>1, <2>2, AtFacts
  <2> QED
    BY <1>6, <2>1, <2>2
<1>8. Changed(Call, c, {"names"}) /\ c.names = Call.names \ {name}
  <2>1. Call = CallRecord(Call)
    BY <1>1, AtFacts
  <2>2. c = [Call EXCEPT !.names = Call.names \ {name}]
    OBVIOUS
  <2> HIDE DEF c
  <2> QED
    BY <2>1, <2>2 DEF CallRecord, Changed, CallFields
<1>9. Changed(c, d, {"cat", "at", "back"}) /\ d.cat = id /\ d.at = "cat" /\ d.back = "catdir"
  <2>1. c = CallRecord(c)
    BY <1>8 DEF Changed
  <2>2. d = [c EXCEPT !.cat = id, !.at = "cat", !.back = "catdir"]
    OBVIOUS
  <2> HIDE DEF c, d, id
  <2> QED
    BY <2>1, <2>2 DEF CallRecord, Changed, CallFields
<1>10. IF Sorting(Call.request) THEN Continue(c) ELSE Continue(d)
  BY <1>2 DEF VisitCat
<1> HIDE DEF c, d, id, old
<1>11. CallTyped(Call, Len(ctx')) /\ Call.at = "catdir"
  BY <1>1, <1>7, AtFacts, TypedMore
<1>12. /\ CallTyped(c, Len(ctx')) /\ c.request = Call.request /\ c.at = "catdir" /\ c.known = Call.known
  BY <1>8, <1>11 DEF Changed, CallFields, CallTyped, CatLabels
<1>13. id \in 1..Len(ctx')
  BY <1>6
<1>14. /\ CallTyped(d, Len(ctx')) /\ d.request = Call.request /\ d.known = Call.known /\ d.names = c.names
  BY <1>9, <1>12, <1>13 DEF Changed, CallFields, CallTyped, CatLabels
<1> DEFINE e == IF Sorting(Call.request) THEN c ELSE d
<1>15. OnTop(e) /\ Proceeds(e)
  <2>1. Continue(e) /\ CallTyped(e, Len(ctx')) /\ e.request = Call.request
    BY <1>10, <1>12, <1>14
  <2> HIDE DEF e
  <2>2. OnTop(e)
    BY <1>1, <2>1, AtFacts, Continued
  <2> QED
    BY <2>1, <2>2 DEF Proceeds
<1>16. /\ e.names = Call.names \ {name} /\ e.known = Call.known /\ e.request = Call.request
       /\ IF Sorting(e.request) THEN e.at = "catdir" ELSE e.at = "cat" /\ e.back = "catdir"
  BY <1>8, <1>9, <1>12, <1>14
<1> HIDE DEF e
<1>18. Changed(Call, e, {"names", "cat", "at", "back"})
  BY <1>8, <1>9 DEF e, Changed, CallFields
<1>19. e.at = "cat" => e.cat \in Ids' /\ ctx'[e.cat].name = name
  BY <1>6, <1>9, <1>12 DEF e, Ids
<1>17. ReadCategoryFacts(name, e)
  BY <1>1, <1>2, <1>3, <1>6, <1>11, <1>15, <1>16, <1>18, <1>19 DEF ReadCategoryFacts, NewFacts
<1> QED
  BY <1>17

CloseTreeFacts(c) ==
  /\ FlagsMoved /\ cats' = cats /\ ctx' = ctx /\ complete' = TRUE
  /\ Call.at = "catdir" /\ Call.names = {} /\ Proceeds(c) /\ c.at \in {"tree", "done"}
  /\ Goes(c, IF Sorting(Call.request) THEN "tree" ELSE "done")

LEMMA CloseTreeStep ==
  ASSUME FlagsInv, CloseTree
  PROVE  \E c : CloseTreeFacts(c)
<1>1. At("catdir")
  BY DEF CloseTree
<1> DEFINE next == IF Sorting(Call.request) THEN "tree" ELSE "done"
           c == [Call EXCEPT !.at = next]
<1>2. Continue(c)
  BY DEF CloseTree, Goto
<1> HIDE DEF next
<1>3. Changed(Call, c, {"at"}) /\ c.at = next
  BY <1>1, AtFacts, ChangedAt
<1> HIDE DEF c
<1>4. next \in {"tree", "done"}
  BY DEF next
<1>5. OnTop(c)
  BY <1>1, <1>2, AtFacts, Continued
<1>6. ctx' = ctx /\ cats' = cats /\ complete' = TRUE /\ FlagsMoved
  BY <1>1, AtFacts DEF CloseTree, FlagsMoved
<1>7. CallTyped(c, Len(ctx)) /\ c.request = Call.request
  BY <1>1, <1>3, <1>4, AtFacts DEF Changed, CallFields, CallTyped, CatLabels
<1>9. Goes(c, next)
  BY <1>3 DEF Goes
<1>8. CloseTreeFacts(c)
  BY <1>1, <1>3, <1>4, <1>5, <1>6, <1>7, <1>9, AtFacts DEF CloseTreeFacts, Proceeds, CloseTree, next
<1> QED
  BY <1>8

-----------------------------------------------------------------------------
(* Steps that read a file.                                                 *)

OpenFileFacts(c) ==
  /\ Quiet /\ ctx' = ctx /\ Proceeds(c) /\ Call.at = "tree" /\ c.at = "blocks"
  /\ c.files = Disk /\ c.cat = 0 /\ FromFile /\ ~complete
  /\ Changed(Call, c, {"at", "files", "cat"})

LEMMA OpenFileStep ==
  ASSUME FlagsInv, OpenFile
  PROVE  \E c : OpenFileFacts(c)
<1>1. At("tree") /\ FromFile /\ ~complete
  BY DEF OpenFile, FromFile
<1> DEFINE c == [Call EXCEPT !.at = "blocks", !.files = Disk, !.cat = 0]
<1>2. Continue(c)
  BY DEF OpenFile
<1>3. Changed(Call, c, {"at", "files", "cat"}) /\ c.at = "blocks" /\ c.files = Disk /\ c.cat = 0
  <2>1. Call = CallRecord(Call)
    BY <1>1, AtFacts
  <2>2. c = [Call EXCEPT !.at = "blocks", !.files = Disk, !.cat = 0]
    OBVIOUS
  <2> HIDE DEF c
  <2> QED
    BY <2>1, <2>2 DEF CallRecord, Changed, CallFields
<1> HIDE DEF c
<1>4. OnTop(c)
  BY <1>1, <1>2, AtFacts, Continued
<1>5. Quiet /\ ctx' = ctx
  BY <1>1, AtFacts, QuietSame DEF OpenFile, cache, Stays, CatsMoved
<1>6. CallTyped(c, Len(ctx)) /\ c.request = Call.request
  BY <1>1, <1>3, AtFacts DEF Changed, CallFields, CallTyped, CatLabels
<1>7. OpenFileFacts(c)
  BY <1>1, <1>3, <1>4, <1>5, <1>6, AtFacts DEF OpenFileFacts, Proceeds
<1> QED
  BY <1>7

PlainOf(p) == [pn |-> p.pn, ver |-> p.ver]

LEMMA PlainOfIs ==
  ASSUME NEW p \in Disk
  PROVE  PlainOf(p) \in Plains /\ p.cat \in Categories
BY CacheAssumption DEF PlainOf, Plains

\* A category with one package.
FirstBlock(p) == [name |-> p.cat, pkgs |-> Appended(NewArray, PlainOf(p)), complete |-> FALSE]

LEMMA FirstBlockTyped ==
  ASSUME NEW p \in Disk
  PROVE  FirstBlock(p) \in CatRecord /\ PkgsFlag(FirstBlock(p).pkgs)
<1>1. Append(<<>>, PlainOf(p)) \in Seq(Plains)
  BY PlainOfIs
<1> QED
  BY <1>1, PlainOfIs DEF FirstBlock, Appended, NewArray, CatRecord, PkgsFlag

ReadBlockFacts(p, c) ==
  /\ Call.at = "blocks" /\ p \in Call.files /\ p \in Disk /\ Stays
  /\ kind = "gtree" => ~\E q \in Call.files : Earlier(q, p)
  /\ Proceeds(c) /\ c.at = "blocks" /\ c.files = Call.files \ {p}
  /\ Changed(Call, c, {"files", "cat"})
  /\ \/ /\ c.cat \in Ids /\ ctx[c.cat].name = p.cat /\ CatsMoved
        /\ PkgsPut(c.cat, Appended(ctx[c.cat].pkgs, PlainOf(p)))
     \/ /\ c.cat = Len(ctx) + 1 /\ CtxGrown(FirstBlock(p))
        /\ kind = "packages" => p.cat \notin NamesIn
        /\ kind = "gtree" => Call.cat = 0 \/ ctx[Call.cat].name # p.cat

LEMMA ExceptLast ==
  ASSUME NEW s \in Seq(CatRecord), NEW r, r = [name |-> r.name, pkgs |-> r.pkgs, complete |-> r.complete],
         NEW x, NEW t, t = [Append(s, r) EXCEPT ![Len(s) + 1].pkgs = x]
  PROVE  t = Append(s, [name |-> r.name, pkgs |-> x, complete |-> r.complete])
<1> DEFINE n == Len(s) + 1
           u == [r EXCEPT !.pkgs = x]
           v == Append(s, r)
<1>1. Len(s) \in Nat /\ DOMAIN s = 1..Len(s)
  OBVIOUS
<1>2. v[n] = r /\ DOMAIN v = 1..n /\ \A i \in 1..Len(s) : v[i] = s[i]
  OBVIOUS
<1>3. t = [v EXCEPT ![n] = u]
  BY <1>2
<1>4. u = [name |-> r.name, pkgs |-> x, complete |-> r.complete]
  OBVIOUS
<1>5. DOMAIN Append(s, u) = 1..n /\ Append(s, u)[n] = u /\ \A i \in 1..Len(s) : Append(s, u)[i] = s[i]
  OBVIOUS
<1>6. Append(s, u) = [i \in 1..n |-> Append(s, u)[i]]
  OBVIOUS
<1> DEFINE w == Append(s, u)
<1> HIDE DEF u, v
<1>10. w = [i \in 1..n |-> w[i]] /\ w[n] = u /\ \A i \in 1..Len(s) : w[i] = s[i]
  BY <1>5, <1>6
<1> HIDE DEF w
<1>7. t = [i \in 1..n |-> IF i = n THEN u ELSE v[i]]
  BY <1>2, <1>3
<1>8. \A i \in 1..n : i = n \/ i \in 1..Len(s)
  BY <1>1
<1>9. t = w
  <2> HIDE DEF n
  <2>1. \A i \in 1..n : t[i] = w[i]
    BY <1>2, <1>7, <1>8, <1>10
  <2>2. DOMAIN t = 1..n /\ t = [i \in 1..n |-> t[i]]
    BY <1>7
  <2> QED
    BY <1>10, <2>1, <2>2
<1> QED
  BY <1>4, <1>9 DEF w

LEMMA ReadBlockStep ==
  ASSUME FlagsInv, ReadBlock
  PROVE  \E p, c : ReadBlockFacts(p, c)
<1>1. At("blocks") /\ Stays
  BY AtFacts DEF ReadBlock, Stays
<1> DEFINE id(p) == IF CatOfBlock(p) = 0 THEN Len(ctx) + 1 ELSE CatOfBlock(p)
           searched == IF kind = "packages" THEN SortedCats ELSE cats
           created(p) == IF CatOfBlock(p) = 0 THEN Append(ctx, NewCat(p.cat)) ELSE ctx
           left(p) == [Call EXCEPT !.files = @ \ {p}, !.cat = id(p)]
<1>2. PICK p \in Call.files :
        /\ kind = "gtree" => ~\E q \in Call.files : Earlier(q, p)
        /\ cats' = IF CatOfBlock(p) = 0 THEN Appended(searched, id(p)) ELSE searched
        /\ ctx' = [created(p) EXCEPT ![id(p)].pkgs = Appended(@, [pn |-> p.pn, ver |-> p.ver])]
        /\ Continue(left(p))
  BY DEF ReadBlock
<1> DEFINE n == id(p)
           c == left(p)
<1>3. p \in Disk /\ p.cat \in Categories
  BY <1>1, AtFacts, PlainOfIs DEF CallTyped
<1>4. Call.cat \in 0..Len(ctx) /\ Call.at = "blocks" /\ Len(ctx) \in Nat /\ Ids = 1..Len(ctx)
  BY <1>1, AtFacts DEF CallTyped
<1>5. \/ /\ CatOfBlock(p) = 0
         /\ kind = "packages" => p.cat \notin NamesIn
         /\ kind = "gtree" => Call.cat = 0 \/ ctx[Call.cat].name # p.cat
      \/ CatOfBlock(p) # 0 /\ CatOfBlock(p) \in Ids /\ ctx[CatOfBlock(p)].name = p.cat
  <2>1. CASE kind = "packages"
    <3>1. CatOfBlock(p) = FindCat(p.cat)
      BY <2>1 DEF CatOfBlock
    <3>2. \/ FindCat(p.cat) = 0 /\ \A d \in Ids : ctx[d].name # p.cat
          \/ FindCat(p.cat) \in Ids /\ FindCat(p.cat) # 0 /\ ctx[FindCat(p.cat)].name = p.cat
      BY <1>1, AtFacts, FindCatIs
    <3> QED
      BY <2>1, <3>1, <3>2 DEF NamesIn
  <2>2. CASE kind = "gtree" /\ Call.cat # 0 /\ ctx[Call.cat].name = p.cat
    <3>1. CatOfBlock(p) = Call.cat
      BY <2>2 DEF CatOfBlock
    <3> QED
      BY <1>4, <2>2, <3>1
  <2>3. CASE kind # "packages" /\ ~(kind = "gtree" /\ Call.cat # 0 /\ ctx[Call.cat].name = p.cat)
    <3>1. CatOfBlock(p) = 0
      BY <2>3 DEF CatOfBlock
    <3> QED
      BY <2>3, <3>1
  <2> QED
    BY <2>1, <2>2, <2>3
<1>6. /\ n \in Nat
      /\ \/ /\ n \in Ids /\ ctx[n].name = p.cat /\ CatsMoved
            /\ PkgsPut(n, Appended(ctx[n].pkgs, PlainOf(p)))
         \/ /\ n = Len(ctx) + 1 /\ CtxGrown(FirstBlock(p))
            /\ kind = "packages" => p.cat \notin NamesIn
            /\ kind = "gtree" => Call.cat = 0 \/ ctx[Call.cat].name # p.cat
  <2>1. CASE CatOfBlock(p) # 0
    <3>1. n = CatOfBlock(p) /\ cats' = searched
          /\ ctx' = [ctx EXCEPT ![n].pkgs = Appended(@, [pn |-> p.pn, ver |-> p.ver])]
      BY <1>2, <2>1
    <3>2. CatsMoved
      BY <3>1 DEF CatsMoved
    <3>3. n \in Ids /\ ctx[n].name = p.cat
      BY <1>5, <2>1, <3>1
    <3> HIDE DEF n
    <3>4. PkgsPut(n, Appended(ctx[n].pkgs, PlainOf(p)))
      BY <3>1 DEF PkgsPut, PlainOf
    <3> QED
      BY <1>4, <3>2, <3>3, <3>4
  <2>2. CASE CatOfBlock(p) = 0
    <3>1. n = Len(ctx) + 1 /\ cats' = Appended(searched, n)
          /\ ctx' = [Append(ctx, NewCat(p.cat)) EXCEPT ![n].pkgs = Appended(@, PlainOf(p))]
      BY <1>2, <2>2 DEF PlainOf
    <3> HIDE DEF n
    <3>2. Append(ctx, NewCat(p.cat))[n] = NewCat(p.cat) /\ ctx \in Seq(CatRecord)
      BY <1>1, <3>1, AtFacts DEF CacheTyped
    <3>3. ctx' = [Append(ctx, NewCat(p.cat)) EXCEPT ![n].pkgs = Appended(NewArray, PlainOf(p))]
      <4> DEFINE a == Append(ctx, NewCat(p.cat))
      <4>1. a[n].pkgs = NewArray
        <5>1. NewCat(p.cat).pkgs = NewArray
          BY DEF NewCat
        <5>2. a[n] = NewCat(p.cat)
          BY <3>2
        <5> QED
          BY <5>1, <5>2
      <4>2. ctx' = [a EXCEPT ![n].pkgs = Appended(@, PlainOf(p))]
        BY <3>1
      <4> HIDE DEF a
      <4>3. ctx' = [a EXCEPT ![n].pkgs = Appended(NewArray, PlainOf(p))]
        BY <4>1, <4>2
      <4> QED
        BY <4>3 DEF a
    <3> DEFINE r == NewCat(p.cat)
               x == Appended(NewArray, PlainOf(p))
    <3>4. r = [name |-> r.name, pkgs |-> r.pkgs, complete |-> r.complete]
          /\ r.name = p.cat /\ r.complete = FALSE
      BY DEF NewCat
    <3> HIDE DEF r, x
    <3>5. ctx' = Append(ctx, [name |-> r.name, pkgs |-> x, complete |-> r.complete])
      <4>1. ctx' = [Append(ctx, r) EXCEPT ![Len(ctx) + 1].pkgs = x]
        BY <3>1, <3>3 DEF r, x
      <4> QED
        BY <3>2, <3>4, <4>1, ExceptLast
    <3>6. ctx' = Append(ctx, FirstBlock(p))
      BY <3>4, <3>5 DEF FirstBlock, x
    <3>7. CtxGrown(FirstBlock(p))
      BY <3>1, <3>6 DEF CtxGrown
    <3> QED
      BY <1>4, <1>5, <2>2, <3>1, <3>7
  <2> QED
    BY <2>1, <2>2
<1>7. Changed(Call, c, {"files", "cat"}) /\ c.files = Call.files \ {p} /\ c.cat = n
  <2>1. Call = CallRecord(Call)
    BY <1>1, AtFacts
  <2>2. c = [Call EXCEPT !.files = Call.files \ {p}, !.cat = n]
    OBVIOUS
  <2> HIDE DEF c, n
  <2> QED
    BY <2>1, <2>2 DEF CallRecord, Changed, CallFields
<1>8. Continue(c)
  BY <1>2
<1> HIDE DEF c, n
<1>9. Len(ctx') \in Nat /\ n \in 1..Len(ctx') /\ Len(ctx) <= Len(ctx')
  <2>1. CASE n \in Ids /\ PkgsPut(n, Appended(ctx[n].pkgs, PlainOf(p)))
    <3>1. CtxMoved
      BY <1>1, <1>3, <2>1, AtFacts, OnePkgs, PlainOfIs
    <3> QED
      BY <1>4, <2>1, <3>1 DEF CtxMoved
  <2>2. CASE n = Len(ctx) + 1 /\ CtxGrown(FirstBlock(p))
    <3>1. FlagsMoved
      BY <1>1, AtFacts DEF FlagsMoved, Stays
    <3>2. Len(ctx') = Len(ctx) + 1
      BY <1>1, <1>3, <2>2, <3>1, AtFacts, GrownTyped, FirstBlockTyped
    <3> QED
      BY <1>4, <2>2, <3>2
  <2> QED
    BY <1>6, <2>1, <2>2
<1>10. OnTop(c)
  BY <1>1, <1>8, AtFacts, Continued
<1>11. CallTyped(c, Len(ctx')) /\ c.request = Call.request
  <2>1. CallTyped(Call, Len(ctx'))
    BY <1>1, <1>4, <1>9, AtFacts, TypedMore
  <2> QED
    BY <1>4, <1>7, <1>9, <2>1 DEF Changed, CallFields, CallTyped, CatLabels
<1>12. c.at = "blocks"
  BY <1>4, <1>7 DEF Changed, CallFields
<1>13. ReadBlockFacts(p, c)
  BY <1>1, <1>2, <1>3, <1>4, <1>6, <1>7, <1>10, <1>11, <1>12 DEF ReadBlockFacts, Proceeds
<1> QED
  BY <1>13

CloseFileFacts(c) ==
  /\ Call.at = "blocks" /\ Call.files = {} /\ FlagsMoved /\ cats' = cats /\ complete' = TRUE
  /\ CompleteAll(TRUE) /\ Proceeds(c) /\ c.at = "tree" /\ Goes(c, "tree")

LEMMA CloseFileStep ==
  ASSUME FlagsInv, CloseFile
  PROVE  \E c : CloseFileFacts(c)
<1>1. At("blocks") /\ Call.files = {}
  BY DEF CloseFile
<1> DEFINE c == [Call EXCEPT !.at = "tree"]
<1>2. Continue(c)
  BY DEF CloseFile, Goto
<1>3. Changed(Call, c, {"at"}) /\ c.at = "tree"
  BY <1>1, AtFacts, ChangedAt
<1> HIDE DEF c
<1>4. OnTop(c)
  BY <1>1, <1>2, AtFacts, Continued
<1>5. CompleteAll(TRUE) /\ cats' = cats /\ complete' = TRUE /\ FlagsMoved
  BY <1>1, AtFacts DEF CloseFile, FlagsMoved, CompleteAll
<1>6. Len(ctx') = Len(ctx)
  BY <1>1, <1>5, AtFacts, EveryComplete DEF CtxMoved
<1>7. CallTyped(c, Len(ctx)) /\ c.request = Call.request
  BY <1>1, <1>3, AtFacts DEF Changed, CallFields, CallTyped, CatLabels
<1>8. CloseFileFacts(c)
  BY <1>1, <1>3, <1>4, <1>5, <1>6, <1>7, AtFacts DEF CloseFileFacts, Proceeds, Goes
<1> QED
  BY <1>8

-----------------------------------------------------------------------------
(* Steps that read a category.                                             *)

\* The place in the traversal stays.
SamePlace(c) == c.back = Call.back /\ c.names = Call.names /\ c.known = Call.known /\ c.cat = Call.cat

OpenCategoryFacts(c) ==
  /\ Call.at = "cat" /\ Call.cat \in Ids /\ Quiet /\ Proceeds(c) /\ SamePlace(c) /\ c.at = "pkgdir"
  /\ Hit = 0 /\ ~ctx[Call.cat].complete
  /\ c.knownPkgs = (Cat.pkgs.elems # <<>>)
  /\ c.dirs = IF kind = "ebuild" /\ ~FilterName THEN {p.pn : p \in InDir(Cat)} ELSE {}
  /\ c.files = {p \in InDir(Cat) : kind = "ebuild" => FilterName /\ p.pn = Query.pn}
  /\ Changed(Call, c, {"at", "found", "knownPkgs", "dirs", "files"}) /\ c.found = FALSE

LEMMA OpenCategoryStep ==
  ASSUME FlagsInv, OpenCategory
  PROVE  \E c : OpenCategoryFacts(c)
<1>1. At("cat") /\ Call.cat \in Ids /\ Call.at = "cat"
  BY AtFacts DEF OpenCategory, CatLabels
<1>2. PkgsPut(Call.cat, Searched)
  BY DEF OpenCategory, PkgsPut
<1>3. Quiet
  BY <1>1, <1>2, AtFacts, HitFacts, QuietPkgs DEF OpenCategory, Stays
<1> DEFINE k == (Cat.pkgs.elems # <<>>)
           ds == IF kind = "ebuild" /\ ~FilterName THEN {p.pn : p \in InDir(Cat)} ELSE {}
           fs == {p \in InDir(Cat) : kind = "ebuild" => FilterName /\ p.pn = Query.pn}
           c == [Call EXCEPT !.at = "pkgdir", !.found = FALSE, !.knownPkgs = k, !.dirs = ds, !.files = fs]
<1>4. Continue(c)
  BY DEF OpenCategory
<1>5. fs \subseteq Disk
  BY DEF InDir
<1> HIDE DEF k, ds, fs
<1>6. /\ Changed(Call, c, {"at", "found", "knownPkgs", "dirs", "files"})
      /\ c.at = "pkgdir" /\ c.found = FALSE /\ c.knownPkgs = k /\ c.dirs = ds /\ c.files = fs
  <2>1. Call = CallRecord(Call)
    BY <1>1, AtFacts
  <2>2. c = [Call EXCEPT !.at = "pkgdir", !.found = FALSE, !.knownPkgs = k, !.dirs = ds, !.files = fs]
    OBVIOUS
  <2> HIDE DEF c
  <2> QED
    BY <2>1, <2>2 DEF CallRecord, Changed, CallFields
<1> HIDE DEF c
<1>7. OnTop(c)
  BY <1>1, <1>4, AtFacts, Continued
<1>8. /\ CallTyped(c, Len(ctx)) /\ c.request = Call.request /\ SamePlace(c)
  BY <1>1, <1>5, <1>6, AtFacts DEF Changed, CallFields, CallTyped, CatLabels, SamePlace
<1>9. Len(ctx') = Len(ctx)
  BY <1>3 DEF Quiet, CtxMoved
<1>10. Hit = 0 /\ ~ctx[Call.cat].complete
  BY DEF OpenCategory, Cat
<1>11. Proceeds(c)
  BY <1>7, <1>8, <1>9 DEF Proceeds
<1>12. OpenCategoryFacts(c)
  BY <1>1, <1>3, <1>6, <1>8, <1>10, <1>11 DEF OpenCategoryFacts, k, ds, fs
<1> QED
  BY <1>12

ReadNameFacts(pn, c) ==
  /\ Call.at = "pkgdir" /\ Call.cat \in Ids /\ Call.files = {} /\ pn \in Call.dirs
  /\ Quiet /\ Proceeds(c) /\ SamePlace(c) /\ c.at = "pkgdir"
  /\ c.dirs = Call.dirs \ {pn} /\ c.files = NamedDir(Cat, pn) /\ c.knownPkgs = Call.knownPkgs
  /\ ~crashed' => ~(Call.knownPkgs /\ FindPkg(Call.cat, pn) # 0)
  /\ Changed(Call, c, {"dirs", "files"})

LEMMA ReadNameStep ==
  ASSUME FlagsInv, ReadName
  PROVE  \E pn, c : ReadNameFacts(pn, c)
<1>1. At("pkgdir") /\ Call.cat \in Ids /\ Call.at = "pkgdir" /\ Call.files = {}
  BY AtFacts DEF ReadName, CatLabels
<1> DEFINE left(pn) == [Call EXCEPT !.dirs = @ \ {pn}, !.files = NamedDir(Cat, pn)]
<1>2. PICK pn \in Call.dirs :
        /\ Continue(left(pn))
        /\ crashed' = (Call.knownPkgs /\ FindPkg(Call.cat, pn) # 0)
        /\ ctx' = [ctx EXCEPT ![Call.cat].pkgs = IF Call.knownPkgs THEN SortedPkgs(Call.cat) ELSE @]
  BY DEF ReadName
<1> DEFINE x == IF Call.knownPkgs THEN SortedPkgs(Call.cat) ELSE ctx[Call.cat].pkgs
           c == left(pn)
           fs == NamedDir(Cat, pn)
<1>3. PkgsPut(Call.cat, x)
  BY <1>2 DEF PkgsPut
<1>4. Continue(c)
  BY <1>2
<1> HIDE DEF x
<1>5. Stays /\ cats' = cats
  BY <1>2 DEF ReadName, Stays
<1>6. Quiet
  BY <1>1, <1>3, <1>5, AtFacts, QuietPkgs DEF x
<1>7. fs \subseteq Disk
  BY DEF NamedDir, InDir
<1>8. /\ Changed(Call, c, {"dirs", "files"}) /\ c.dirs = Call.dirs \ {pn} /\ c.files = fs
  <2>1. Call = CallRecord(Call)
    BY <1>1, AtFacts
  <2>2. c = [Call EXCEPT !.dirs = Call.dirs \ {pn}, !.files = fs]
    OBVIOUS
  <2> HIDE DEF c, fs
  <2> QED
    BY <2>1, <2>2 DEF CallRecord, Changed, CallFields
<1> HIDE DEF c, fs
<1>9. OnTop(c)
  BY <1>1, <1>4, AtFacts, Continued
<1>10. /\ CallTyped(c, Len(ctx)) /\ c.request = Call.request /\ SamePlace(c)
       /\ c.at = "pkgdir" /\ c.knownPkgs = Call.knownPkgs
  BY <1>1, <1>7, <1>8, AtFacts DEF Changed, CallFields, CallTyped, CatLabels, SamePlace
<1>11. Len(ctx') = Len(ctx)
  BY <1>6 DEF Quiet, CtxMoved
<1>12. Proceeds(c)
  BY <1>9, <1>10, <1>11 DEF Proceeds
<1>13. ReadNameFacts(pn, c)
  BY <1>1, <1>2, <1>6, <1>8, <1>10, <1>12 DEF ReadNameFacts, fs
<1> QED
  BY <1>13

ReadPackageFacts(f, d) ==
  /\ Call.at = "pkgdir" /\ Call.cat \in Ids /\ f \in Call.files /\ f \in Disk /\ Stays /\ cats' = cats
  /\ PkgsPut(Call.cat, Appended(ctx[Call.cat].pkgs, PlainOf(f)))
  /\ (Nests(d) /\ ~Sorting(Call.request)) \/ Proceeds(d)
  /\ SamePlace(d) /\ d.at = "pkgdir"
  /\ d.files = Call.files \ {f} /\ d.dirs = Call.dirs /\ d.knownPkgs = Call.knownPkgs
  /\ Changed(Call, d, {"files", "found", "out"}) /\ d.found = TRUE
  /\ d.out = IF ~Sorting(Call.request) /\ (FilterName => Fits(Query, PlainOf(f)))
             THEN OneMore(Call.out, f) ELSE Call.out

LEMMA ReadPackageStep ==
  ASSUME FlagsInv, ReadPackage
  PROVE  \E f, d : ReadPackageFacts(f, d)
<1>1. At("pkgdir") /\ Call.cat \in Ids /\ Call.at = "pkgdir"
  BY AtFacts DEF ReadPackage, CatLabels
<1> DEFINE left(f) == [Call EXCEPT !.files = @ \ {f}, !.found = TRUE]
<1>2. PICK f \in Call.files :
        /\ ctx' = [ctx EXCEPT ![Call.cat].pkgs = Appended(@, PlainOf(f))]
        /\ IF ~Sorting(Call.request) /\ (FilterName => Fits(Query, PlainOf(f)))
           THEN Callback(left(f), PlainOf(f))
           ELSE Continue(left(f))
  BY DEF ReadPackage, PlainOf
<1> DEFINE c == left(f)
<1>3. f \in Disk /\ PlainOf(f) \in Plains
  BY <1>1, AtFacts, PlainOfIs DEF CallTyped
<1>4. PkgsPut(Call.cat, Appended(ctx[Call.cat].pkgs, PlainOf(f)))
  BY <1>2 DEF PkgsPut
<1>5. Stays /\ cats' = cats
  BY <1>1, AtFacts DEF ReadPackage, Stays
<1>6. Len(ctx') = Len(ctx)
  BY <1>1, <1>3, <1>4, AtFacts, OnePkgs DEF CtxMoved
<1>7. Changed(Call, c, {"files", "found"}) /\ c.files = Call.files \ {f} /\ c.found = TRUE
  <2>1. Call = CallRecord(Call)
    BY <1>1, AtFacts
  <2>2. c = [Call EXCEPT !.files = Call.files \ {f}, !.found = TRUE]
    OBVIOUS
  <2> HIDE DEF c
  <2> QED
    BY <2>1, <2>2 DEF CallRecord, Changed, CallFields
<1>8. IF ~Sorting(Call.request) /\ (FilterName => Fits(Query, PlainOf(f)))
      THEN Callback(c, PlainOf(f)) ELSE Continue(c)
  BY <1>2
<1> HIDE DEF c
<1>9. /\ CallTyped(c, Len(ctx)) /\ c.request = Call.request /\ SamePlace(c)
      /\ c.at = "pkgdir" /\ c.knownPkgs = Call.knownPkgs /\ c.dirs = Call.dirs
  BY <1>1, <1>7, AtFacts DEF Changed, CallFields, CallTyped, CatLabels, SamePlace
<1>10. CASE ~Sorting(Call.request) /\ (FilterName => Fits(Query, PlainOf(f))) /\ Callback(c, PlainOf(f))
  <2>1. PICK d : /\ Changed(c, d, {"out"}) /\ (Nests(d) \/ Proceeds(d))
                 /\ d.out = Append(c.out, [cat |-> c.cat, pn |-> PlainOf(f).pn, ver |-> PlainOf(f).ver])
    BY <1>1, <1>6, <1>9, <1>10, AtFacts, CallingBack DEF SamePlace
  <2>2. /\ SamePlace(d) /\ d.at = "pkgdir" /\ d.files = Call.files \ {f}
        /\ d.dirs = Call.dirs /\ d.knownPkgs = Call.knownPkgs
    BY <1>7, <1>9, <2>1 DEF Changed, CallFields, SamePlace
  <2>4. Changed(Call, d, {"files", "found", "out"}) /\ d.found = TRUE /\ d.out = OneMore(Call.out, f)
    BY <1>7, <2>1 DEF Changed, CallFields, OneMore, PlainOf
  <2>3. ReadPackageFacts(f, d)
    BY <1>1, <1>2, <1>3, <1>4, <1>5, <1>10, <2>1, <2>2, <2>4 DEF ReadPackageFacts
  <2> QED
    BY <2>3
<1>11. CASE ~(~Sorting(Call.request) /\ (FilterName => Fits(Query, PlainOf(f)))) /\ Continue(c)
  <2>1. OnTop(c)
    BY <1>1, <1>11, AtFacts, Continued
  <2>2. Proceeds(c)
    BY <1>6, <1>9, <2>1 DEF Proceeds
  <2>4. Changed(Call, c, {"files", "found", "out"}) /\ c.out = Call.out
    BY <1>7 DEF Changed, CallFields
  <2>3. ReadPackageFacts(f, c)
    BY <1>1, <1>2, <1>3, <1>4, <1>5, <1>7, <1>9, <1>11, <2>2, <2>4 DEF ReadPackageFacts
  <2> QED
    BY <2>3
<1> QED
  BY <1>8, <1>10, <1>11

CloseCategoryFacts(c) ==
  /\ Call.at = "pkgdir" /\ Call.cat \in Ids /\ Call.files = {} /\ Call.dirs = {}
  /\ Stays /\ cats' = cats
  /\ CompletePut(Call.cat, ctx[Call.cat].complete \/ kind # "ebuild" \/ ~FilterName)
  /\ Proceeds(c) /\ SamePlace(c) /\ c.at \in {"cat", Call.back}
  /\ Goes(c, IF Sorting(Call.request) /\ (kind = "ebuild" => Call.found) THEN "cat" ELSE Call.back)

LEMMA CloseCategoryStep ==
  ASSUME FlagsInv, CloseCategory
  PROVE  \E c : CloseCategoryFacts(c)
<1>1. At("pkgdir") /\ Call.cat \in Ids /\ Call.at = "pkgdir" /\ Call.files = {} /\ Call.dirs = {}
  BY AtFacts DEF CloseCategory, ReadWhole, Restarts, CatLabels
<1> DEFINE b == ctx[Call.cat].complete \/ kind # "ebuild" \/ ~FilterName
           next == IF Sorting(Call.request) /\ (kind = "ebuild" => Call.found) THEN "cat" ELSE Call.back
           c == [Call EXCEPT !.at = next]
<1>2. CompletePut(Call.cat, b)
  BY DEF CloseCategory, ReadWhole, Restarts, CompletePut
<1>3. Continue(c)
  BY DEF CloseCategory, ReadWhole, Restarts, Goto, ReturnFromCat
<1> HIDE DEF b, next
<1>4. b \in BOOLEAN
  BY DEF b
<1>5. Len(ctx') = Len(ctx)
  BY <1>1, <1>2, <1>4, AtFacts, OneComplete DEF CtxMoved
<1>6. Changed(Call, c, {"at"}) /\ c.at = next
  BY <1>1, AtFacts, ChangedAt
<1> HIDE DEF c
<1>7. next = "cat" \/ next = Call.back
  BY DEF next
<1>8. OnTop(c)
  BY <1>1, <1>3, AtFacts, Continued
<1>9. CallTyped(c, Len(ctx)) /\ c.request = Call.request /\ SamePlace(c)
  BY <1>1, <1>6, <1>7, AtFacts DEF Changed, CallFields, CallTyped, CatLabels, SamePlace
<1>10. Proceeds(c)
  BY <1>5, <1>8, <1>9 DEF Proceeds
<1>11. Stays /\ cats' = cats
  BY <1>1, AtFacts DEF CloseCategory, ReadWhole, Restarts, Stays
<1>13. Goes(c, next)
  BY <1>6 DEF Goes
<1>12. CloseCategoryFacts(c)
  BY <1>1, <1>2, <1>6, <1>7, <1>9, <1>10, <1>11, <1>13 DEF CloseCategoryFacts, b, next
<1> QED
  BY <1>12

-----------------------------------------------------------------------------
(* The flags are true.                                                     *)

LEMMA MovesKeep ==
  ASSUME FlagsInv, calls # <<>>, FlagsMoved, CatsMoved, CtxMoved, NEW c, Proceeds(c) \/ Nests(c)
  PROVE  FlagsInv'
<1>1. CacheTyped' /\ FlagsTrue' /\ Len(ctx') = Len(ctx) /\ Len(ctx) \in Nat
  BY MovedTyped, CtxFacts DEF FlagsInv, CtxMoved
<1>2. CASE Proceeds(c)
  <2>1. CallsTyped'
    BY <1>1, <1>2, OnTopTyped DEF FlagsInv, Proceeds
  <2> QED
    BY <1>1, <2>1 DEF FlagsInv
<1>3. CASE Nests(c)
  <2>1. CallTyped(c, Len(ctx)) /\ CallTyped(Asking(c), Len(ctx)) /\ Pushed(c, Asking(c))
    BY <1>1, <1>3, EnteredTyped DEF Nests, Asking
  <2>2. CallsTyped'
    BY <1>1, <2>1, PushedTyped DEF FlagsInv
  <2> QED
    BY <1>1, <2>2 DEF FlagsInv
<1> QED
  BY <1>2, <1>3

LEMMA GrowsKeep ==
  ASSUME FlagsInv, calls # <<>>, FlagsMoved, NEW r \in CatRecord, PkgsFlag(r.pkgs), CtxGrown(r),
         NEW c, Proceeds(c)
  PROVE  FlagsInv'
<1>1. CacheTyped' /\ FlagsTrue' /\ Len(ctx') = Len(ctx) + 1 /\ Len(ctx) \in Nat
  BY GrownTyped DEF FlagsInv
<1>2. CallsTyped'
  <2>1. OnTop(c) /\ CallTyped(c, Len(ctx'))
    BY DEF Proceeds
  <2>2. Len(ctx') \in Nat /\ Len(ctx) <= Len(ctx')
    BY <1>1
  <2> QED
    BY <1>1, <2>1, <2>2, OnTopTyped DEF FlagsInv
<1> QED
  BY <1>1, <1>2 DEF FlagsInv

LEMMA QuietMoves ==
  ASSUME FlagsInv, Quiet
  PROVE  FlagsMoved /\ CatsMoved /\ CtxMoved
BY DEF Quiet, Stays, FlagsMoved, FlagsInv, CacheTyped

LEMMA FlagsInit == Init => FlagsInv
<1> SUFFICES ASSUME Init PROVE FlagsInv
  OBVIOUS
<1>1. /\ kind \in Kinds /\ cats = NewArray /\ complete = FALSE /\ ctx = <<>>
      /\ calls = <<>> /\ crashed = FALSE
  BY DEF Init
<1>2. Ids = {} /\ <<>> \in Seq(CatRecord) /\ <<>> \in Seq(Ids)
  BY <1>1 DEF Ids
<1>3. Once(cats.elems) /\ ToSet(cats.elems) = {} /\ cats \in [elems : Seq(Ids), sorted : BOOLEAN]
  BY <1>1, <1>2 DEF NewArray, Once, ToSet
<1>4. CacheTyped
  BY <1>1, <1>2, <1>3 DEF CacheTyped
<1>5. CallsTyped
  BY <1>1 DEF CallsTyped
<1>6. FlagsTrue
  BY <1>1, <1>2 DEF FlagsTrue, NewArray
<1> QED
  BY <1>4, <1>5, <1>6 DEF FlagsInv

LEMMA StepKeepsFlags ==
  ASSUME FlagsInv, Step
  PROVE  FlagsInv'
<1>0. calls # <<>>
  BY DEF Step, At, EnterKnown, EnterUnknown, EnterComplete, NextCategory, ProbeCategory, OpenTree,
         ReadCategory, CloseTree, OpenFile, ReadBlock, CloseFile, EnterHits, NextHit, EnterAbsent,
         EnterCached, NextCached, OpenCategory, ReadName, ReadPackage, CloseCategory, Finish
<1>1. ASSUME NEW c, QuietStep(c) PROVE FlagsInv'
  BY <1>0, <1>1, QuietMoves, MovesKeep DEF QuietStep
<1>2. ASSUME NEW c, NestStep(c) PROVE FlagsInv'
  BY <1>0, <1>2, QuietMoves, MovesKeep DEF NestStep
<1>3. ASSUME NEW c, NEW name, NewFacts(c, name) PROVE FlagsInv'
  BY <1>0, <1>3, StaysMoves, NewCatTyped, GrowsKeep DEF NewFacts
<1>4. CASE EnterKnown
  BY <1>1, <1>4, EnterKnownStep
<1>5. CASE EnterUnknown
  BY <1>1, <1>5, EnterUnknownStep
<1>6. CASE EnterComplete
  BY <1>1, <1>6, EnterCompleteStep
<1>7. CASE NextCategory
  BY <1>1, <1>7, NextCategoryStep
<1>8. CASE ProbeCategory
  BY <1>1, <1>3, <1>8, ProbeCategoryStep DEF ProbeStep
<1>9. CASE OpenTree
  <2>1. PICK c : OpenTreeFacts(c)
    BY <1>9, OpenTreeStep
  <2> QED
    BY <1>0, <2>1, QuietMoves, MovesKeep DEF OpenTreeFacts
<1>10. CASE ReadCategory
  <2>1. PICK name, c : ReadCategoryFacts(name, c)
    BY <1>10, ReadCategoryStep
  <2>2. CASE NewFacts(c, name)
    BY <1>3, <2>2
  <2>3. CASE Quiet
    BY <1>0, <2>1, <2>3, QuietMoves, MovesKeep DEF ReadCategoryFacts
  <2> QED
    BY <2>1, <2>2, <2>3 DEF ReadCategoryFacts
<1>11. CASE CloseTree
  <2>1. PICK c : CloseTreeFacts(c)
    BY <1>11, CloseTreeStep
  <2>2. CatsMoved /\ CtxMoved /\ FlagsMoved /\ Proceeds(c)
    BY <2>1, CtxSame DEF CloseTreeFacts, CatsMoved, FlagsInv
  <2> QED
    BY <1>0, <2>2, MovesKeep
<1>12. CASE OpenFile
  <2>1. PICK c : OpenFileFacts(c)
    BY <1>12, OpenFileStep
  <2> QED
    BY <1>0, <2>1, QuietMoves, MovesKeep DEF OpenFileFacts
<1>13. CASE ReadBlock
  <2>1. PICK p, c : ReadBlockFacts(p, c)
    BY <1>13, ReadBlockStep
  <2>2. FlagsMoved /\ Proceeds(c) /\ p \in Disk /\ PlainOf(p) \in Plains
    BY <2>1, StaysMoves, PlainOfIs DEF ReadBlockFacts
  <2>3. CASE c.cat \in Ids /\ CatsMoved /\ PkgsPut(c.cat, Appended(ctx[c.cat].pkgs, PlainOf(p)))
    <3>1. CtxMoved
      BY <2>2, <2>3, OnePkgs DEF FlagsInv
    <3> QED
      BY <1>0, <2>2, <2>3, <3>1, MovesKeep
  <2>4. CASE CtxGrown(FirstBlock(p))
    BY <1>0, <2>2, <2>4, FirstBlockTyped, GrowsKeep
  <2> QED
    BY <2>1, <2>3, <2>4 DEF ReadBlockFacts
<1>14. CASE CloseFile
  <2>1. PICK c : CloseFileFacts(c)
    BY <1>14, CloseFileStep
  <2>2. CatsMoved /\ CtxMoved /\ FlagsMoved /\ Proceeds(c)
    BY <2>1, EveryComplete DEF CloseFileFacts, CatsMoved, FlagsInv
  <2> QED
    BY <1>0, <2>2, MovesKeep
<1>15. CASE EnterHits
  BY <1>1, <1>15, EnterHitsStep
<1>16. CASE NextHit
  BY <1>1, <1>2, <1>16, NextHitStep
<1>17. CASE EnterAbsent
  BY <1>1, <1>17, EnterAbsentStep
<1>18. CASE EnterCached
  BY <1>1, <1>18, EnterCachedStep
<1>19. CASE NextCached
  BY <1>1, <1>2, <1>19, NextCachedStep
<1>20. CASE OpenCategory
  <2>1. PICK c : OpenCategoryFacts(c)
    BY <1>20, OpenCategoryStep
  <2> QED
    BY <1>0, <2>1, QuietMoves, MovesKeep DEF OpenCategoryFacts
<1>21. CASE ReadName
  <2>1. PICK pn, c : ReadNameFacts(pn, c)
    BY <1>21, ReadNameStep
  <2> QED
    BY <1>0, <2>1, QuietMoves, MovesKeep DEF ReadNameFacts
<1>22. CASE ReadPackage
  <2>1. PICK f, d : ReadPackageFacts(f, d)
    BY <1>22, ReadPackageStep
  <2>2. FlagsMoved /\ CatsMoved /\ PlainOf(f) \in Plains /\ (Proceeds(d) \/ Nests(d))
    BY <2>1, StaysMoves, PlainOfIs DEF ReadPackageFacts, CatsMoved
  <2>3. CtxMoved
    BY <2>1, <2>2, OnePkgs DEF ReadPackageFacts, FlagsInv
  <2> QED
    BY <1>0, <2>2, <2>3, MovesKeep
<1>23. CASE CloseCategory
  <2>1. PICK c : CloseCategoryFacts(c)
    BY <1>23, CloseCategoryStep
  <2>2. FlagsMoved /\ CatsMoved /\ Proceeds(c)
    BY <2>1, StaysMoves DEF CloseCategoryFacts, CatsMoved
  <2> DEFINE b == ctx[Call.cat].complete \/ kind # "ebuild" \/ ~FilterName
  <2>3. b \in BOOLEAN /\ Call.cat \in Ids /\ CompletePut(Call.cat, b)
    BY <2>1 DEF CloseCategoryFacts
  <2> HIDE DEF b
  <2>4. CtxMoved
    BY <2>3, OneComplete DEF FlagsInv
  <2> QED
    BY <1>0, <2>2, <2>4, MovesKeep
<1>24. CASE Finish
  <2>1. Popped /\ Quiet /\ ctx' = ctx /\ ~crashed'
    BY <1>24, FinishStep
  <2>2. CacheTyped' /\ FlagsTrue'
    BY <2>1, QuietMoves, MovedTyped DEF FlagsInv
  <2>3. CallsTyped'
    BY <1>24, <2>1, PoppedTyped DEF FlagsInv, Finish, At
  <2> QED
    BY <2>2, <2>3 DEF FlagsInv
<1> QED
  BY <1>4, <1>5, <1>6, <1>7, <1>8, <1>9, <1>10, <1>11, <1>12, <1>13, <1>14, <1>15, <1>16, <1>17,
     <1>18, <1>19, <1>20, <1>21, <1>22, <1>23, <1>24 DEF Step

LEMMA BeginKeepsFlags ==
  ASSUME FlagsInv, NEW r, Begin(r)
  PROVE  FlagsInv'
<1>1. Quiet /\ ctx' = ctx /\ Opens(Entered(r)) /\ ~crashed'
  BY BeginStep
<1>2. CacheTyped' /\ FlagsTrue'
  BY <1>1, QuietMoves, MovedTyped DEF FlagsInv
<1>3. CallsTyped'
  BY <1>1 DEF Opens, CallsTyped
<1> QED
  BY <1>2, <1>3 DEF FlagsInv

LEMMA FlagsNext == FlagsInv /\ [Next]_vars => FlagsInv'
<1> SUFFICES ASSUME FlagsInv, [Next]_vars PROVE FlagsInv'
  OBVIOUS
<1>1. CASE Step
  BY <1>1, StepKeepsFlags
<1>2. ASSUME NEW r \in Requests, Begin(r) PROVE FlagsInv'
  BY <1>2, BeginKeepsFlags
<1>3. CASE UNCHANGED vars
  BY <1>3 DEF vars, FlagsInv, CacheTyped, CallsTyped, FlagsTrue, Ids
<1> QED
  BY <1>1, <1>2, <1>3 DEF Next

\* The flag that spares a sort is never set on an array that is not in order, whatever
\* is asked, by callers and callbacks.
THEOREM FlagsKept == Spec => []FlagsTrue
<1>1. FlagsInv => FlagsTrue
  BY DEF FlagsInv
<1> QED
  BY <1>1, FlagsInit, FlagsNext, PTL DEF Spec

-----------------------------------------------------------------------------
(* What is held.                                                           *)

LEMMA PlainOfOne ==
  ASSUME NEW p \in Disk, NEW q \in Disk, p.cat = q.cat, PlainOf(p) = PlainOf(q)
  PROVE  p = q
<1>1. \A r \in Disk : r = [cat |-> r.cat, pn |-> r.pn, ver |-> r.ver]
  BY CacheAssumption
<1>2. p.pn = q.pn /\ p.ver = q.ver
  BY DEF PlainOf
<1> QED
  BY <1>1, <1>2

LEMMA HeldMember ==
  ASSUME NEW c, NEW p
  PROVE  p \in Held(c) <=> p \in InDir(ctx[c]) /\ PlainOf(p) \in ToSet(ctx[c].pkgs.elems)
BY DEF Held, PlainOf

LEMMA HeldMemberNext ==
  ASSUME NEW c, NEW p
  PROVE  p \in Held(c)' <=> p \in InDir(ctx'[c]) /\ PlainOf(p) \in ToSet(ctx'[c].pkgs.elems)
BY DEF Held, PlainOf

LEMMA InDirMember ==
  ASSUME NEW r, NEW p
  PROVE  p \in InDir(r) <=> p \in Disk /\ p.cat = r.name
BY DEF InDir

\* Category c has the packages that it had.
SamePkgs(c) ==
  /\ ctx'[c].name = ctx[c].name /\ ctx'[c].complete = ctx[c].complete
  /\ ToSet(ctx'[c].pkgs.elems) = ToSet(ctx[c].pkgs.elems)
  /\ Once(ctx[c].pkgs.elems) => Once(ctx'[c].pkgs.elems)

LEMMA SameHeld ==
  ASSUME NEW c, ctx'[c].name = ctx[c].name,
         ToSet(ctx'[c].pkgs.elems) = ToSet(ctx[c].pkgs.elems)
  PROVE  /\ Held(c)' = Held(c) /\ InDir(ctx'[c]) = InDir(ctx[c])
         /\ \A p : Whole(c, p)' = Whole(c, p)
<1>1. InDir(ctx'[c]) = InDir(ctx[c])
  BY DEF InDir
<1>2. Held(c)' = Held(c)
  BY <1>1 DEF Held
<1>3. ASSUME NEW p PROVE Whole(c, p)' = Whole(c, p)
  BY <1>1, <1>2 DEF Whole
<1> QED
  BY <1>1, <1>2, <1>3

LEMMA QuietSamePkgs ==
  ASSUME FlagsInv, Quiet
  PROVE  Ids' = Ids /\ \A c \in Ids : SamePkgs(c)
<1>1. CtxMoved /\ CacheTyped /\ FlagsTrue
  BY DEF Quiet, FlagsInv
<1>2. Ids' = Ids
  BY <1>1, QuietMoves, MovedTyped
<1>3. ASSUME NEW c \in Ids PROVE SamePkgs(c)
  <2>1. ctx'[c].name = ctx[c].name /\ ctx'[c].complete = ctx[c].complete
    BY <1>1 DEF CtxMoved, Quiet
  <2>2. ctx'[c].pkgs = ctx[c].pkgs \/ ctx'[c].pkgs = SortedPkgs(c)
    BY DEF Quiet
  <2> QED
    BY <1>1, <2>1, <2>2, SortedPkgsFacts DEF SamePkgs
<1> QED
  BY <1>2, <1>3

LEMMA SameNames ==
  ASSUME Ids' = Ids, \A c \in Ids : ctx'[c].name = ctx[c].name
  PROVE  NamesIn' = NamesIn
BY DEF NamesIn

\* What the invariant says of one category.
PkgsOf(c) ==
  LET s == ctx[c].pkgs.elems IN
    /\ Once(s) /\ ToSet(s) \subseteq Plain(InDir(ctx[c]))
    /\ ctx[c].complete => Held(c) = InDir(ctx[c])
    /\ ~ctx[c].complete /\ ~Reading(c) /\ ~Loading =>
         /\ \A p \in Held(c) : Whole(c, p)
         /\ kind = "vdb" => Held(c) = {}

LEMMA PkgsInvIs == PkgsInv <=> \A c \in Ids : PkgsOf(c)
BY DEF PkgsInv, PkgsOf

\* A category that keeps its packages.
LEMMA SamePkgsOf ==
  ASSUME NEW c, PkgsOf(c), SamePkgs(c), kind' = kind,
         ~Reading(c)' /\ ~Loading' => ~Reading(c) /\ ~Loading
  PROVE  PkgsOf(c)'
<1> DEFINE s == ctx[c].pkgs.elems
           t == ctx'[c].pkgs.elems
<1>1. Held(c)' = Held(c) /\ InDir(ctx'[c]) = InDir(ctx[c]) /\ \A p : Whole(c, p)' = Whole(c, p)
  BY SameHeld DEF SamePkgs
<1>2. Once(t) /\ ToSet(t) \subseteq Plain(InDir(ctx'[c]))
  BY <1>1 DEF PkgsOf, SamePkgs
<1>3. ctx'[c].complete => Held(c)' = InDir(ctx'[c])
  BY <1>1 DEF PkgsOf, SamePkgs
<1>4. ASSUME ~ctx'[c].complete, ~Reading(c)', ~Loading'
      PROVE  (\A p \in Held(c)' : Whole(c, p)') /\ (kind' = "vdb" => Held(c)' = {})
  BY <1>1, <1>4 DEF PkgsOf, SamePkgs
<1> QED
  BY <1>2, <1>3, <1>4 DEF PkgsOf

-----------------------------------------------------------------------------
(* Which request is worked on.                                             *)

LEMMA NestedKept ==
  ASSUME Nested, CallsTyped, calls # <<>>, NEW c, OnTop(c), c.request = Call.request,
         Sorting(c.request) /\ c.at \in CatLabels => c.back # "catdir"
  PROVE  Nested'
<1>1. Len(calls) \in 1..2 /\ Depth = Len(calls) /\ Depth \in 1..Len(calls)
  BY CallFacts
<1>2. Len(calls') = Len(calls) /\ calls'[Depth] = c /\ \A i \in 1..Len(calls) : i # Depth => calls'[i] = calls[i]
  BY DEF OnTop, Call
<1>3. calls'[Depth].request = calls[Depth].request
  BY <1>2 DEF Call
<1>4. ASSUME NEW i \in 1..Len(calls')
      PROVE  /\ calls'[i].request.inner # None => Sorting(calls'[i].request)
             /\ Sorting(calls'[i].request) /\ calls'[i].at \in CatLabels => calls'[i].back # "catdir"
  <2>1. CASE i = Depth
    BY <1>1, <1>2, <1>3, <2>1 DEF Nested
  <2>2. CASE i # Depth
    BY <1>1, <1>2, <2>2 DEF Nested
  <2> QED
    BY <2>1, <2>2
<1>5. ASSUME Len(calls') = 2
      PROVE  /\ Sorting(calls'[1].request) /\ Sorting(calls'[2].request)
             /\ calls'[1].at \in {"hits", "pkglist"}
  <2>1. Depth = 2 /\ calls'[1] = calls[1] /\ calls'[2].request = calls[2].request
    BY <1>1, <1>2, <1>3, <1>5
  <2> QED
    BY <1>2, <1>5, <2>1 DEF Nested
<1> QED
  BY <1>4, <1>5 DEF Nested

LEMMA TopLabels ==
  ASSUME NEW c, OnTop(c)
  PROVE  /\ Loading' <=> c.at = "blocks"
         /\ \A d : Reading(d)' <=> c.at = "pkgdir" /\ c.cat = d
         /\ Walking' <=> Strolls(c)
         /\ Call' = c
BY DEF OnTop, Loading, Reading, Walking, Strolls

LEMMA HereLabels ==
  ASSUME calls # <<>>
  PROVE  /\ Loading <=> Call.at = "blocks"
         /\ \A d : Reading(d) <=> Call.at = "pkgdir" /\ Call.cat = d
         /\ Walking <=> Strolls(Call)
BY DEF Loading, Reading, Walking, Strolls

\* The packages stay, and no directory or file is read, before or after.
LEMMA QuietHeld ==
  ASSUME FlagsInv, HeldInv, Quiet, Nested',
         ~Loading, \A d \in Ids : ~Reading(d), ~Loading', \A d \in Ids : ~Reading(d)',
         Walking' => /\ ~FromFile /\ Categories \ Call'.names \subseteq NamesIn
                     /\ ~Call'.known => Call'.names \cap NamesIn = {}
  PROVE  HeldInv'
<1>1. Ids' = Ids /\ \A d \in Ids : SamePkgs(d)
  BY QuietSamePkgs
<1>2. kind' = kind /\ complete' = complete
  BY DEF Quiet, Stays
<1>3. NamesIn' = NamesIn /\ (FromFile' <=> FromFile)
  BY <1>1, <1>2, SameNames DEF SamePkgs, FromFile
<1>4. CatsInv'
  <2>1. \A c, d \in Ids' : ctx'[c].name = ctx'[d].name => c = d
    BY <1>1 DEF HeldInv, CatsInv, SamePkgs
  <2>2. complete' /\ ~FromFile' => NamesIn' = Categories
    BY <1>2, <1>3 DEF HeldInv, CatsInv
  <2> QED
    BY <1>3, <2>1, <2>2 DEF CatsInv
<1>5. FileInv'
  BY <1>1, <1>2, <1>3 DEF HeldInv, FileInv, SamePkgs
<1>6. LoadInv'
  BY DEF LoadInv
<1>7. ReadInv'
  BY <1>1 DEF ReadInv
<1>8. PkgsInv'
  <2>1. \A c \in Ids : PkgsOf(c)
    BY PkgsInvIs DEF HeldInv
  <2>2. \A c \in Ids : PkgsOf(c)'
    BY <1>1, <1>2, <2>1, SamePkgsOf
  <2> QED
    BY <1>1, <2>2 DEF PkgsInv, PkgsOf
<1> QED
  BY <1>4, <1>5, <1>6, <1>7, <1>8 DEF HeldInv

LEMMA QuietStepHeld ==
  ASSUME FlagsInv, HeldInv, calls # <<>>, NEW c, QuietStep(c)
  PROVE  HeldInv'
<1>1. Quiet /\ OnTop(c) /\ c.request = Call.request /\ Settled(Call) /\ Settled(c)
      /\ (Strolls(c) => Strolls(Call) /\ c.names = Call.names /\ c.known = Call.known)
  BY DEF QuietStep, Proceeds, Strolls
<1>2. Sorting(c.request) /\ c.at \in CatLabels => c.back # "catdir"
  <2>1. Sorting(Call.request) /\ Call.at \in CatLabels => Call.back # "catdir"
    BY CallFacts DEF FlagsInv, HeldInv, Nested, Call
  <2>2. c.at \in CatLabels /\ c.back = "catdir" => Call.at \in CatLabels /\ Call.back = "catdir"
    BY DEF QuietStep, Strolls
  <2> QED
    BY <1>1, <2>1, <2>2
<1>3. Nested'
  BY <1>1, <1>2, NestedKept DEF FlagsInv, HeldInv
<1>4. ~Loading' /\ (\A d \in Ids : ~Reading(d)') /\ ~Loading /\ (\A d \in Ids : ~Reading(d))
  BY <1>1, TopLabels, HereLabels DEF Settled
<1>5. Walking' => /\ ~FromFile /\ Categories \ Call'.names \subseteq NamesIn
                  /\ ~Call'.known => Call'.names \cap NamesIn = {}
  BY <1>1, TopLabels, HereLabels DEF HeldInv, CatsInv
<1> QED
  BY <1>1, <1>3, <1>4, <1>5, QuietHeld

LEMMA NestStepHeld ==
  ASSUME FlagsInv, HeldInv, calls # <<>>, NEW d, NestStep(d)
  PROVE  HeldInv'
<1>1. /\ Quiet /\ Pushed(d, Asking(d)) /\ d.request.inner # None
      /\ d.request = Call.request /\ d.at = Call.at /\ d.back = Call.back
      /\ Call.at \in {"hits", "pkglist"}
  BY DEF NestStep, Nests
<1>2. /\ Asking(d).at = "tree" /\ Asking(d).back = "done" /\ Sorting(Asking(d).request)
      /\ Asking(d).request.inner = None
  BY DEF Asking, Entered, Sorting, DefaultFlags
<1>3. Sorting(d.request) /\ d.back # "catdir"
  <2>1. /\ Call.request.inner # None => Sorting(Call.request)
        /\ Sorting(Call.request) /\ Call.at \in CatLabels => Call.back # "catdir"
    BY CallFacts DEF FlagsInv, HeldInv, Nested, Call
  <2> QED
    BY <1>1, <2>1 DEF CatLabels
<1>4. calls' # <<>> /\ Len(calls') = 2 /\ calls'[1] = d /\ calls'[2] = Asking(d) /\ Call' = Asking(d)
  BY <1>1 DEF Pushed
<1>5. Nested'
  <2>1. ASSUME NEW i \in 1..Len(calls')
        PROVE  /\ calls'[i].request.inner # None => Sorting(calls'[i].request)
               /\ Sorting(calls'[i].request) /\ calls'[i].at \in CatLabels => calls'[i].back # "catdir"
    <3>1. CASE i = 1
      BY <1>3, <1>4, <3>1
    <3>2. CASE i = 2
      BY <1>2, <1>4, <3>2 DEF CatLabels
    <3> QED
      BY <1>4, <3>1, <3>2
  <2> QED
    BY <1>1, <1>2, <1>3, <1>4, <2>1 DEF Nested
<1>6. ~Loading' /\ (\A c \in Ids : ~Reading(c)') /\ ~Walking'
  BY <1>2, <1>4 DEF Loading, Reading, Walking, CatLabels
<1>7. ~Loading /\ (\A c \in Ids : ~Reading(c))
  BY <1>1, HereLabels
<1> QED
  BY <1>1, <1>5, <1>6, <1>7, QuietHeld

LEMMA FinishHeld ==
  ASSUME FlagsInv, HeldInv, Finish
  PROVE  HeldInv'
<1>1. Popped /\ Quiet /\ Settled(Call) /\ calls # <<>>
  BY FinishStep
<1>2. ~Loading /\ (\A c \in Ids : ~Reading(c))
  BY <1>1, HereLabels DEF Settled
<1>3. CASE calls' = <<>>
  <2>1. Nested'
    BY <1>3 DEF Nested
  <2>2. ~Loading' /\ (\A c \in Ids : ~Reading(c)') /\ ~Walking'
    BY <1>3 DEF Loading, Reading, Walking
  <2> QED
    BY <1>1, <1>2, <2>1, <2>2, QuietHeld
<1>4. CASE /\ Len(calls) = 2 /\ calls' = <<calls[1]>> /\ calls' # <<>> /\ Len(calls') = 1
           /\ calls'[1] = calls[1] /\ Depth' = 1 /\ Call' = calls[1]
  <2>1. /\ calls[1].at \in {"hits", "pkglist"} /\ Sorting(calls[1].request)
        /\ calls[1].back # "catdir"
        /\ calls[1].request.inner # None => Sorting(calls[1].request)
    BY <1>4 DEF HeldInv, Nested, CatLabels
  <2>2. Nested'
    BY <1>4, <2>1 DEF Nested
  <2>3. ~Loading' /\ (\A c \in Ids : ~Reading(c)') /\ ~Walking'
    BY <1>4, <2>1 DEF Loading, Reading, Walking
  <2> QED
    BY <1>1, <1>2, <2>2, <2>3, QuietHeld
<1> QED
  BY <1>1, <1>3, <1>4 DEF Popped

LEMMA BeginHeld ==
  ASSUME SortedOnly, FlagsInv, HeldInv, NEW r, Begin(r)
  PROVE  HeldInv'
<1> DEFINE c == Entered(r)
<1>1. Quiet /\ Opens(c)
  BY BeginStep
<1> HIDE DEF c
<1>2. c.request.inner # None => Sorting(c.request)
  BY <1>1 DEF Opens, SortedOnly
<1>3. /\ calls = <<>> /\ calls' # <<>> /\ Len(calls') = 1 /\ calls'[1] = c /\ Call' = c
      /\ c.at = "tree" /\ c.back = "done"
  BY <1>1 DEF Opens
<1>4. Nested'
  BY <1>2, <1>3 DEF Nested, CatLabels
<1>5. ~Loading /\ (\A d \in Ids : ~Reading(d))
  BY <1>3 DEF Loading, Reading
<1>6. ~Loading' /\ (\A d \in Ids : ~Reading(d)') /\ ~Walking'
  BY <1>3 DEF Loading, Reading, Walking, CatLabels
<1> QED
  BY <1>1, <1>4, <1>5, <1>6, QuietHeld

-----------------------------------------------------------------------------
(* Reading the tree.                                                       *)

\* A request keeps its place: how it is nested stays true.
LEMMA NestedTop ==
  ASSUME FlagsInv, HeldInv, calls # <<>>, NEW c, Proceeds(c),
         \/ c.at \notin CatLabels
         \/ c.back # "catdir"
         \/ ~Sorting(Call.request)
         \/ c.back = Call.back /\ Call.at \in CatLabels
  PROVE  Nested'
<1>1. OnTop(c) /\ c.request = Call.request
  BY DEF Proceeds
<1>2. Sorting(Call.request) /\ Call.at \in CatLabels => Call.back # "catdir"
  BY CallFacts DEF FlagsInv, HeldInv, Nested, Call
<1>3. Sorting(c.request) /\ c.at \in CatLabels => c.back # "catdir"
  BY <1>1, <1>2
<1> QED
  BY <1>1, <1>3, NestedKept DEF FlagsInv, HeldInv

LEMMA OpenTreeHeld ==
  ASSUME FlagsInv, HeldInv, calls # <<>>, NEW c, OpenTreeFacts(c)
  PROVE  HeldInv'
<1>1. /\ Quiet /\ OnTop(c) /\ Proceeds(c) /\ Call.at = "tree" /\ c.at = "catdir" /\ ~FromFile
      /\ c.names = Categories /\ c.known = (cats.elems # <<>>)
  BY DEF OpenTreeFacts, Proceeds
<1>2. Nested'
  BY <1>1, NestedTop DEF CatLabels
<1>3. ~Loading' /\ (\A d \in Ids : ~Reading(d)') /\ ~Loading /\ (\A d \in Ids : ~Reading(d))
  BY <1>1, TopLabels, HereLabels
<1>4. ~c.known => NamesIn = {}
  <2>1. SUFFICES ASSUME cats.elems = <<>> PROVE Ids = {}
    BY <1>1 DEF NamesIn
  <2>2. ToSet(cats.elems) = {}
    BY <2>1 DEF ToSet
  <2> QED
    BY <2>2 DEF FlagsInv, CacheTyped
<1>5. Walking' => /\ ~FromFile /\ Categories \ Call'.names \subseteq NamesIn
                  /\ ~Call'.known => Call'.names \cap NamesIn = {}
  BY <1>1, <1>4, TopLabels
<1> QED
  BY <1>1, <1>2, <1>3, <1>5, QuietHeld

\* A category is added, with nothing in it.
LEMMA GrownHeld ==
  ASSUME FlagsInv, HeldInv, ~FromFile, NEW name, name \in Categories, name \notin NamesIn,
         Stays, CtxGrown(NewCat(name)), Nested',
         ~Loading, \A d \in Ids : ~Reading(d), ~Loading', \A d \in Ids' : ~Reading(d)',
         Walking' => /\ Categories \ Call'.names \subseteq NamesIn \cup {name}
                     /\ ~Call'.known => Call'.names \cap (NamesIn \cup {name}) = {}
  PROVE  HeldInv'
<1>0. PICK n : n = Len(ctx) + 1
  OBVIOUS
<1>1. /\ Ids' = Ids \cup {n} /\ n \notin Ids /\ (\A c \in Ids : ctx'[c] = ctx[c])
      /\ ctx'[n] = NewCat(name)
  BY <1>0, StaysMoves, NewCatTyped, GrownTyped DEF FlagsInv
<1>2. kind' = kind /\ complete' = complete /\ ~FromFile'
  BY DEF Stays, FromFile
<1>3. NamesIn' = NamesIn \cup {name}
  <2>1. ctx'[n].name = name
    BY <1>1 DEF NewCat
  <2>2. \A x : x \in NamesIn' <=> x \in NamesIn \/ x = name
    BY <1>1, <2>1 DEF NamesIn
  <2> QED
    BY <2>2
<1>4. \A c, d \in Ids' : ctx'[c].name = ctx'[d].name => c = d
  <2>1. ctx'[n].name = name /\ \A c \in Ids : ctx'[c].name # name /\ ctx'[c].name = ctx[c].name
    BY <1>1 DEF NewCat, NamesIn
  <2>2. \A c, d \in Ids : ctx[c].name = ctx[d].name => c = d
    BY DEF HeldInv, CatsInv
  <2> QED
    BY <1>1, <2>1, <2>2
<1>5. complete' /\ ~FromFile' => NamesIn' = Categories
  BY <1>2, <1>3 DEF HeldInv, CatsInv
<1>6. CatsInv'
  BY <1>2, <1>3, <1>4, <1>5 DEF CatsInv
<1>7. FileInv' /\ LoadInv' /\ ReadInv'
  BY <1>2 DEF FileInv, LoadInv, ReadInv
<1>8. ASSUME NEW c \in Ids PROVE PkgsOf(c)'
  <2>1. SamePkgs(c)
    BY <1>1 DEF SamePkgs
  <2>2. PkgsOf(c)
    BY PkgsInvIs DEF HeldInv
  <2> QED
    BY <1>2, <2>1, <2>2, SamePkgsOf
<1>9. PkgsOf(n)'
  <2>1. ctx'[n].pkgs.elems = <<>> /\ ctx'[n].complete = FALSE
    BY <1>1 DEF NewCat, NewArray
  <2>2. ToSet(ctx'[n].pkgs.elems) = {} /\ Once(ctx'[n].pkgs.elems)
    BY <2>1 DEF ToSet, Once
  <2>3. Held(n)' = {}
    BY <2>2 DEF Held
  <2> QED
    BY <2>1, <2>2, <2>3 DEF PkgsOf
<1>10. PkgsInv'
  BY <1>1, <1>8, <1>9 DEF PkgsInv, PkgsOf
<1> QED
  BY <1>6, <1>7, <1>10 DEF HeldInv

LEMMA ProbeHeld ==
  ASSUME FlagsInv, HeldInv, calls # <<>>, NEW c, ProbeStep(c)
  PROVE  HeldInv'
<1>1. /\ Stays /\ CtxGrown(NewCat(Query.cat)) /\ Query.cat \in Categories /\ Query.cat \notin NamesIn
      /\ Proceeds(c) /\ OnTop(c) /\ ~FromFile /\ Settled(Call) /\ Settled(c) /\ ~Strolls(c)
  BY DEF ProbeStep, NewFacts, Proceeds
<1>2. Nested'
  BY <1>1, NestedTop DEF Strolls
<1>3. ~Loading' /\ (\A d : ~Reading(d)') /\ ~Walking' /\ ~Loading /\ (\A d : ~Reading(d))
  BY <1>1, TopLabels, HereLabels DEF Settled
<1> QED
  BY <1>1, <1>2, <1>3, GrownHeld

LEMMA ReadCategoryHeld ==
  ASSUME FlagsInv, HeldInv, calls # <<>>, NEW name, NEW c, ReadCategoryFacts(name, c)
  PROVE  HeldInv'
<1>1. /\ Call.at = "catdir" /\ name \in Call.names /\ Proceeds(c) /\ OnTop(c)
      /\ c.names = Call.names \ {name} /\ c.known = Call.known
      /\ c.at \in {"catdir", "cat"} /\ Strolls(c)
      /\ c.at \notin CatLabels \/ ~Sorting(Call.request)
  BY DEF ReadCategoryFacts, Proceeds, Strolls, CatLabels
<1>2. Nested'
  BY <1>1, NestedTop
<1>3. ~Loading' /\ (\A d : ~Reading(d)') /\ ~Loading /\ (\A d : ~Reading(d))
  BY <1>1, TopLabels, HereLabels
<1>4. /\ ~FromFile /\ Categories \ Call.names \subseteq NamesIn
      /\ ~Call.known => Call.names \cap NamesIn = {}
  BY <1>1, HereLabels DEF HeldInv, CatsInv, Strolls
<1>5. Call' = c
  BY <1>1, TopLabels
<1>6. CASE Quiet /\ name \in NamesIn
  <2>1. Walking' => /\ ~FromFile /\ Categories \ Call'.names \subseteq NamesIn
                    /\ ~Call'.known => Call'.names \cap NamesIn = {}
    BY <1>1, <1>4, <1>5, <1>6
  <2> QED
    BY <1>2, <1>3, <1>6, <2>1, QuietHeld
<1>7. CASE NewFacts(c, name) /\ (Call.known => name \notin NamesIn)
  <2>1. name \notin NamesIn
    BY <1>1, <1>4, <1>7
  <2>2. Walking' => /\ Categories \ Call'.names \subseteq NamesIn \cup {name}
                    /\ ~Call'.known => Call'.names \cap (NamesIn \cup {name}) = {}
    BY <1>1, <1>4, <1>5
  <2> QED
    BY <1>2, <1>3, <1>4, <1>7, <2>1, <2>2, GrownHeld DEF NewFacts
<1> QED
  BY <1>6, <1>7 DEF ReadCategoryFacts

LEMMA CloseTreeHeld ==
  ASSUME FlagsInv, HeldInv, calls # <<>>, NEW c, CloseTreeFacts(c)
  PROVE  HeldInv'
<1>1. /\ kind' = kind /\ ctx' = ctx /\ complete' = TRUE /\ Call.at = "catdir" /\ Call.names = {}
      /\ Proceeds(c) /\ OnTop(c) /\ c.at \in {"tree", "done"}
  BY DEF CloseTreeFacts, Proceeds, FlagsMoved
<1>2. Nested'
  BY <1>1, NestedTop DEF CatLabels
<1>3. ~Loading' /\ (\A d : ~Reading(d)') /\ ~Loading /\ (\A d : ~Reading(d)) /\ ~Walking'
  BY <1>1, TopLabels, HereLabels DEF Strolls, CatLabels
<1>4. ~FromFile /\ Categories \subseteq NamesIn
  BY <1>1, HereLabels DEF HeldInv, CatsInv, Strolls
<1>5. NamesIn \subseteq Categories
  BY CtxFacts DEF NamesIn, FlagsInv
<1>6. Ids' = Ids /\ NamesIn' = NamesIn /\ ~FromFile' /\ \A d \in Ids : SamePkgs(d)
  BY <1>1, <1>4 DEF Ids, NamesIn, FromFile, SamePkgs
<1>7. CatsInv'
  BY <1>1, <1>3, <1>4, <1>5, <1>6 DEF CatsInv, HeldInv
<1>8. FileInv' /\ LoadInv' /\ ReadInv'
  BY <1>3, <1>6 DEF FileInv, LoadInv, ReadInv
<1>9. PkgsInv'
  <2>1. \A d \in Ids : PkgsOf(d)
    BY PkgsInvIs DEF HeldInv
  <2>2. \A d \in Ids : PkgsOf(d)'
    BY <1>1, <1>3, <1>6, <2>1, SamePkgsOf
  <2> QED
    BY <1>6, <2>2 DEF PkgsInv, PkgsOf
<1> QED
  BY <1>2, <1>7, <1>8, <1>9 DEF HeldInv

-----------------------------------------------------------------------------
(* Reading a file.                                                         *)

LEMMA OpenFileHeld ==
  ASSUME FlagsInv, HeldInv, calls # <<>>, NEW c, OpenFileFacts(c)
  PROVE  HeldInv'
<1>1. /\ Quiet /\ Proceeds(c) /\ OnTop(c) /\ Call.at = "tree" /\ c.at = "blocks"
      /\ c.files = Disk /\ c.cat = 0 /\ FromFile /\ ~complete
  BY DEF OpenFileFacts, Proceeds
<1>2. Nested'
  BY <1>1, NestedTop DEF CatLabels
<1>3. Loading' /\ (\A d : ~Reading(d)') /\ ~Loading /\ ~Walking' /\ Call' = c
  BY <1>1, TopLabels, HereLabels DEF Strolls, CatLabels
<1>4. Ids = {}
  BY <1>1, <1>3 DEF HeldInv, FileInv
<1>5. Ids' = {} /\ FromFile' /\ ~complete'
  BY <1>1, <1>4, QuietSamePkgs DEF Quiet, Stays, FromFile
<1>6. CatsInv' /\ FileInv' /\ PkgsInv' /\ ReadInv'
  BY <1>3, <1>5 DEF CatsInv, FileInv, PkgsInv, ReadInv
<1>7. LoadInv'
  BY <1>1, <1>3, <1>5 DEF LoadInv
<1> QED
  BY <1>2, <1>6, <1>7 DEF HeldInv

LEMMA CloseFileHeld ==
  ASSUME FlagsInv, HeldInv, calls # <<>>, NEW c, CloseFileFacts(c)
  PROVE  HeldInv'
<1>1. /\ Call.at = "blocks" /\ Call.files = {} /\ kind' = kind /\ complete' = TRUE
      /\ CompleteAll(TRUE) /\ Proceeds(c) /\ OnTop(c) /\ c.at = "tree"
  BY DEF CloseFileFacts, Proceeds, FlagsMoved
<1>2. Nested'
  BY <1>1, NestedTop DEF CatLabels
<1>3. ~Loading' /\ (\A d : ~Reading(d)') /\ Loading /\ ~Walking'
  BY <1>1, TopLabels, HereLabels DEF Strolls, CatLabels
<1>4. FromFile /\ \A d \in Ids : Held(d) = InDir(ctx[d])
  BY <1>1, <1>3 DEF HeldInv, LoadInv
<1>5. /\ Ids' = Ids
      /\ \A d \in Ids : ctx'[d].pkgs = ctx[d].pkgs /\ ctx'[d].complete = TRUE /\ ctx'[d].name = ctx[d].name
  <2>1. CtxMoved /\ \A d \in Ids : ctx'[d].pkgs = ctx[d].pkgs /\ ctx'[d].complete = TRUE /\ ctx'[d].name = ctx[d].name
    BY <1>1, EveryComplete DEF FlagsInv
  <2>2. Len(ctx') = Len(ctx)
    BY <2>1 DEF CtxMoved
  <2> QED
    BY <2>1, <2>2 DEF Ids
<1>6. FromFile'
  BY <1>1, <1>4 DEF FromFile
<1>7. CatsInv'
  BY <1>3, <1>5, <1>6 DEF CatsInv, HeldInv
<1>8. FileInv' /\ LoadInv' /\ ReadInv'
  BY <1>1, <1>3, <1>5, <1>6 DEF FileInv, LoadInv, ReadInv
<1>9. ASSUME NEW d \in Ids PROVE PkgsOf(d)'
  <2>1. Held(d)' = Held(d) /\ InDir(ctx'[d]) = InDir(ctx[d])
    BY <1>5, SameHeld
  <2>2. Once(ctx[d].pkgs.elems) /\ ToSet(ctx[d].pkgs.elems) \subseteq Plain(InDir(ctx[d]))
    BY PkgsInvIs DEF HeldInv, PkgsOf
  <2> QED
    BY <1>4, <1>5, <2>1, <2>2 DEF PkgsOf
<1>10. PkgsInv'
  BY <1>5, <1>9 DEF PkgsInv, PkgsOf
<1> QED
  BY <1>2, <1>7, <1>8, <1>10 DEF HeldInv

-----------------------------------------------------------------------------
(* A package is appended.                                                  *)

LEMMA AppendedElems ==
  ASSUME NEW arr, arr.elems \in Seq(Plains), NEW x \in Plains
  PROVE  LET t == Appended(arr, x).elems
         IN  /\ t \in Seq(Plains) /\ ToSet(t) = ToSet(arr.elems) \cup {x}
             /\ Once(arr.elems) /\ x \notin ToSet(arr.elems) => Once(t)
<1> DEFINE s == arr.elems
           t == Append(s, x)
<1>1. Appended(arr, x).elems = t
  BY DEF Appended
<1>2. /\ t \in Seq(Plains) /\ Len(t) = Len(s) + 1 /\ Len(s) \in Nat
      /\ DOMAIN t = 1..(Len(s) + 1) /\ DOMAIN s = 1..Len(s)
      /\ (\A i \in 1..Len(s) : t[i] = s[i]) /\ t[Len(s) + 1] = x
  <2>1. s \in Seq(Plains)
    OBVIOUS
  <2> HIDE DEF s
  <2> QED
    BY <2>1
<1> HIDE DEF s, t
<1>3. ToSet(t) = {t[i] : i \in 1..(Len(s) + 1)} /\ ToSet(s) = {s[i] : i \in 1..Len(s)}
  BY <1>2 DEF ToSet
<1>4. \A y : y \in ToSet(t) <=> y \in ToSet(s) \/ y = x
  BY <1>2, <1>3
<1>5. ASSUME Once(s), x \notin ToSet(s) PROVE Once(t)
  BY <1>2, <1>3, <1>5 DEF Once
<1> QED
  BY <1>1, <1>2, <1>4, <1>5 DEF s

\* Package p is added to category c.
AddsTo(c, p) ==
  /\ ctx'[c].name = ctx[c].name /\ p.cat = ctx[c].name /\ ctx'[c].complete = ctx[c].complete
  /\ ToSet(ctx'[c].pkgs.elems) = ToSet(ctx[c].pkgs.elems) \cup {PlainOf(p)}
  /\ Once(ctx[c].pkgs.elems) /\ PlainOf(p) \notin ToSet(ctx[c].pkgs.elems) => Once(ctx'[c].pkgs.elems)

LEMMA AddedHeld ==
  ASSUME NEW c, NEW p \in Disk, AddsTo(c, p), p \notin Held(c)
  PROVE  /\ p \in InDir(ctx[c]) /\ PlainOf(p) \notin ToSet(ctx[c].pkgs.elems)
         /\ Held(c)' = Held(c) \cup {p} /\ InDir(ctx'[c]) = InDir(ctx[c])
         /\ Once(ctx[c].pkgs.elems) => Once(ctx'[c].pkgs.elems)
         /\ ToSet(ctx[c].pkgs.elems) \subseteq Plain(InDir(ctx[c]))
              => ToSet(ctx'[c].pkgs.elems) \subseteq Plain(InDir(ctx'[c]))
<1>1. InDir(ctx'[c]) = InDir(ctx[c]) /\ p \in InDir(ctx[c])
  BY DEF InDir, AddsTo
<1>2. PlainOf(p) \notin ToSet(ctx[c].pkgs.elems)
  BY <1>1, HeldMember
<1>3. ASSUME NEW q PROVE q \in Held(c)' <=> q \in Held(c) \/ q = p
  <2>1. q \in Held(c)' <=> q \in InDir(ctx[c]) /\ (PlainOf(q) \in ToSet(ctx[c].pkgs.elems) \/ PlainOf(q) = PlainOf(p))
    BY <1>1, HeldMemberNext DEF AddsTo
  <2>2. q \in InDir(ctx[c]) /\ PlainOf(q) = PlainOf(p) => q = p
    BY <1>1, PlainOfOne DEF InDir
  <2> QED
    BY <1>1, <2>1, <2>2, HeldMember
<1>4. PlainOf(p) \in Plain(InDir(ctx[c]))
  BY <1>1 DEF Plain, PlainOf
<1> QED
  BY <1>1, <1>2, <1>3, <1>4 DEF AddsTo

LEMMA PutAdds ==
  ASSUME FlagsInv, NEW c \in Ids, NEW p \in Disk, p.cat = ctx[c].name,
         PkgsPut(c, Appended(ctx[c].pkgs, PlainOf(p)))
  PROVE  /\ AddsTo(c, p) /\ Ids' = Ids /\ \A d \in Ids : d # c => ctx'[d] = ctx[d]
         /\ \A d \in Ids : ctx'[d].name = ctx[d].name
<1>1. PlainOf(p) \in Plains /\ CacheTyped
  BY PlainOfIs DEF FlagsInv
<1>2. /\ CtxMoved /\ \A d \in Ids : d # c => ctx'[d] = ctx[d]
      /\ ctx'[c].pkgs = Appended(ctx[c].pkgs, PlainOf(p)) /\ ctx'[c].complete = ctx[c].complete
      /\ ctx'[c].name = ctx[c].name
  BY <1>1, OnePkgs
<1>3. ctx[c].pkgs.elems \in Seq(Plains)
  BY <1>1, CtxFacts
<1>4. Ids' = Ids
  BY <1>2 DEF CtxMoved, Ids
<1> QED
  BY <1>1, <1>2, <1>3, <1>4, AppendedElems DEF AddsTo

\* A block of a category that is known.
LEMMA BlockKnownHeld ==
  ASSUME FlagsInv, HeldInv, calls # <<>>, NEW p, NEW c, ReadBlockFacts(p, c),
         NEW id, id = c.cat, id \in Ids, ctx[id].name = p.cat,
         PkgsPut(id, Appended(ctx[id].pkgs, PlainOf(p)))
  PROVE  HeldInv'
<1>1. /\ Call.at = "blocks" /\ p \in Call.files /\ p \in Disk /\ kind' = kind /\ complete' = complete
      /\ kind = "gtree" => ~\E q \in Call.files : Earlier(q, p)
      /\ Proceeds(c) /\ OnTop(c) /\ c.at = "blocks" /\ c.files = Call.files \ {p}
  BY DEF ReadBlockFacts, Proceeds, Stays
<1>2. Nested'
  BY <1>1, NestedTop DEF CatLabels
<1>3. Loading' /\ (\A d : ~Reading(d)') /\ Loading /\ ~Walking' /\ Call' = c
  BY <1>1, TopLabels, HereLabels DEF Strolls, CatLabels
<1>4. /\ FromFile /\ ~complete
      /\ \A d \in Ids : ~ctx[d].complete /\ Held(d) = InDir(ctx[d]) \ Call.files
      /\ \A q \in Disk \ Call.files : q.cat \in NamesIn
      /\ Call.cat = 0 => Ids = {}
      /\ kind = "gtree" /\ Call.cat # 0 =>
           /\ \A d \in Ids : ctx[d].name <= ctx[Call.cat].name
           /\ \A q \in Call.files : ctx[Call.cat].name <= q.cat
  BY <1>3 DEF HeldInv, LoadInv
<1>5. /\ AddsTo(id, p) /\ Ids' = Ids /\ \A d \in Ids : d # id => ctx'[d] = ctx[d]
      /\ \A d \in Ids : ctx'[d].name = ctx[d].name
  BY <1>1, PutAdds
<1>6. NamesIn' = NamesIn /\ FromFile' /\ ~complete'
  BY <1>1, <1>4, <1>5, SameNames DEF FromFile
<1>7. /\ p \notin Held(id) /\ Held(id)' = Held(id) \cup {p} /\ InDir(ctx'[id]) = InDir(ctx[id])
      /\ p \in InDir(ctx[id])
      /\ Once(ctx[id].pkgs.elems) => Once(ctx'[id].pkgs.elems)
      /\ ToSet(ctx[id].pkgs.elems) \subseteq Plain(InDir(ctx[id]))
           => ToSet(ctx'[id].pkgs.elems) \subseteq Plain(InDir(ctx'[id]))
  <2>1. p \notin Held(id)
    BY <1>1, <1>4
  <2> QED
    BY <1>1, <1>5, <2>1, AddedHeld
<1>8. ASSUME NEW d \in Ids, d # id
      PROVE  Held(d)' = Held(d) /\ InDir(ctx'[d]) = InDir(ctx[d]) /\ p \notin InDir(ctx[d])
  <2>1. ctx'[d] = ctx[d]
    BY <1>5, <1>8
  <2>2. ctx[d].name # p.cat
    BY <1>8 DEF HeldInv, CatsInv
  <2> QED
    BY <2>1, <2>2, SameHeld, InDirMember
<1>9. ASSUME NEW d \in Ids
      PROVE  ~ctx'[d].complete /\ Held(d)' = InDir(ctx'[d]) \ c.files
  <2>1. CASE d = id
    BY <1>1, <1>4, <1>5, <1>7, <2>1 DEF AddsTo
  <2>2. CASE d # id
    BY <1>1, <1>4, <1>5, <1>8, <2>2
  <2> QED
    BY <2>1, <2>2
<1>10. \A q \in Disk \ c.files : q.cat \in NamesIn'
  BY <1>1, <1>4, <1>6 DEF NamesIn
<1>11. ASSUME kind = "gtree"
       PROVE  /\ \A d \in Ids : ctx'[d].name <= ctx'[id].name
              /\ \A q \in c.files : ctx'[id].name <= q.cat
  <2>1. Call.cat # 0 /\ Call.cat \in Ids
    <3>1. Call.cat \in 0..Len(ctx) /\ Len(ctx) \in Nat
      BY <1>1, CallFacts, CtxFacts DEF FlagsInv, CallTyped
    <3> QED
      BY <1>4, <3>1 DEF Ids
  <2>2. \A d \in Ids : ctx[d].name \in Nat /\ ctx[d].name <= p.cat
    <3>1. \A d \in Ids : ctx[d].name \in Nat
      BY CtxFacts DEF FlagsInv
    <3>2. ctx[Call.cat].name <= p.cat /\ \A d \in Ids : ctx[d].name <= ctx[Call.cat].name
      BY <1>1, <1>4, <1>11, <2>1
    <3>3. p.cat \in Nat
      BY <1>1, PlainOfIs, CacheAssumption
    <3> QED
      BY <2>1, <3>1, <3>2, <3>3
  <2>3. \A q \in Call.files : q \in Disk /\ q.cat \in Nat /\ ~(q.cat < p.cat)
    <3>1. Call.files \subseteq Disk
      BY CallFacts DEF FlagsInv, CallTyped
    <3>2. \A q \in Disk : q.cat \in Nat
      BY PlainOfIs, CacheAssumption
    <3> QED
      BY <1>1, <1>11, <3>1, <3>2 DEF Earlier
  <2>4. p.cat \in Nat /\ ctx'[id].name = p.cat
    BY <1>1, <1>5, <2>3
  <2> QED
    BY <1>1, <1>5, <2>2, <2>3, <2>4
<1>12. LoadInv'
  <2>1. id # 0
    BY DEF Ids
  <2> QED
    BY <1>1, <1>3, <1>5, <1>6, <1>9, <1>10, <1>11, <2>1 DEF LoadInv
<1>13. CatsInv'
  BY <1>3, <1>5, <1>6 DEF CatsInv, HeldInv
<1>14. FileInv' /\ ReadInv'
  BY <1>3, <1>6 DEF FileInv, ReadInv
<1>15. ASSUME NEW d \in Ids PROVE PkgsOf(d)'
  <2>1. Once(ctx[d].pkgs.elems) /\ ToSet(ctx[d].pkgs.elems) \subseteq Plain(InDir(ctx[d]))
    BY PkgsInvIs DEF HeldInv, PkgsOf
  <2>2. Once(ctx'[d].pkgs.elems) /\ ToSet(ctx'[d].pkgs.elems) \subseteq Plain(InDir(ctx'[d]))
    BY <1>5, <1>7, <1>8, <2>1
  <2> QED
    BY <1>3, <1>9, <2>2 DEF PkgsOf
<1>16. PkgsInv'
  BY <1>5, <1>15 DEF PkgsInv, PkgsOf
<1> QED
  BY <1>2, <1>12, <1>13, <1>14, <1>16 DEF HeldInv

LEMMA BlockNewHeld ==
  ASSUME FlagsInv, HeldInv, calls # <<>>, NEW p, NEW c, ReadBlockFacts(p, c),
         NEW id, id = c.cat, id = Len(ctx) + 1, CtxGrown(FirstBlock(p)),
         kind = "packages" => p.cat \notin NamesIn,
         kind = "gtree" => Call.cat = 0 \/ ctx[Call.cat].name # p.cat
  PROVE  HeldInv'
<1>1. /\ Call.at = "blocks" /\ p \in Call.files /\ p \in Disk /\ kind' = kind /\ complete' = complete
      /\ kind = "gtree" => ~\E q \in Call.files : Earlier(q, p)
      /\ Proceeds(c) /\ OnTop(c) /\ c.at = "blocks" /\ c.files = Call.files \ {p} /\ Stays
  BY DEF ReadBlockFacts, Proceeds, Stays
<1>2. Nested'
  BY <1>1, NestedTop DEF CatLabels
<1>3. Loading' /\ (\A d : ~Reading(d)') /\ Loading /\ ~Walking' /\ Call' = c
  BY <1>1, TopLabels, HereLabels DEF Strolls, CatLabels
<1>4. /\ FromFile /\ ~complete
      /\ \A d \in Ids : ~ctx[d].complete /\ Held(d) = InDir(ctx[d]) \ Call.files
      /\ \A q \in Disk \ Call.files : q.cat \in NamesIn
      /\ Call.cat = 0 => Ids = {}
      /\ kind = "gtree" /\ Call.cat # 0 =>
           /\ \A d \in Ids : ctx[d].name <= ctx[Call.cat].name
           /\ \A q \in Call.files : ctx[Call.cat].name <= q.cat
  BY <1>3 DEF HeldInv, LoadInv
<1>5. /\ Ids' = Ids \cup {id} /\ id \notin Ids /\ \A d \in Ids : ctx'[d] = ctx[d]
      /\ ctx'[id] = FirstBlock(p) /\ id # 0
  <2>1. FlagsMoved /\ FirstBlock(p) \in CatRecord /\ PkgsFlag(FirstBlock(p).pkgs)
    BY <1>1, StaysMoves, FirstBlockTyped
  <2> QED
    BY <2>1, GrownTyped DEF FlagsInv
<1>6. /\ ctx'[id].name = p.cat /\ ctx'[id].complete = FALSE
      /\ ToSet(ctx'[id].pkgs.elems) = {PlainOf(p)} /\ Once(ctx'[id].pkgs.elems)
  <2>1. NewArray.elems \in Seq(Plains) /\ ToSet(NewArray.elems) = {} /\ Once(NewArray.elems)
    BY DEF NewArray, ToSet, Once
  <2>2. ctx'[id].pkgs = Appended(NewArray, PlainOf(p)) /\ PlainOf(p) \in Plains
    BY <1>1, <1>5, PlainOfIs DEF FirstBlock
  <2> DEFINE t == Appended(NewArray, PlainOf(p)).elems
  <2>4. ToSet(t) = ToSet(NewArray.elems) \cup {PlainOf(p)}
        /\ (Once(NewArray.elems) /\ PlainOf(p) \notin ToSet(NewArray.elems) => Once(t))
    BY <2>1, <2>2, AppendedElems
  <2>3. ToSet(t) = {PlainOf(p)} /\ Once(t)
    BY <2>1, <2>4
  <2> QED
    BY <1>5, <2>2, <2>3 DEF FirstBlock
<1>7. \A d \in Ids : ctx[d].name \in Nat
  BY CtxFacts DEF FlagsInv
<1>8. p.cat \in Nat /\ \A q \in Call.files : q \in Disk /\ q.cat \in Nat
  <2>1. Call.files \subseteq Disk
    BY CallFacts DEF FlagsInv, CallTyped
  <2> QED
    BY <1>1, <2>1, PlainOfIs, CacheAssumption
<1>9. kind = "gtree" => \A d \in Ids : ctx[d].name < p.cat
  <2> SUFFICES ASSUME kind = "gtree", NEW d \in Ids PROVE ctx[d].name < p.cat
    OBVIOUS
  <2>1. Call.cat # 0 /\ Call.cat \in Ids
    <3>1. Call.cat \in 0..Len(ctx) /\ Len(ctx) \in Nat
      BY <1>1, CallFacts, CtxFacts DEF FlagsInv, CallTyped
    <3> QED
      BY <1>4, <3>1 DEF Ids
  <2>2. ctx[d].name <= ctx[Call.cat].name /\ ctx[Call.cat].name <= p.cat /\ ctx[Call.cat].name # p.cat
    BY <1>1, <1>4, <2>1
  <2> QED
    BY <1>7, <1>8, <2>1, <2>2
<1>10. \A d \in Ids : ctx[d].name # p.cat
  BY <1>4, <1>7, <1>8, <1>9 DEF FromFile, NamesIn
<1>11. FromFile' /\ ~complete'
  BY <1>1, <1>4 DEF FromFile
<1>12. ASSUME NEW d \in Ids
       PROVE  Held(d)' = Held(d) /\ InDir(ctx'[d]) = InDir(ctx[d]) /\ p \notin InDir(ctx[d])
  <2>1. ctx'[d] = ctx[d]
    BY <1>5
  <2> QED
    BY <1>10, <2>1, SameHeld, InDirMember
<1>13. Held(id)' = {p} /\ p \in InDir(ctx'[id]) /\ InDir(ctx'[id]) \cap c.files = InDir(ctx'[id]) \ {p}
  <2>1. p \in InDir(ctx'[id])
    BY <1>1, <1>6, InDirMember
  <2>2. ASSUME NEW q PROVE q \in Held(id)' <=> q = p
    BY <1>1, <1>6, <2>1, HeldMemberNext, InDirMember, PlainOfOne
  <2>3. ASSUME NEW q \in InDir(ctx'[id]) PROVE q \in Call.files
    <3>1. q \in Disk /\ q.cat = p.cat
      BY <1>6, InDirMember
    <3> QED
      BY <1>4, <1>10, <3>1 DEF NamesIn
  <2> QED
    BY <1>1, <2>1, <2>2, <2>3
<1>14. ASSUME NEW d \in Ids'
       PROVE  ~ctx'[d].complete /\ Held(d)' = InDir(ctx'[d]) \ c.files
  <2>1. CASE d = id
    BY <1>6, <1>13, <2>1
  <2>2. CASE d # id
    BY <1>1, <1>4, <1>5, <1>12, <2>2
  <2> QED
    BY <2>1, <2>2
<1>15. \A q \in Disk \ c.files : q.cat \in NamesIn'
  BY <1>1, <1>4, <1>5, <1>6 DEF NamesIn
<1>16. ASSUME kind = "gtree"
       PROVE  /\ \A d \in Ids' : ctx'[d].name <= ctx'[id].name
              /\ \A q \in c.files : ctx'[id].name <= q.cat
  <2>1. \A q \in Call.files : ~(q.cat < p.cat)
    BY <1>1, <1>16 DEF Earlier
  <2> QED
    BY <1>1, <1>5, <1>6, <1>7, <1>8, <1>9, <1>16, <2>1
<1>17. LoadInv'
  BY <1>1, <1>3, <1>5, <1>11, <1>14, <1>15, <1>16 DEF LoadInv
<1>18. CatsInv'
  <2>1. \A d, e \in Ids' : ctx'[d].name = ctx'[e].name => d = e
    BY <1>5, <1>6, <1>10 DEF HeldInv, CatsInv
  <2> QED
    BY <1>3, <1>11, <2>1 DEF CatsInv
<1>19. FileInv' /\ ReadInv'
  BY <1>3, <1>11 DEF FileInv, ReadInv
<1>20. ASSUME NEW d \in Ids' PROVE PkgsOf(d)'
  <2>1. Once(ctx'[d].pkgs.elems) /\ ToSet(ctx'[d].pkgs.elems) \subseteq Plain(InDir(ctx'[d]))
    <3>1. CASE d = id
      BY <1>6, <1>13, <3>1 DEF Plain, PlainOf
    <3>2. CASE d # id
      <4>1. Once(ctx[d].pkgs.elems) /\ ToSet(ctx[d].pkgs.elems) \subseteq Plain(InDir(ctx[d]))
        BY <1>5, <3>2, PkgsInvIs DEF HeldInv, PkgsOf
      <4> QED
        BY <1>5, <1>12, <3>2, <4>1
    <3> QED
      BY <3>1, <3>2
  <2> QED
    BY <1>3, <1>14, <2>1 DEF PkgsOf
<1>21. PkgsInv'
  BY <1>20 DEF PkgsInv, PkgsOf
<1> QED
  BY <1>2, <1>17, <1>18, <1>19, <1>21 DEF HeldInv

LEMMA ReadBlockHeld ==
  ASSUME FlagsInv, HeldInv, calls # <<>>, NEW p, NEW c, ReadBlockFacts(p, c)
  PROVE  HeldInv'
<1>0. PICK id : id = c.cat
  OBVIOUS
<1>1. CASE id \in Ids /\ ctx[id].name = p.cat /\ PkgsPut(id, Appended(ctx[id].pkgs, PlainOf(p)))
  BY <1>0, <1>1, BlockKnownHeld
<1>2. CASE /\ id = Len(ctx) + 1 /\ CtxGrown(FirstBlock(p))
           /\ kind = "packages" => p.cat \notin NamesIn
           /\ kind = "gtree" => Call.cat = 0 \/ ctx[Call.cat].name # p.cat
  BY <1>0, <1>2, BlockNewHeld
<1> QED
  BY <1>0, <1>1, <1>2 DEF ReadBlockFacts

-----------------------------------------------------------------------------
(* Reading a category.                                                     *)

\* What the invariant says of the category that is read.
ReadOf(c) ==
  /\ ~FromFile /\ ~ctx[c].complete
  /\ Call.files \subseteq InDir(ctx[c]) /\ Call.files \cap Held(c) = {}
  /\ IF kind = "ebuild" /\ FilterName
     THEN /\ Call.dirs = {}
          /\ \A p \in NamedDir(ctx[c], Query.pn) : p \in Call.files \/ p \in Held(c)
          /\ \A p \in Call.files : p.pn = Query.pn
          /\ \A p \in Held(c) : p.pn # Query.pn => Whole(c, p)
     ELSE /\ \A p \in InDir(ctx[c]) : p \in Held(c) \/ p \in Call.files \/ p.pn \in Call.dirs
          /\ \A p \in Call.files : p.pn \notin Call.dirs
          /\ \A p \in Held(c) : p.pn \in Call.dirs => Call.knownPkgs

LEMMA ReadInvIs == ReadInv <=> \A c \in Ids : Reading(c) => ReadOf(c)
BY DEF ReadInv, ReadOf

\* The rest of the invariant while a category is read.
LEMMA ReadingHeld ==
  ASSUME FlagsInv, HeldInv, Nested', Stays, Ids' = Ids, NEW id \in Ids,
         \A d \in Ids : ctx'[d].name = ctx[d].name,
         \A d \in Ids : d # id => SamePkgs(d), ~FromFile,
         ~Loading, ~Loading', \A d \in Ids : d # id => ~Reading(d), \A d \in Ids : d # id => ~Reading(d)',
         Reading(id)' => ReadOf(id)', PkgsOf(id)',
         Walking' => Walking /\ Call'.names = Call.names /\ Call'.known = Call.known
  PROVE  HeldInv'
<1>1. kind' = kind /\ complete' = complete /\ ~FromFile'
  BY DEF Stays, FromFile
<1>2. NamesIn' = NamesIn
  BY SameNames
<1>3. CatsInv'
  <2>1. \A c, d \in Ids' : ctx'[c].name = ctx'[d].name => c = d
    BY DEF HeldInv, CatsInv
  <2> QED
    BY <1>1, <1>2, <2>1 DEF HeldInv, CatsInv
<1>4. FileInv' /\ LoadInv'
  BY <1>1 DEF FileInv, LoadInv
<1>5. ReadInv'
  BY DEF ReadInv, ReadOf
<1>6. ASSUME NEW d \in Ids, d # id PROVE PkgsOf(d)'
  <2>1. PkgsOf(d) /\ SamePkgs(d)
    BY <1>6, PkgsInvIs DEF HeldInv
  <2> QED
    BY <1>1, <1>6, <2>1, SamePkgsOf
<1>7. PkgsInv'
  BY <1>6 DEF PkgsInv, PkgsOf
<1> QED
  BY <1>3, <1>4, <1>5, <1>7 DEF HeldInv

LEMMA HeldIn == ASSUME NEW c PROVE Held(c) \subseteq InDir(ctx[c])
BY DEF Held

LEMMA OpenCategoryHeld ==
  ASSUME FlagsInv, HeldInv, At("cat"), NEW c, OpenCategoryFacts(c)
  PROVE  HeldInv'
<1>0. PICK id : id = Call.cat
  OBVIOUS
<1>1. /\ Call.at = "cat" /\ id \in Ids /\ Quiet /\ Stays /\ Proceeds(c) /\ OnTop(c) /\ c.at = "pkgdir"
      /\ c.cat = id /\ c.back = Call.back /\ c.names = Call.names /\ c.known = Call.known
      /\ c.request = Call.request /\ Hit = 0 /\ ~ctx[id].complete /\ calls # <<>>
  BY <1>0 DEF OpenCategoryFacts, SamePlace, Proceeds, At, Quiet
<1>2. /\ c.knownPkgs = (Cat.pkgs.elems # <<>>)
      /\ c.dirs = IF kind = "ebuild" /\ ~FilterName THEN {p.pn : p \in InDir(Cat)} ELSE {}
      /\ c.files = {p \in InDir(Cat) : kind = "ebuild" => FilterName /\ p.pn = Query.pn}
      /\ Cat = ctx[id]
  BY <1>0 DEF OpenCategoryFacts, Cat
<1>3. Nested'
  BY <1>1, NestedTop DEF CatLabels
<1>4. /\ ~Loading' /\ (\A d : Reading(d)' <=> d = id) /\ ~Loading /\ (\A d : ~Reading(d)) /\ Call' = c
      /\ Walking' => Walking
  BY <1>1, TopLabels, HereLabels DEF Strolls, CatLabels
<1>5. Ids' = Ids /\ \A d \in Ids : SamePkgs(d)
  BY <1>1, QuietSamePkgs
<1>6. ~FromFile
  BY <1>1, <1>4 DEF HeldInv, FileInv
<1>7. PkgsOf(id)
  BY <1>1, PkgsInvIs DEF HeldInv
<1>8. /\ \A p \in Held(id) : Whole(id, p)
      /\ kind = "vdb" => Held(id) = {}
  BY <1>1, <1>4, <1>7 DEF PkgsOf
<1>9. kind' = kind /\ ~FromFile' /\ ~ctx'[id].complete /\ Held(id)' = Held(id)
      /\ InDir(ctx'[id]) = InDir(ctx[id]) /\ (\A p : Whole(id, p)' = Whole(id, p))
      /\ Query' = Query /\ FilterName' = FilterName
  <2>1. kind' = kind /\ ~FromFile'
    BY <1>1, <1>6 DEF Stays, FromFile
  <2>2. ~ctx'[id].complete /\ Held(id)' = Held(id) /\ InDir(ctx'[id]) = InDir(ctx[id])
        /\ (\A p : Whole(id, p)' = Whole(id, p))
    BY <1>1, <1>5, SameHeld DEF SamePkgs
  <2>3. Query' = Query
    BY <1>1, <1>4 DEF Query
  <2> QED
    BY <2>1, <2>2, <2>3 DEF FilterName
<1>10. kind \in {"ebuild", "vdb"}
  <2>1. kind \in Kinds
    BY DEF FlagsInv, CacheTyped
  <2> QED
    BY <1>6, <2>1, CacheAssumption DEF FromFile
<1>11. FilterName => \A p \in Held(id) : p.pn # Query.pn
  <2> SUFFICES ASSUME FilterName, NEW p \in Held(id) PROVE p.pn # Query.pn
    OBVIOUS
  <2>1. \A q \in ToSet(ctx[id].pkgs.elems) : q.pn # Query.pn
    BY <1>0, <1>1, HitFacts
  <2>2. PlainOf(p) \in ToSet(ctx[id].pkgs.elems) /\ PlainOf(p).pn = p.pn
    BY HeldMember DEF PlainOf
  <2> QED
    BY <2>1, <2>2
<1>12. ReadOf(id)'
  <2>0. NamedDir(ctx[id], Query.pn) = {p \in InDir(ctx[id]) : p.pn = Query.pn}
        /\ NamedDir(ctx[id], Query.pn)' = NamedDir(ctx[id], Query.pn)
    BY <1>9 DEF NamedDir
  <2>1. CASE kind = "vdb"
    <3>1. c.files = InDir(ctx[id]) /\ c.dirs = {} /\ Held(id) = {} /\ kind # "ebuild"
      BY <1>2, <1>8, <2>1
    <3> QED
      BY <1>4, <1>9, <3>1 DEF ReadOf
  <2>2. CASE kind = "ebuild" /\ FilterName
    <3>1. c.files = NamedDir(ctx[id], Query.pn) /\ c.dirs = {}
      BY <1>2, <2>2 DEF NamedDir
    <3> QED
      BY <1>4, <1>8, <1>9, <1>11, <2>0, <2>2, <3>1 DEF ReadOf
  <2>3. CASE kind = "ebuild" /\ ~FilterName
    <3>1. c.files = {} /\ c.dirs = {p.pn : p \in InDir(ctx[id])}
      BY <1>2, <2>3
    <3>2. Held(id) # {} => c.knownPkgs
      <4>1. Held(id) # {} => ToSet(ctx[id].pkgs.elems) # {}
        BY HeldMember
      <4>2. ctx[id].pkgs.elems = <<>> => ToSet(ctx[id].pkgs.elems) = {}
        BY DEF ToSet
      <4> QED
        BY <1>2, <4>1, <4>2
    <3> QED
      BY <1>4, <1>9, <2>3, <3>1, <3>2 DEF ReadOf
  <2> QED
    BY <1>10, <2>1, <2>2, <2>3
<1>13. PkgsOf(id)'
  <2>1. SamePkgs(id) /\ kind' = kind /\ Reading(id)'
    BY <1>1, <1>4, <1>5, <1>9
  <2> QED
    BY <1>7, <2>1, SamePkgsOf
<1> QED
  BY <1>1, <1>3, <1>4, <1>5, <1>6, <1>12, <1>13, ReadingHeld DEF SamePkgs

\* What a step of the reading starts from.
LEMMA ReadingFacts ==
  ASSUME FlagsInv, HeldInv, calls # <<>>, Call.at = "pkgdir", NEW id \in Ids, id = Call.cat
  PROVE  /\ ReadOf(id) /\ PkgsOf(id) /\ ~Loading /\ \A d : Reading(d) <=> d = id
         /\ (Walking <=> Call.back = "catdir")
<1>1. ~Loading /\ (\A d : Reading(d) <=> d = id) /\ (Walking <=> Call.back = "catdir")
  BY HereLabels DEF Strolls, CatLabels
<1> QED
  BY <1>1, ReadInvIs, PkgsInvIs DEF HeldInv

LEMMA ReadNameHeld ==
  ASSUME FlagsInv, HeldInv, calls # <<>>, NEW pn, NEW c, ReadNameFacts(pn, c), ~crashed'
  PROVE  HeldInv'
<1>0. PICK id : id = Call.cat
  OBVIOUS
<1>1. /\ Call.at = "pkgdir" /\ id \in Ids /\ Quiet /\ Stays /\ Proceeds(c) /\ OnTop(c) /\ c.at = "pkgdir"
      /\ c.cat = id /\ c.back = Call.back /\ c.names = Call.names /\ c.known = Call.known
      /\ c.request = Call.request /\ Call.files = {} /\ pn \in Call.dirs
      /\ c.dirs = Call.dirs \ {pn} /\ c.files = NamedDir(ctx[id], pn) /\ c.knownPkgs = Call.knownPkgs
      /\ ~(Call.knownPkgs /\ FindPkg(id, pn) # 0)
  BY <1>0 DEF ReadNameFacts, SamePlace, Proceeds, Quiet, Cat
<1>2. Nested'
  BY <1>1, NestedTop DEF CatLabels
<1>3. /\ ~Loading' /\ (\A d : Reading(d)' <=> d = id) /\ Call' = c /\ (Walking' <=> c.back = "catdir")
  BY <1>1, TopLabels DEF Strolls, CatLabels
<1>4. /\ ReadOf(id) /\ PkgsOf(id) /\ ~Loading /\ (\A d : Reading(d) <=> d = id)
      /\ (Walking <=> Call.back = "catdir")
  BY <1>0, <1>1, ReadingFacts
<1>5. Ids' = Ids /\ \A d \in Ids : SamePkgs(d)
  BY <1>1, QuietSamePkgs
<1>6. /\ kind' = kind /\ (FromFile' <=> FromFile) /\ Held(id)' = Held(id) /\ ctx'[id].complete = ctx[id].complete
      /\ InDir(ctx'[id]) = InDir(ctx[id]) /\ (\A p : Whole(id, p)' = Whole(id, p))
      /\ FilterName' = FilterName /\ Query' = Query
  <2>1. kind' = kind /\ (FromFile' <=> FromFile)
    BY <1>1 DEF Stays, FromFile
  <2>2. Held(id)' = Held(id) /\ InDir(ctx'[id]) = InDir(ctx[id])
        /\ (\A p : Whole(id, p)' = Whole(id, p)) /\ ctx'[id].complete = ctx[id].complete
    BY <1>1, <1>5, SameHeld DEF SamePkgs
  <2>3. Query' = Query
    BY <1>1, <1>3 DEF Query
  <2> QED
    BY <2>1, <2>2, <2>3 DEF FilterName
<1>7. ~(kind = "ebuild" /\ FilterName)
  BY <1>1, <1>4 DEF ReadOf
<1>8. \A p \in Held(id) : p.pn # pn
  <2> SUFFICES ASSUME NEW p \in Held(id), p.pn = pn PROVE FALSE
    OBVIOUS
  <2>1. Call.knownPkgs
    BY <1>1, <1>4, <1>7 DEF ReadOf
  <2>2. FindPkg(id, pn) = 0
    BY <1>1, <2>1
  <2>3. PlainOf(p) \in ToSet(ctx[id].pkgs.elems) /\ PlainOf(p).pn = pn
    BY HeldMember DEF PlainOf
  <2> QED
    BY <1>1, <2>2, <2>3, FindPkgIs DEF FlagsInv
<1>9. NamedDir(ctx[id], pn) = {p \in InDir(ctx[id]) : p.pn = pn}
  BY DEF NamedDir
<1>10. ReadOf(id)'
  BY <1>1, <1>3, <1>4, <1>6, <1>7, <1>8, <1>9, HeldIn DEF ReadOf
<1>11. PkgsOf(id)'
  <2>1. SamePkgs(id) /\ kind' = kind /\ Reading(id)'
    BY <1>1, <1>3, <1>5, <1>6
  <2> QED
    BY <1>4, <2>1, SamePkgsOf
<1>12. ~FromFile
  BY <1>4 DEF ReadOf
<1> QED
  BY <1>1, <1>2, <1>3, <1>4, <1>5, <1>10, <1>11, <1>12, ReadingHeld DEF SamePkgs

LEMMA ReadPackageHeld ==
  ASSUME FlagsInv, HeldInv, calls # <<>>, NEW f, NEW c, ReadPackageFacts(f, c)
  PROVE  HeldInv'
<1>0. PICK id : id = Call.cat
  OBVIOUS
<1>1. /\ Call.at = "pkgdir" /\ id \in Ids /\ Stays /\ c.at = "pkgdir" /\ f \in Call.files /\ f \in Disk
      /\ c.cat = id /\ c.back = Call.back /\ c.names = Call.names /\ c.known = Call.known
      /\ c.files = Call.files \ {f} /\ c.dirs = Call.dirs /\ c.knownPkgs = Call.knownPkgs
      /\ PkgsPut(id, Appended(ctx[id].pkgs, PlainOf(f)))
  BY <1>0 DEF ReadPackageFacts, SamePlace
<1>2. Proceeds(c) /\ OnTop(c) /\ c.request = Call.request
  <2>1. CASE Nests(c) /\ ~Sorting(Call.request)
    <3>1. c.request.inner # None /\ c.request = Call.request
      BY <2>1 DEF Nests
    <3>2. Call.request.inner # None => Sorting(Call.request)
      BY CallFacts DEF FlagsInv, HeldInv, Nested, Call
    <3> QED
      BY <2>1, <3>1, <3>2
  <2>2. CASE Proceeds(c)
    BY <2>2 DEF Proceeds
  <2> QED
    BY <2>1, <2>2 DEF ReadPackageFacts
<1>3. Nested'
  BY <1>1, <1>2, NestedTop DEF CatLabels
<1>4. /\ ~Loading' /\ (\A d : Reading(d)' <=> d = id) /\ Call' = c /\ (Walking' <=> c.back = "catdir")
  BY <1>1, <1>2, TopLabels DEF Strolls, CatLabels
<1>5. /\ ReadOf(id) /\ PkgsOf(id) /\ ~Loading /\ (\A d : Reading(d) <=> d = id)
      /\ (Walking <=> Call.back = "catdir")
  BY <1>0, <1>1, ReadingFacts
<1>6. f \in InDir(ctx[id]) /\ f \notin Held(id) /\ f.cat = ctx[id].name
  BY <1>1, <1>5, InDirMember DEF ReadOf
<1>7. /\ AddsTo(id, f) /\ Ids' = Ids /\ \A d \in Ids : d # id => ctx'[d] = ctx[d]
      /\ \A d \in Ids : ctx'[d].name = ctx[d].name
  BY <1>1, <1>6, PutAdds
<1>8. /\ Held(id)' = Held(id) \cup {f} /\ InDir(ctx'[id]) = InDir(ctx[id])
      /\ ctx'[id].complete = ctx[id].complete
      /\ Once(ctx[id].pkgs.elems) => Once(ctx'[id].pkgs.elems)
      /\ ToSet(ctx[id].pkgs.elems) \subseteq Plain(InDir(ctx[id]))
           => ToSet(ctx'[id].pkgs.elems) \subseteq Plain(InDir(ctx'[id]))
  BY <1>1, <1>6, <1>7, AddedHeld DEF AddsTo
<1>9. \A p : Whole(id, p) => Whole(id, p)'
  BY <1>8 DEF Whole
<1>10. /\ kind' = kind /\ (FromFile' <=> FromFile) /\ Query' = Query /\ FilterName' = FilterName
  <2>1. Query' = Query
    BY <1>2, <1>4 DEF Query
  <2> QED
    BY <1>1, <2>1 DEF Stays, FromFile, FilterName
<1>11. ReadOf(id)'
  <2>1. /\ ~FromFile' /\ ~ctx'[id].complete /\ c.files \subseteq InDir(ctx'[id]) /\ c.files \cap Held(id)' = {}
    BY <1>1, <1>5, <1>8, <1>10 DEF ReadOf
  <2>2. CASE kind = "ebuild" /\ FilterName
    <3>1. NamedDir(ctx[id], Query.pn)' = NamedDir(ctx[id], Query.pn)
      BY <1>8, <1>10 DEF NamedDir
    <3>2. /\ c.dirs = {}
          /\ \A p \in NamedDir(ctx[id], Query.pn) : p \in c.files \/ p \in Held(id)'
          /\ \A p \in c.files : p.pn = Query.pn
          /\ \A p \in Held(id)' : p.pn # Query.pn => Whole(id, p)'
      BY <1>1, <1>5, <1>8, <1>9, <2>2 DEF ReadOf
    <3> QED
      BY <1>4, <1>10, <2>1, <2>2, <3>1, <3>2 DEF ReadOf
  <2>3. CASE ~(kind = "ebuild" /\ FilterName)
    <3>1. /\ \A p \in InDir(ctx'[id]) : p \in Held(id)' \/ p \in c.files \/ p.pn \in c.dirs
          /\ \A p \in c.files : p.pn \notin c.dirs
          /\ \A p \in Held(id)' : p.pn \in c.dirs => c.knownPkgs
      BY <1>1, <1>5, <1>8, <2>3 DEF ReadOf
    <3> QED
      BY <1>4, <1>10, <2>1, <2>3, <3>1 DEF ReadOf
  <2> QED
    BY <2>2, <2>3
<1>12. PkgsOf(id)'
  <2>1. ~ctx'[id].complete /\ Reading(id)'
    BY <1>4, <1>5, <1>8 DEF ReadOf
  <2> QED
    BY <1>5, <1>8, <2>1 DEF PkgsOf
<1>13. \A d \in Ids : d # id => SamePkgs(d)
  BY <1>7 DEF SamePkgs
<1>14. ~FromFile
  BY <1>5 DEF ReadOf
<1> QED
  BY <1>1, <1>3, <1>4, <1>5, <1>7, <1>11, <1>12, <1>13, <1>14, ReadingHeld

LEMMA CloseCategoryHeld ==
  ASSUME FlagsInv, HeldInv, calls # <<>>, NEW c, CloseCategoryFacts(c)
  PROVE  HeldInv'
<1>0. PICK id : id = Call.cat
  OBVIOUS
<1> DEFINE b == ctx[id].complete \/ kind # "ebuild" \/ ~FilterName
<1>1. /\ Call.at = "pkgdir" /\ id \in Ids /\ Stays /\ Proceeds(c) /\ OnTop(c) /\ c.at \in {"cat", Call.back}
      /\ c.cat = id /\ c.back = Call.back /\ c.names = Call.names /\ c.known = Call.known
      /\ c.request = Call.request /\ Call.files = {} /\ Call.dirs = {}
      /\ CompletePut(id, b)
  BY <1>0 DEF CloseCategoryFacts, SamePlace, Proceeds
<1>2. Call.back \in {"done", "catlist", "catdir"}
  BY CallFacts DEF FlagsInv, CallTyped
<1>3. Nested'
  BY <1>1, NestedTop DEF CatLabels
<1>4. /\ ~Loading' /\ (\A d : ~Reading(d)') /\ Call' = c /\ (Walking' => Call.back = "catdir")
  BY <1>1, <1>2, TopLabels DEF Strolls, CatLabels
<1>5. /\ ReadOf(id) /\ PkgsOf(id) /\ ~Loading /\ (\A d : Reading(d) <=> d = id)
      /\ (Walking <=> Call.back = "catdir")
  BY <1>0, <1>1, ReadingFacts
<1>6. b \in BOOLEAN /\ ~FromFile
  BY <1>5 DEF ReadOf
<1>7. b <=> ~(kind = "ebuild" /\ FilterName)
  BY <1>5 DEF ReadOf
<1> HIDE DEF b
<1>8. /\ Ids' = Ids /\ \A d \in Ids : d # id => ctx'[d] = ctx[d]
      /\ ctx'[id].pkgs = ctx[id].pkgs /\ ctx'[id].complete = b /\ ctx'[id].name = ctx[id].name
  <2>1. CtxMoved /\ (\A d \in Ids : d # id => ctx'[d] = ctx[d])
        /\ ctx'[id].pkgs = ctx[id].pkgs /\ ctx'[id].complete = b /\ ctx'[id].name = ctx[id].name
    BY <1>1, <1>6, OneComplete DEF FlagsInv
  <2>2. Len(ctx') = Len(ctx)
    BY <2>1 DEF CtxMoved
  <2> QED
    BY <2>1, <2>2 DEF Ids
<1>9. /\ Held(id)' = Held(id) /\ InDir(ctx'[id]) = InDir(ctx[id]) /\ (\A p : Whole(id, p)' = Whole(id, p))
      /\ kind' = kind
  BY <1>1, <1>8, SameHeld DEF Stays
<1>10. Once(ctx'[id].pkgs.elems) /\ ToSet(ctx'[id].pkgs.elems) \subseteq Plain(InDir(ctx'[id]))
  BY <1>5, <1>8, <1>9 DEF PkgsOf
<1>11. b => Held(id) = InDir(ctx[id])
  <2> SUFFICES ASSUME b PROVE InDir(ctx[id]) \subseteq Held(id)
    BY HeldIn
  <2> QED
    BY <1>1, <1>5, <1>7 DEF ReadOf
<1>12. ~b => kind = "ebuild" /\ \A p \in Held(id) : Whole(id, p)
  <2> SUFFICES ASSUME ~b, NEW p \in Held(id) PROVE kind = "ebuild" /\ Whole(id, p)
    BY <1>7
  <2>1. kind = "ebuild" /\ FilterName
    BY <1>7
  <2>2. CASE p.pn # Query.pn
    BY <1>5, <2>1, <2>2 DEF ReadOf
  <2>3. CASE p.pn = Query.pn
    <3>1. ASSUME NEW q \in InDir(ctx[id]), q.pn = p.pn PROVE q \in Held(id)
      <4>1. q \in NamedDir(ctx[id], Query.pn)
        BY <2>3, <3>1 DEF NamedDir
      <4> QED
        BY <1>1, <1>5, <2>1, <4>1 DEF ReadOf
    <3> QED
      BY <2>1, <3>1 DEF Whole
  <2> QED
    BY <2>1, <2>2, <2>3
<1>13. PkgsOf(id)'
  <2>1. CASE b
    BY <1>8, <1>9, <1>10, <1>11, <2>1 DEF PkgsOf
  <2>2. CASE ~b
    BY <1>8, <1>9, <1>10, <1>12, <2>2 DEF PkgsOf
  <2> QED
    BY <2>1, <2>2
<1>14. \A d \in Ids : d # id => SamePkgs(d)
  BY <1>8 DEF SamePkgs
<1>15. \A d \in Ids : ctx'[d].name = ctx[d].name
  BY <1>8
<1> QED
  BY <1>1, <1>3, <1>4, <1>5, <1>6, <1>8, <1>13, <1>14, <1>15, ReadingHeld

-----------------------------------------------------------------------------
(* The cache is true.                                                      *)

LEMMA StepHeld ==
  ASSUME FlagsInv, HeldInv, Step, ~crashed'
  PROVE  HeldInv'
<1>0. calls # <<>>
  BY DEF Step, At, EnterKnown, EnterUnknown, EnterComplete, NextCategory, ProbeCategory, OpenTree,
         ReadCategory, CloseTree, OpenFile, ReadBlock, CloseFile, EnterHits, NextHit, EnterAbsent,
         EnterCached, NextCached, OpenCategory, ReadName, ReadPackage, CloseCategory, Finish
<1>1. ASSUME NEW c, QuietStep(c) PROVE HeldInv'
  BY <1>0, <1>1, QuietStepHeld
<1>2. ASSUME NEW c, NestStep(c) PROVE HeldInv'
  BY <1>0, <1>2, NestStepHeld
<1>4. CASE EnterKnown
  BY <1>1, <1>4, EnterKnownStep
<1>5. CASE EnterUnknown
  BY <1>1, <1>5, EnterUnknownStep
<1>6. CASE EnterComplete
  BY <1>1, <1>6, EnterCompleteStep
<1>7. CASE NextCategory
  BY <1>1, <1>7, NextCategoryStep
<1>8. CASE ProbeCategory
  BY <1>0, <1>1, <1>8, ProbeCategoryStep, ProbeHeld
<1>9. CASE OpenTree
  BY <1>0, <1>9, OpenTreeStep, OpenTreeHeld
<1>10. CASE ReadCategory
  BY <1>0, <1>10, ReadCategoryStep, ReadCategoryHeld
<1>11. CASE CloseTree
  BY <1>0, <1>11, CloseTreeStep, CloseTreeHeld
<1>12. CASE OpenFile
  BY <1>0, <1>12, OpenFileStep, OpenFileHeld
<1>13. CASE ReadBlock
  BY <1>0, <1>13, ReadBlockStep, ReadBlockHeld
<1>14. CASE CloseFile
  BY <1>0, <1>14, CloseFileStep, CloseFileHeld
<1>15. CASE EnterHits
  BY <1>1, <1>15, EnterHitsStep
<1>16. CASE NextHit
  BY <1>1, <1>2, <1>16, NextHitStep
<1>17. CASE EnterAbsent
  BY <1>1, <1>17, EnterAbsentStep
<1>18. CASE EnterCached
  BY <1>1, <1>18, EnterCachedStep
<1>19. CASE NextCached
  BY <1>1, <1>2, <1>19, NextCachedStep
<1>20. CASE OpenCategory
  BY <1>20, OpenCategoryStep, OpenCategoryHeld DEF OpenCategory
<1>21. CASE ReadName
  BY <1>0, <1>21, ReadNameStep, ReadNameHeld
<1>22. CASE ReadPackage
  BY <1>0, <1>22, ReadPackageStep, ReadPackageHeld
<1>23. CASE CloseCategory
  BY <1>0, <1>23, CloseCategoryStep, CloseCategoryHeld
<1>24. CASE Finish
  BY <1>24, FinishHeld
<1> QED
  BY <1>4, <1>5, <1>6, <1>7, <1>8, <1>9, <1>10, <1>11, <1>12, <1>13, <1>14, <1>15, <1>16, <1>17,
     <1>18, <1>19, <1>20, <1>21, <1>22, <1>23, <1>24 DEF Step

LEMMA CacheNext == SortedOnly /\ CacheInv /\ [Next]_vars => CacheInv'
<1> SUFFICES ASSUME SortedOnly, CacheInv, [Next]_vars PROVE CacheInv'
  OBVIOUS
<1>1. FlagsInv /\ (~crashed => HeldInv) /\ FlagsInv'
  BY FlagsNext DEF CacheInv
<1>2. CASE Step
  <2>1. ~crashed
    BY <1>2
       DEF Step, At, EnterKnown, EnterUnknown, EnterComplete, NextCategory, ProbeCategory, OpenTree,
         ReadCategory, CloseTree, OpenFile, ReadBlock, CloseFile, EnterHits, NextHit, EnterAbsent,
         EnterCached, NextCached, OpenCategory, ReadName, ReadPackage, CloseCategory, Finish
  <2> QED
    BY <1>1, <1>2, <2>1, StepHeld DEF CacheInv
<1>3. ASSUME NEW r \in Requests, Begin(r) PROVE CacheInv'
  <2>1. ~crashed
    BY <1>3 DEF Begin
  <2> QED
    BY <1>1, <1>3, <2>1, BeginHeld DEF CacheInv
<1>4. CASE UNCHANGED vars
  <2>1. HeldInv' = HeldInv
    BY <1>4 DEF vars, HeldInv, Nested, CatsInv, FileInv, LoadInv, PkgsInv, ReadInv, Ids, NamesIn,
                Loading, Reading, Walking, FromFile, Held, Whole, Call, Depth, Query, FilterName
  <2>2. crashed' = crashed
    BY <1>4 DEF vars
  <2> QED
    BY <1>1, <2>1, <2>2 DEF CacheInv
<1> QED
  BY <1>2, <1>3, <1>4 DEF Next

LEMMA CacheInit == Init => CacheInv
<1> SUFFICES ASSUME Init PROVE CacheInv
  OBVIOUS
<1>1. Ids = {} /\ calls = <<>> /\ complete = FALSE
  BY DEF Init, Ids
<1>2. Nested
  BY <1>1 DEF Nested
<1>3. ~Loading /\ ~Walking /\ \A c : ~Reading(c)
  BY <1>1 DEF Loading, Walking, Reading
<1>4. CatsInv /\ FileInv /\ LoadInv /\ PkgsInv /\ ReadInv
  BY <1>1, <1>3 DEF CatsInv, FileInv, LoadInv, PkgsInv, ReadInv
<1> QED
  BY <1>2, <1>4, FlagsInit DEF CacheInv, HeldInv

\* A sequence that has each element once is as long as they are many.
LEMMA OnceLen ==
  ASSUME NEW E, NEW s \in Seq(E), Once(s)
  PROVE  Len(s) = Cardinality(ToSet(s)) /\ IsFiniteSet(ToSet(s))
<1> DEFINE n == Len(s)
<1>1. n \in Nat /\ DOMAIN s = 1..n /\ IsFiniteSet(1..n) /\ Cardinality(1..n) = n
  <2>1. n \in Nat /\ DOMAIN s = 1..n
    OBVIOUS
  <2> HIDE DEF n
  <2>2. 1 \in Int /\ n \in Int
    BY <2>1
  <2>3. IsFiniteSet(1..n) /\ Cardinality(1..n) = IF 1 > n THEN 0 ELSE n - 1 + 1
    BY <2>2, FS_Interval
  <2> QED
    BY <2>1, <2>3
<1>2. s \in Bijection(1..n, ToSet(s))
  <2>1. s = [i \in 1..n |-> s[i]] /\ ToSet(s) = {s[i] : i \in 1..n}
    BY <1>1 DEF ToSet
  <2>2. \A i, j \in 1..n : s[i] = s[j] => i = j
    BY <1>1 DEF Once
  <2> HIDE DEF n
  <2>3. s \in [1..n -> ToSet(s)]
    BY <2>1
  <2>4. \A y \in ToSet(s) : \E i \in 1..n : s[i] = y
    BY <2>1
  <2>5. s \in Injection(1..n, ToSet(s))
    BY <2>2, <2>3 DEF Injection, IsInjective
  <2>6. s \in Surjection(1..n, ToSet(s))
    BY <2>3, <2>4 DEF Surjection
  <2> QED
    BY <2>5, <2>6 DEF Bijection
<1>3. ExistsBijection(1..n, ToSet(s))
  BY <1>2 DEF ExistsBijection
<1> QED
  BY <1>1, <1>3, FS_Bijection

LEMMA CatsListed ==
  ASSUME CacheTyped, \A c, d \in Ids : ctx[c].name = ctx[d].name => c = d, NamesIn = Categories
  PROVE  Len(cats.elems) = Cardinality(Categories) /\ {ctx[c].name : c \in ToSet(cats.elems)} = Categories
<1> DEFINE s == cats.elems
           n == Len(s)
           t == [i \in 1..n |-> ctx[s[i]].name]
<1>1. s \in Seq(Ids) /\ Once(s) /\ ToSet(s) = Ids
  BY DEF CacheTyped
<1>2. n \in Nat /\ DOMAIN s = 1..n /\ (\A i \in 1..n : s[i] \in Ids) /\ (\A c \in Ids : \E i \in 1..n : s[i] = c)
  BY <1>1 DEF ToSet
<1> HIDE DEF s, n
<1>3. t \in Seq(Categories)
  <2>1. \A i \in 1..n : ctx[s[i]].name \in Categories
    BY <1>2, CtxFacts
  <2> QED
    BY <1>2, <2>1
<1>4. DOMAIN t = 1..n /\ Len(t) = n /\ \A i \in 1..n : t[i] = ctx[s[i]].name
  BY <1>2
<1> HIDE DEF t
<1>5. Once(t)
  BY <1>1, <1>2, <1>4 DEF Once
<1>6. ToSet(t) = Categories
  <2>1. ToSet(t) = {t[i] : i \in 1..n}
    BY <1>4 DEF ToSet
  <2>2. \A x : x \in ToSet(t) <=> \E c \in Ids : x = ctx[c].name
    BY <1>2, <1>4, <2>1
  <2>3. \A x : x \in NamesIn <=> \E c \in Ids : x = ctx[c].name
    BY DEF NamesIn
  <2>4. \A x : x \in ToSet(t) <=> x \in NamesIn
    BY <2>2, <2>3
  <2>5. ToSet(t) = NamesIn
    BY <2>4
  <2> QED
    BY <2>5
<1>7. n = Cardinality(Categories)
  BY <1>3, <1>4, <1>5, <1>6, OnceLen
<1> QED
  BY <1>1, <1>7 DEF s, n, NamesIn

LEMMA HeldListed ==
  ASSUME CacheTyped, NEW c \in Ids, PkgsOf(c)
  PROVE  Listed(ctx[c].pkgs, Plain(Held(c)))
<1>1. Once(ctx[c].pkgs.elems) /\ ToSet(ctx[c].pkgs.elems) \subseteq Plain(InDir(ctx[c]))
  BY DEF PkgsOf
<1>2. ctx[c].pkgs.elems \in Seq(Plains)
  BY CtxFacts
<1>3. Plain(Held(c)) = ToSet(ctx[c].pkgs.elems)
  <2>1. ASSUME NEW x \in ToSet(ctx[c].pkgs.elems) PROVE x \in Plain(Held(c))
    <3>1. PICK p \in InDir(ctx[c]) : x = PlainOf(p)
      BY <1>1 DEF Plain, PlainOf
    <3>2. p \in Held(c)
      BY <3>1, HeldMember
    <3> QED
      BY <3>1, <3>2 DEF Plain, PlainOf
  <2>2. ASSUME NEW x \in Plain(Held(c)) PROVE x \in ToSet(ctx[c].pkgs.elems)
    <3>1. PICK p \in Held(c) : x = PlainOf(p)
      BY DEF Plain, PlainOf
    <3> QED
      BY <3>1, HeldMember
  <2> QED
    BY <2>1, <2>2
<1>4. Len(ctx[c].pkgs.elems) = Cardinality(ToSet(ctx[c].pkgs.elems))
  BY <1>1, <1>2, OnceLen
<1> QED
  BY <1>3, <1>4 DEF Listed

LEMMA CacheInvImplies == CacheInv => CacheTrue
<1> SUFFICES ASSUME CacheInv PROVE CacheTrue
  OBVIOUS
<1>1. FlagsTrue /\ CacheTyped /\ FlagsInv
  BY DEF CacheInv, FlagsInv
<1> SUFFICES ASSUME calls = <<>>
             PROVE  /\ (complete /\ kind \in {"ebuild", "vdb"}) =>
                         (/\ Len(cats.elems) = Cardinality(Categories)
                          /\ {ctx[c].name : c \in ToSet(cats.elems)} = Categories)
                    /\ \A c \in Ids :
                         /\ c \in ToSet(cats.elems)
                         /\ \A d \in Ids : ctx[c].name = ctx[d].name => c = d
                         /\ ctx[c].complete => Listed(ctx[c].pkgs, Plain(InDir(ctx[c])))
                         /\ \E S \in SUBSET {p.pn : p \in InDir(ctx[c])} :
                              Listed(ctx[c].pkgs, Plain({p \in InDir(ctx[c]) : p.pn \in S}))
  BY <1>1 DEF CacheTrue
<1>2. HeldInv
  BY DEF CacheInv, FlagsInv, CallsTyped
<1>3. \A c, d \in Ids : ctx[c].name = ctx[d].name => c = d
  BY <1>2 DEF HeldInv, CatsInv
<1>4. ASSUME complete, kind \in {"ebuild", "vdb"}
      PROVE  /\ Len(cats.elems) = Cardinality(Categories)
             /\ {ctx[c].name : c \in ToSet(cats.elems)} = Categories
  <2>1. NamesIn = Categories
    BY <1>2, <1>4 DEF HeldInv, CatsInv, FromFile
  <2> QED
    BY <1>1, <1>3, <2>1, CatsListed
<1>5. ASSUME NEW c \in Ids
      PROVE  /\ c \in ToSet(cats.elems)
             /\ ctx[c].complete => Listed(ctx[c].pkgs, Plain(InDir(ctx[c])))
             /\ \E S \in SUBSET {p.pn : p \in InDir(ctx[c])} :
                  Listed(ctx[c].pkgs, Plain({p \in InDir(ctx[c]) : p.pn \in S}))
  <2>1. PkgsOf(c) /\ Listed(ctx[c].pkgs, Plain(Held(c)))
    BY <1>1, <1>2, PkgsInvIs, HeldListed DEF HeldInv
  <2>2. ctx[c].complete => Held(c) = InDir(ctx[c])
    BY <2>1 DEF PkgsOf
  <2>3. \A p \in Held(c) : Whole(c, p)
    <3>1. CASE ctx[c].complete
      BY <2>2, <3>1 DEF Whole
    <3>2. CASE ~ctx[c].complete
      BY <2>1, <3>2 DEF PkgsOf, Reading, Loading
    <3> QED
      BY <3>1, <3>2
  <2> DEFINE S == {p.pn : p \in Held(c)}
  <2>4. {p \in InDir(ctx[c]) : p.pn \in S} = Held(c)
    BY <2>3, HeldIn DEF Whole
  <2>5. S \in SUBSET {p.pn : p \in InDir(ctx[c])}
    BY HeldIn
  <2>6. c \in ToSet(cats.elems)
    BY <1>1 DEF CacheTyped
  <2>7. \E U \in SUBSET {p.pn : p \in InDir(ctx[c])} :
          Listed(ctx[c].pkgs, Plain({p \in InDir(ctx[c]) : p.pn \in U}))
    <3>1. Listed(ctx[c].pkgs, Plain({p \in InDir(ctx[c]) : p.pn \in S}))
      BY <2>1, <2>4
    <3> HIDE DEF S
    <3> QED
      BY <2>5, <3>1
  <2> QED
    BY <2>1, <2>2, <2>6, <2>7
<1> QED
  BY <1>3, <1>4, <1>5

\* Where callbacks ask again in sorted traversals only, the cache has the packages of
\* the tree between requests, whatever was asked before and however requests nested.
THEOREM CacheKept ==
  ASSUME SortedOnly
  PROVE  Spec => []CacheTrue
<1>1. CacheInv /\ [Next]_vars => CacheInv'
  BY CacheNext
<1> QED
  BY <1>1, CacheInit, CacheInvImplies, PTL DEF Spec

-----------------------------------------------------------------------------
(* What was called back is reduced to the answer.                          *)

\* The places I of s, in their order.
Upto(I, i) == {j \in I : j <= i}

LEMMA PlacesRanked ==
  ASSUME NEW n \in Nat, NEW I \in SUBSET (1..n)
  PROVE  /\ Cardinality(I) \in Nat
         /\ \A i \in I : Cardinality(Upto(I, i)) \in 1..Cardinality(I)
         /\ \A k \in 1..Cardinality(I) : \E i \in I : Cardinality(Upto(I, i)) = k
         /\ \A i, j \in I : i < j => Cardinality(Upto(I, i)) < Cardinality(Upto(I, j))
<1> DEFINE m == Cardinality(I)
           r == [i \in I |-> Cardinality(Upto(I, i))]
<1>1. I \subseteq Nat /\ IsFiniteSet(I) /\ m \in Nat
  <2>1. IsFiniteSet(1..n)
    BY FS_Interval
  <2>2. IsFiniteSet(I)
    BY <2>1, FS_Subset
  <2> QED
    BY <2>2, FS_CardinalityType
<1>2. \A i, j : j \in Upto(I, i) <=> j \in I /\ j <= i
  BY DEF Upto
<1>3. ASSUME NEW i \in I
      PROVE  IsFiniteSet(Upto(I, i)) /\ r[i] \in 1..m /\ r[i] = Cardinality(Upto(I, i)) /\ r[i] \in Nat
  <2>1. Upto(I, i) \subseteq I /\ i \in Upto(I, i)
    BY <1>1, <1>2
  <2>2. IsFiniteSet(Upto(I, i)) /\ Cardinality(Upto(I, i)) <= m
    BY <1>1, <2>1, FS_Subset
  <2>3. Cardinality(Upto(I, i)) \in Nat /\ Cardinality(Upto(I, i)) # 0
    BY <2>1, <2>2, FS_CardinalityType, FS_EmptySet
  <2> QED
    BY <1>1, <2>2, <2>3
<1> HIDE DEF r
<1>4. ASSUME NEW i \in I, NEW j \in I, i < j
      PROVE  r[i] < r[j]
  <2>0. i \in Nat /\ j \in Nat
    BY <1>1
  <2>1. \A k \in I : k <= i => k <= j
    BY <1>1, <1>4, <2>0
  <2>2. j \in Upto(I, j) /\ j \notin Upto(I, i)
    BY <1>2, <1>4, <2>0
  <2>3. Upto(I, i) \subseteq Upto(I, j)
    BY <1>2, <2>1
  <2>4. Cardinality(Upto(I, i)) <= Cardinality(Upto(I, j)) /\ Cardinality(Upto(I, i)) # Cardinality(Upto(I, j))
    BY <1>3, <2>2, <2>3, FS_Subset
  <2> QED
    BY <1>3, <2>4
<1>5. r \in [I -> 1..m]
  BY <1>3 DEF r
<1>6. \A i, j \in I : r[i] = r[j] => i = j
  <2> SUFFICES ASSUME NEW i \in I, NEW j \in I, i < j PROVE r[i] # r[j]
    BY <1>1
  <2> QED
    BY <1>3, <1>4
<1>7. r \in Injection(I, 1..m)
  BY <1>5, <1>6 DEF Injection, IsInjective
<1>8. IsFiniteSet(1..m) /\ Cardinality(1..m) = m
  BY <1>1, FS_Interval
<1>9. r \in Surjection(I, 1..m)
  BY <1>1, <1>7, <1>8, FS_Injection
<1>10. \A k \in 1..m : \E i \in I : r[i] = k
  BY <1>9 DEF Surjection
<1> QED
  BY <1>1, <1>3, <1>4, <1>10

LEMMA PlacesInOrder ==
  ASSUME NEW n \in Nat, NEW I \in SUBSET (1..n)
  PROVE  LET g == [k \in 1..Cardinality(I) |-> CHOOSE i \in I : Cardinality(Upto(I, i)) = k]
         IN  /\ Cardinality(I) \in Nat /\ \A k \in 1..Cardinality(I) : g[k] \in I
             /\ \A i \in I : \E k \in 1..Cardinality(I) : g[k] = i
             /\ \A k, l \in 1..Cardinality(I) : k < l => g[k] < g[l]
<1> DEFINE m == Cardinality(I)
           g == [k \in 1..m |-> CHOOSE i \in I : Cardinality(Upto(I, i)) = k]
           r == [i \in I |-> Cardinality(Upto(I, i))]
<1>0. I \subseteq Nat
  OBVIOUS
<1>1. /\ m \in Nat /\ \A i \in I : r[i] \in 1..m /\ r[i] = Cardinality(Upto(I, i))
      /\ \A k \in 1..m : \E i \in I : Cardinality(Upto(I, i)) = k
      /\ \A i, j \in I : i < j => r[i] < r[j]
  BY PlacesRanked
<1>2. \A k \in 1..m : g[k] \in I /\ Cardinality(Upto(I, g[k])) = k
  BY <1>1
<1> HIDE DEF r, m, g
<1>3. \A k \in 1..m : g[k] \in I /\ r[g[k]] = k /\ g[k] \in Nat /\ k \in Nat
  <2> SUFFICES ASSUME NEW k \in 1..m PROVE g[k] \in I /\ r[g[k]] = k /\ g[k] \in Nat /\ k \in Nat
    OBVIOUS
  <2>1. k \in Nat
    BY <1>1
  <2>2. g[k] \in I /\ Cardinality(Upto(I, g[k])) = k
    BY <1>2
  <2> QED
    BY <1>0, <1>1, <2>1, <2>2
<1>4. ASSUME NEW i \in I PROVE \E k \in 1..m : g[k] = i
  <2>1. r[i] \in 1..m /\ g[r[i]] \in I /\ r[g[r[i]]] = r[i] /\ i \in Nat /\ g[r[i]] \in Nat
    BY <1>0, <1>1, <1>3
  <2>2. r[i] \in Nat
    BY <1>1, <2>1
  <2>3. ~(g[r[i]] < i) /\ ~(i < g[r[i]])
    BY <1>1, <2>1, <2>2
  <2>4. g[r[i]] = i
    BY <2>1, <2>3
  <2> QED
    BY <2>1, <2>4
<1>5. ASSUME NEW k \in 1..m, NEW l \in 1..m, k < l PROVE g[k] < g[l]
  <2>1. /\ g[k] \in I /\ g[l] \in I /\ r[g[k]] = k /\ r[g[l]] = l
        /\ g[k] \in Nat /\ g[l] \in Nat /\ k \in Nat /\ l \in Nat
    BY <1>3
  <2>2. ~(g[l] < g[k]) /\ g[k] # g[l]
    BY <1>1, <1>5, <2>1
  <2> QED
    BY <2>1, <2>2
<1> QED
  BY <1>1, <1>3, <1>4, <1>5 DEF m, g

LEMMA PickedIs ==
  ASSUME NEW S, NEW s \in Seq(S), NEW I \in SUBSET (1..Len(s)), NEW t, t = Picked(s, I)
  PROVE  /\ t \in Seq(S) /\ Len(t) = Cardinality(I) /\ Cardinality(I) \in Nat
         /\ \E g : /\ \A k \in 1..Cardinality(I) : g[k] \in I /\ t[k] = s[g[k]]
                   /\ \A i \in I : \E k \in 1..Cardinality(I) : g[k] = i
                   /\ \A k, l \in 1..Cardinality(I) : k < l => g[k] < g[l]
<1> DEFINE g == [k \in 1..Cardinality(I) |-> CHOOSE i \in I : Cardinality(Upto(I, i)) = k]
<1>1. Len(s) \in Nat /\ \A i \in 1..Len(s) : s[i] \in S
  OBVIOUS
<1>2. t = [k \in 1..Cardinality(I) |-> s[g[k]]]
  BY DEF Picked, Upto
<1>3. /\ Cardinality(I) \in Nat /\ \A k \in 1..Cardinality(I) : g[k] \in I
      /\ \A i \in I : \E k \in 1..Cardinality(I) : g[k] = i
      /\ \A k, l \in 1..Cardinality(I) : k < l => g[k] < g[l]
  BY <1>1, PlacesInOrder
<1> HIDE DEF g
<1>4. \A k \in 1..Cardinality(I) : t[k] = s[g[k]] /\ t[k] \in S
  BY <1>1, <1>2, <1>3
<1>5. t \in Seq(S) /\ Len(t) = Cardinality(I)
  BY <1>2, <1>3, <1>4
<1> QED
  BY <1>3, <1>4, <1>5
\* What a request asks for, by itself.
Fitting(query, p) ==
  query.cat \in {Absent, p.cat} /\ query.pn \in {Absent, p.pn} /\ query.ver \in {Absent, p.ver}
AskedOf(r) == {p \in Disk : Fitting(r.query, p)}
Ascends(s) == \A i, j \in DOMAIN s : i < j => Earlier(s[i], s[j])

\* What is called back, and how it is named.
Outs == [cat : Ids, pn : Nat, ver : Nat]
NameOf(p) == [cat |-> ctx[p.cat].name, pn |-> p.pn, ver |-> p.ver]

LEMMA NamedIs ==
  ASSUME NEW s \in Seq(Outs)
  PROVE  /\ Len(s) \in Nat /\ DOMAIN s = 1..Len(s) /\ \A i \in 1..Len(s) : s[i] \in Outs
         /\ DOMAIN Named(s) = 1..Len(s) /\ Len(Named(s)) = Len(s)
         /\ \A i \in 1..Len(s) : Named(s)[i] = NameOf(s[i])
<1>1. Len(s) \in Nat /\ DOMAIN s = 1..Len(s) /\ \A i \in 1..Len(s) : s[i] \in Outs
  OBVIOUS
<1>2. Named(s) = [i \in 1..Len(s) |-> NameOf(s[i])]
  BY <1>1 DEF Named, NameOf
<1> QED
  BY <1>1, <1>2

LEMMA PickedNamed ==
  ASSUME NEW s \in Seq(Outs), NEW I \in SUBSET (1..Len(s)), NEW t, t = Picked(s, I)
  PROVE  /\ t \in Seq(Outs)
         /\ Named(s) \in Seq(Disk) => Named(t) \in Seq(Disk)
         /\ Once(Named(s)) => Once(Named(t))
         /\ Ascends(Named(s)) => Ascends(Named(t))
         /\ ToSet(Named(t)) = {Named(s)[i] : i \in I}
<1> DEFINE m == Cardinality(I)
           M == Named(s)
           N == Named(t)
<1>1. PICK g : /\ \A k \in 1..m : g[k] \in I /\ t[k] = s[g[k]]
               /\ \A i \in I : \E k \in 1..m : g[k] = i
               /\ \A k, l \in 1..m : k < l => g[k] < g[l]
  <2>1. \E g : /\ \A k \in 1..Cardinality(I) : g[k] \in I /\ t[k] = s[g[k]]
               /\ \A i \in I : \E k \in 1..Cardinality(I) : g[k] = i
               /\ \A k, l \in 1..Cardinality(I) : k < l => g[k] < g[l]
    BY PickedIs
  <2> QED
    BY <2>1
<1>2. t \in Seq(Outs) /\ Len(t) = m /\ m \in Nat
  BY PickedIs
<1>3. /\ Len(s) \in Nat /\ DOMAIN M = 1..Len(s) /\ Len(M) = Len(s)
      /\ \A i \in 1..Len(s) : M[i] = NameOf(s[i])
  BY NamedIs
<1>4. DOMAIN N = 1..m /\ Len(N) = m /\ \A k \in 1..m : N[k] = NameOf(t[k])
  BY <1>2, NamedIs
<1>5. I \subseteq 1..Len(s) /\ N = [k \in 1..m |-> N[k]]
  BY <1>4 DEF Named
<1> HIDE DEF m, M, N
<1>6. \A k \in 1..m : g[k] \in 1..Len(s) /\ g[k] \in Nat /\ N[k] = M[g[k]] /\ k \in Nat
  <2> SUFFICES ASSUME NEW k \in 1..m PROVE g[k] \in 1..Len(s) /\ g[k] \in Nat /\ N[k] = M[g[k]] /\ k \in Nat
    OBVIOUS
  <2>1. k \in Nat /\ g[k] \in 1..Len(s)
    BY <1>1, <1>2, <1>5
  <2> QED
    BY <1>1, <1>3, <1>4, <2>1
<1>7. M \in Seq(Disk) => N \in Seq(Disk)
  <2> SUFFICES ASSUME M \in Seq(Disk) PROVE N \in Seq(Disk)
    OBVIOUS
  <2>1. \A i \in 1..Len(s) : M[i] \in Disk
    BY <1>3
  <2>2. \A k \in 1..m : N[k] \in Disk
    BY <1>6, <2>1
  <2>3. N \in [1..m -> Disk]
    BY <1>5, <2>2
  <2> QED
    BY <1>2, <2>3
<1>8. ASSUME Once(M) PROVE Once(N)
  <2> SUFFICES ASSUME NEW k \in 1..m, NEW l \in 1..m, k < l PROVE N[k] # N[l]
    BY <1>2, <1>4 DEF Once
  <2>1. g[k] < g[l] /\ g[k] \in Nat /\ g[l] \in Nat
    BY <1>1, <1>6
  <2>2. g[k] # g[l]
    BY <2>1
  <2> QED
    BY <1>3, <1>6, <1>8, <2>2 DEF Once
<1>9. ASSUME Ascends(M) PROVE Ascends(N)
  BY <1>1, <1>3, <1>4, <1>6, <1>9 DEF Ascends
<1>10. ToSet(N) = {M[i] : i \in I}
  <2>1. ToSet(N) = {N[k] : k \in 1..m}
    BY <1>4 DEF ToSet
  <2>2. \A i \in I : \E k \in 1..m : N[k] = M[i]
    BY <1>1, <1>6
  <2> QED
    <3>1. ASSUME NEW k \in 1..m PROVE \E i \in I : N[k] = M[i]
      BY <1>1, <1>6
    <3>2. ToSet(N) \subseteq {M[i] : i \in I}
      BY <2>1, <3>1
    <3>3. {M[i] : i \in I} \subseteq ToSet(N)
      BY <2>1, <2>2
    <3> QED
      BY <3>2, <3>3
<1> QED
  BY <1>2, <1>7, <1>8, <1>9, <1>10 DEF M, N

\* The packages S, each once and in order if told to.
Gives(s, S, inOrder) ==
  /\ s \in Seq(Outs) /\ Named(s) \in Seq(Disk)
  /\ Once(Named(s)) /\ ToSet(Named(s)) = S /\ (inOrder => Ascends(Named(s)))

LEMMA PickedGives ==
  ASSUME NEW s, NEW S, NEW b, Gives(s, S, b), NEW I \in SUBSET (DOMAIN s)
  PROVE  Gives(Picked(s, I), {Named(s)[i] : i \in I}, b)
<1>1. s \in Seq(Outs) /\ DOMAIN s = 1..Len(s)
  BY DEF Gives
<1> QED
  BY <1>1, PickedNamed DEF Gives

LEMMA GivesAll ==
  ASSUME NEW s, NEW S, NEW b, Gives(s, S, b)
  PROVE  /\ S = {Named(s)[i] : i \in DOMAIN s} /\ S \subseteq Disk /\ DOMAIN s = DOMAIN Named(s)
         /\ DOMAIN s = 1..Len(s) /\ Len(s) \in Nat
         /\ \A i \in DOMAIN s : Named(s)[i] = NameOf(s[i]) /\ s[i] \in Outs /\ Named(s)[i] \in S
<1>1. s \in Seq(Outs) /\ Named(s) \in Seq(Disk) /\ ToSet(Named(s)) = S
  BY DEF Gives
<1>2. /\ Len(s) \in Nat /\ DOMAIN s = 1..Len(s) /\ \A i \in 1..Len(s) : s[i] \in Outs
      /\ DOMAIN Named(s) = 1..Len(s) /\ Len(Named(s)) = Len(s)
      /\ \A i \in 1..Len(s) : Named(s)[i] = NameOf(s[i])
  BY <1>1, NamedIs
<1>3. S = {Named(s)[i] : i \in 1..Len(s)}
  BY <1>1, <1>2 DEF ToSet
<1>4. \A i \in 1..Len(s) : Named(s)[i] \in Disk
  BY <1>1, <1>2
<1> QED
  BY <1>2, <1>3, <1>4

LEMMA KeptGives ==
  ASSUME NEW r, NEW s, NEW b, Gives(s, AskedOf(r), b)
  PROVE  Gives(Kept(r.flags, s), T!Matching(r), b)
<1> DEFINE I == {i \in DOMAIN s : Keeps(r.flags, s[i].cat)}
           N == Named(s)
<1>1. Gives(Picked(s, I), {N[i] : i \in I}, b)
  BY PickedGives
<1>2. /\ AskedOf(r) = {N[i] : i \in DOMAIN s} /\ AskedOf(r) \subseteq Disk
      /\ \A i \in DOMAIN s : N[i] = NameOf(s[i])
  BY GivesAll
<1> HIDE DEF N
<1>3. \A i \in DOMAIN s : N[i].cat = ctx[s[i].cat].name
  <2>1. \A p : NameOf(p).cat = ctx[p.cat].name
    BY DEF NameOf
  <2> QED
    BY <1>2, <2>1
<1>4. ASSUME NEW p PROVE p \in T!Matching(r) <=> \E i \in I : p = N[i]
  <2>1. p \in T!Matching(r) <=> /\ p \in AskedOf(r)
                                /\ p.cat \in VirtualCats => "virtual" \in r.flags
                                /\ p.cat \in AcctCats => "acct" \in r.flags
    BY DEF T!Matching, T!Asked, T!Fits, AskedOf, Fitting
  <2> QED
    BY <1>2, <1>3, <2>1 DEF Keeps
<1>5. T!Matching(r) = {N[i] : i \in I}
  <2> HIDE DEF I
  <2> QED
    BY <1>4
<1> QED
  BY <1>1, <1>5 DEF Kept

LEMMA DiskOrder ==
  ASSUME NEW p \in Disk, NEW q \in Disk
  PROVE  /\ p.cat \in Nat /\ p.pn \in Nat /\ p.ver \in Nat
         /\ ~(Earlier(p, q) /\ Earlier(q, p)) /\ ~Earlier(p, p)
         /\ T!Precedes(p, q) <=> Earlier(p, q)
<1>1. /\ p.cat \in Nat /\ p.pn \in Nat /\ p.ver \in Nat
      /\ q.cat \in Nat /\ q.pn \in Nat /\ q.ver \in Nat
  BY CacheAssumption
<1> QED
  BY <1>1 DEF Earlier, PkgLess, T!Precedes

LEMMA FirstGives ==
  ASSUME NEW s, NEW S, Gives(s, S, TRUE)
  PROVE  Gives(FirstOf(s), T!First(S), TRUE)
<1> DEFINE I == {1} \cap DOMAIN s
           N == Named(s)
<1>1. Gives(Picked(s, I), {N[i] : i \in I}, TRUE)
  BY PickedGives
<1>2. /\ S = {N[i] : i \in DOMAIN s} /\ S \subseteq Disk /\ DOMAIN s = 1..Len(s) /\ Len(s) \in Nat
      /\ DOMAIN N = DOMAIN s
  BY GivesAll
<1>3. Once(N) /\ Ascends(N)
  BY DEF Gives
<1> HIDE DEF N
<1>4. ASSUME NEW p \in S, \A q \in S \ {p} : T!Precedes(p, q) PROVE \E i \in I : p = N[i]
  <2>1. PICK j \in DOMAIN s : p = N[j]
    BY <1>2
  <2>2. 1 \in DOMAIN s /\ (1 < j \/ j = 1)
    BY <1>2
  <2>3. CASE 1 < j
    <3>1. Earlier(N[1], p) /\ N[1] \in S /\ N[1] \in Disk /\ p \in Disk
      BY <1>2, <1>3, <2>1, <2>2, <2>3 DEF Ascends
    <3>2. N[1] # p
      BY <3>1, DiskOrder
    <3> QED
      BY <1>4, <3>1, <3>2, DiskOrder
  <2> QED
    BY <2>1, <2>2, <2>3
<1>5. ASSUME NEW i \in I PROVE N[i] \in S /\ \A q \in S \ {N[i]} : T!Precedes(N[i], q)
  <2>1. i = 1 /\ 1 \in DOMAIN s
    OBVIOUS
  <2>2. ASSUME NEW q \in S \ {N[1]} PROVE T!Precedes(N[1], q)
    <3>1. PICK j \in DOMAIN s : q = N[j]
      BY <1>2
    <3>2. 1 < j
      BY <1>2, <2>2, <3>1
    <3>3. Earlier(N[1], q) /\ N[1] \in Disk /\ q \in Disk
      BY <1>2, <1>3, <2>1, <3>1, <3>2 DEF Ascends
    <3> QED
      BY <3>3, DiskOrder
  <2> QED
    BY <1>2, <2>1, <2>2
<1>6. T!First(S) = {N[i] : i \in I}
  <2> HIDE DEF I
  <2> QED
    BY <1>4, <1>5 DEF T!First
<1> QED
  BY <1>1, <1>6 DEF FirstOf
-----------------------------------------------------------------------------
(* Reducing what was called back, where the flags say so.                  *)

\* The names of categories are theirs alone.
NamesDiffer == \A c, d \in Ids : ctx[c].name = ctx[d].name => c = d

LEMMA SuccessiveIs ==
  ASSUME NamesDiffer, NEW s, NEW S, NEW b, Gives(s, S, b), NEW i \in DOMAIN s
  PROVE  Successive(s, i) <=> /\ i > 1 /\ i - 1 \in DOMAIN s
                              /\ Named(s)[i - 1].cat = Named(s)[i].cat
                              /\ Named(s)[i - 1].pn = Named(s)[i].pn
<1> DEFINE N == Named(s)
<1>1. /\ DOMAIN s = 1..Len(s) /\ Len(s) \in Nat
      /\ \A j \in DOMAIN s : N[j] = NameOf(s[j]) /\ s[j] \in Outs
  BY GivesAll
<1>2. \A p \in Outs : NameOf(p).cat = ctx[p.cat].name /\ NameOf(p).pn = p.pn /\ p.cat \in Ids
  BY DEF NameOf, Outs
<1> HIDE DEF N
<1>3. \A j \in DOMAIN s : N[j].cat = ctx[s[j].cat].name /\ N[j].pn = s[j].pn /\ s[j].cat \in Ids
  BY <1>1, <1>2
<1>4. i > 1 => i - 1 \in DOMAIN s
  BY <1>1
<1>5. CASE i > 1
  <2>1. s[i - 1].cat = s[i].cat <=> N[i - 1].cat = N[i].cat
    BY <1>3, <1>4, <1>5 DEF NamesDiffer
  <2> QED
    BY <1>3, <1>4, <1>5, <2>1 DEF Successive, N
<1>6. CASE ~(i > 1)
  BY <1>6 DEF Successive
<1> QED
  BY <1>5, <1>6

LEMMA LatestGives ==
  ASSUME NamesDiffer, NEW s, NEW S, Gives(s, S, TRUE)
  PROVE  Gives(LatestOf(s), T!Latest(S), TRUE)
<1> DEFINE I == {i \in DOMAIN s : ~Successive(s, i)}
           N == Named(s)
<1>1. Gives(Picked(s, I), {N[i] : i \in I}, TRUE)
  BY PickedGives
<1>2. /\ S = {N[i] : i \in DOMAIN s} /\ S \subseteq Disk /\ DOMAIN s = 1..Len(s) /\ Len(s) \in Nat
      /\ DOMAIN N = DOMAIN s
  BY GivesAll
<1>3. Once(N) /\ Ascends(N)
  BY DEF Gives
<1>4. \A i \in DOMAIN s : Successive(s, i) <=> /\ i > 1 /\ i - 1 \in DOMAIN s
                                               /\ N[i - 1].cat = N[i].cat
                                               /\ N[i - 1].pn = N[i].pn
  BY SuccessiveIs
<1> HIDE DEF N
<1>5. \A i \in DOMAIN s : N[i] \in Disk /\ N[i].cat \in Nat /\ N[i].pn \in Nat /\ N[i].ver \in Nat
  BY <1>2, DiskOrder
<1>6. \A i, j \in DOMAIN s : i < j => Earlier(N[i], N[j])
  BY <1>2, <1>3 DEF Ascends
<1>7. ASSUME NEW i \in DOMAIN s, Successive(s, i)
      PROVE  N[i] \notin T!Latest(S)
  <2>1. /\ i - 1 \in DOMAIN s /\ i - 1 < i
        /\ N[i - 1].cat = N[i].cat /\ N[i - 1].pn = N[i].pn /\ N[i - 1] \in S
    BY <1>2, <1>4, <1>7
  <2>2. N[i - 1].ver > N[i].ver
    BY <1>5, <1>6, <2>1 DEF Earlier, PkgLess
  <2> QED
    BY <2>1, <2>2 DEF T!Latest
<1>8. ASSUME NEW i \in DOMAIN s, NEW j \in DOMAIN s,
             N[j].cat = N[i].cat, N[j].pn = N[i].pn, N[j].ver > N[i].ver
      PROVE  Successive(s, i)
  <2>1. i \in Nat /\ j \in Nat /\ i # j
    BY <1>2, <1>5, <1>8
  <2>2. ~(i < j)
    <3> SUFFICES ASSUME i < j PROVE FALSE
      OBVIOUS
    <3>1. Earlier(N[i], N[j])
      BY <1>6
    <3> QED
      BY <1>5, <1>8, <3>1 DEF Earlier, PkgLess
  <2>3. i > 1 /\ i - 1 \in DOMAIN s /\ (j = i - 1 \/ j < i - 1) /\ i - 1 < i
    BY <1>2, <2>1, <2>2
  <2>4. j # i - 1 => Earlier(N[j], N[i - 1])
    BY <1>6, <2>3
  <2>5. Earlier(N[i - 1], N[i])
    BY <1>6, <2>3
  <2>6. N[i - 1].cat = N[i].cat /\ N[i - 1].pn = N[i].pn
    BY <1>5, <1>8, <2>3, <2>4, <2>5 DEF Earlier, PkgLess
  <2> QED
    BY <1>4, <2>3, <2>6
<1>9. ASSUME NEW p PROVE p \in T!Latest(S) <=> \E i \in I : p = N[i]
  <2>1. CASE p \in S
    <3>1. PICK i \in DOMAIN s : p = N[i]
      BY <1>2, <2>1
    <3>2. Successive(s, i) => p \notin T!Latest(S)
      BY <1>7, <3>1
    <3>3. ~Successive(s, i) => p \in T!Latest(S)
      BY <1>2, <1>8, <2>1, <3>1 DEF T!Latest
    <3>4. \A j \in DOMAIN s : p = N[j] => j = i
      BY <1>2, <1>3, <3>1 DEF Once
    <3> QED
      BY <3>1, <3>2, <3>3, <3>4
  <2>2. CASE p \notin S
    BY <1>2, <2>2 DEF T!Latest
  <2> QED
    BY <2>1, <2>2
<1>10. T!Latest(S) = {N[i] : i \in I}
  <2> HIDE DEF I
  <2> QED
    BY <1>9
<1> QED
  BY <1>1, <1>10 DEF LatestOf

LEMMA LatestOfFirst ==
  ASSUME NEW S \in SUBSET Disk
  PROVE  T!Latest(T!First(S)) = T!First(S)
<1>1. ASSUME NEW p \in T!First(S), NEW q \in T!First(S), q.cat = p.cat, q.pn = p.pn, q.ver > p.ver
      PROVE  FALSE
  <2>1. p \in S /\ q \in S /\ p \in Disk /\ q \in Disk
    BY DEF T!First
  <2>2. p # q
    BY <1>1, <2>1, DiskOrder
  <2>3. T!Precedes(p, q)
    BY <2>1, <2>2 DEF T!First
  <2> QED
    BY <1>1, <2>1, <2>3, DiskOrder DEF Earlier, PkgLess
<1> QED
  BY <1>1 DEF T!Latest

\* What was called back for a request is reduced to its answer.
LEMMA ReducedAnswers ==
  ASSUME CacheTyped, NamesDiffer, NEW r, NEW s, Gives(s, AskedOf(r), Sorting(r))
  PROVE  LET N == Named(Reduced(r.flags, s)) IN N \in Seq(Disk) /\ T!Answers(r, N)
<1> DEFINE M == T!Matching(r)
           K == Kept(r.flags, s)
           F == IF "first" \in r.flags THEN FirstOf(K) ELSE K
           A == Reduced(r.flags, s)
<1>1. Gives(K, M, Sorting(r))
  BY KeptGives
<1>2. A = IF "latest" \in r.flags THEN LatestOf(F) ELSE F
  BY DEF Reduced
<1>3. "first" \in r.flags \/ "latest" \in r.flags => Sorting(r)
  BY DEF Sorting
<1>4. M \in SUBSET Disk
  BY DEF T!Matching
<1> HIDE DEF M, K, A
<1>5. Gives(F, IF "first" \in r.flags THEN T!First(M) ELSE M, Sorting(r))
  <2>1. CASE "first" \in r.flags
    <3>1. Sorting(r) = TRUE
      BY <1>3, <2>1 DEF Sorting
    <3> QED
      BY <1>1, <2>1, <3>1, FirstGives
  <2>2. CASE "first" \notin r.flags
    BY <1>1, <2>2
  <2> QED
    BY <2>1, <2>2
<1> HIDE DEF F
<1>6. Gives(A, T!Wanted(r), Sorting(r))
  <2>1. T!Wanted(r) = IF "first" \in r.flags THEN T!First(M)
                      ELSE IF "latest" \in r.flags THEN T!Latest(M) ELSE M
    BY DEF T!Wanted, M
  <2>2. CASE "latest" \in r.flags
    <3>1. Sorting(r) = TRUE
      BY <1>3, <2>2 DEF Sorting
    <3>2. Gives(LatestOf(F), T!Latest(IF "first" \in r.flags THEN T!First(M) ELSE M), TRUE)
      BY <1>5, <3>1, LatestGives
    <3>3. T!Latest(T!First(M)) = T!First(M)
      BY <1>4, LatestOfFirst
    <3> QED
      BY <1>2, <2>1, <2>2, <3>1, <3>2, <3>3
  <2>3. CASE "latest" \notin r.flags
    BY <1>2, <1>5, <2>1, <2>3
  <2> QED
    BY <2>2, <2>3
<1> DEFINE N == Named(A)
<1>7. /\ N \in Seq(Disk) /\ Once(N) /\ ToSet(N) = T!Wanted(r) /\ (Sorting(r) => Ascends(N))
  BY <1>6 DEF Gives
<1> HIDE DEF N
<1>8. \A i, j \in DOMAIN N : N[i] = N[j] => i = j
  BY <1>7 DEF Once
<1>9. {N[i] : i \in DOMAIN N} = T!Wanted(r)
  BY <1>7 DEF ToSet
<1>10. T!Sorted(r) => \A i, j \in DOMAIN N : i < j => T!Precedes(N[i], N[j])
  <2>1. T!Sorted(r) => Sorting(r)
    BY DEF T!Sorted, Sorting
  <2>2. \A i \in DOMAIN N : N[i] \in Disk
    BY <1>7
  <2> QED
    BY <1>7, <2>1, <2>2, DiskOrder DEF Ascends
<1>11. T!Answers(r, N)
  BY <1>8, <1>9, <1>10 DEF T!Answers
<1> QED
  BY <1>7, <1>11 DEF N, A
-----------------------------------------------------------------------------
(* What a request was told so far, and what it is still to be told.        *)

\* Where a request is in the tree.
Place(c) == IF c.at \in CatLabels THEN c.back ELSE c.at

\* p is in a category still to be visited.
Later(c, p) ==
  \/ Place(c) \in {"tree", "blocks"}
  \/ Place(c) = "catdir" /\ (Sorting(c.request) \/ p.cat \in c.names)
  \/ /\ Place(c) = "catlist"
     /\ \E k \in DOMAIN cats.elems : k >= c.item /\ ctx[cats.elems[k]].name = p.cat

\* p is in the category that is visited, and still to be called back.
Here(c, p) ==
  /\ c.at \in CatLabels /\ p.cat = ctx[c.cat].name
  /\ \/ c.at = "cat"
     \/ c.at = "pkgdir" /\ (Sorting(c.request) \/ p \in c.files \/ p.pn \in c.dirs)
     \/ /\ c.at \in {"hits", "pkglist"}
        /\ \E k \in DOMAIN ctx[c.cat].pkgs.elems :
             k >= c.elem /\ ctx[c.cat].pkgs.elems[k] = PlainOf(p)

Left(c, p) == Later(c, p) \/ Here(c, p)
Rest(c) == {p \in AskedOf(c.request) : Left(c, p)}

\* N has all that r asks for except R, which comes after it.
Told(N, r, R) ==
  /\ N \in Seq(Disk) /\ Once(N) /\ R \subseteq AskedOf(r) /\ ToSet(N) = AskedOf(r) \ R
  /\ Sorting(r) => Ascends(N) /\ \A p \in ToSet(N), q \in R : Earlier(p, q)

OutOk(c) == c.out \in Seq(Outs) /\ Told(Named(c.out), c.request, Rest(c))

\* Where the request is in the array of categories.
CatPlace(c) ==
  /\ Place(c) \in {"catdir", "catlist"} => c.request.query.cat = Absent
  /\ Place(c) = "catlist" => complete /\ (Sorting(c.request) => cats.sorted)
  /\ Place(c) = "catdir" => ~complete
  /\ c.at \in CatLabels =>
       /\ c.request.query.cat \in {Absent, ctx[c.cat].name}
       /\ c.back = "catlist" => c.item - 1 \in DOMAIN cats.elems /\ cats.elems[c.item - 1] = c.cat
       /\ c.back = "catdir" => ctx[c.cat].name \notin c.names /\ ~Sorting(c.request)

\* Where it is in the array of packages of a category.
PkgPlace(c) ==
  LET pkgs == ctx[c.cat].pkgs
      query == c.request.query
  IN  /\ c.at = "hits" =>
           /\ pkgs.sorted /\ query.pn # Absent
           /\ \A k \in DOMAIN pkgs.elems : k >= c.elem => pkgs.elems[k].pn >= query.pn
      /\ c.at = "pkglist" => query.pn = Absent /\ (Sorting(c.request) => pkgs.sorted)
      /\ c.at \in {"hits", "pkglist"} => c.elem # 0 /\ (kind # "ebuild" => ctx[c.cat].complete)
      /\ c.at = "pkgdir" /\ ~c.found =>
           \A p \in AskedOf(c.request) :
             p.cat = ctx[c.cat].name => p \in c.files \/ p.pn \in c.dirs

TopInv(c) == AtomLike(c.request.query) /\ OutOk(c) /\ CatPlace(c) /\ PkgPlace(c)

-----------------------------------------------------------------------------
\* Categories keep their names.
NamesKept == Ids \subseteq Ids' /\ \A x \in Ids : ctx'[x].name = ctx[x].name

LEMMA NamedKept ==
  ASSUME NamesKept, NEW s \in Seq(Outs)
  PROVE  s \in Seq(Outs') /\ Named(s)' = Named(s)
<1>1. Len(s) \in Nat /\ DOMAIN s = 1..Len(s) /\ \A i \in 1..Len(s) : s[i] \in Outs
  BY NamedIs
<1>2. \A x \in Outs : x \in Outs' /\ x.cat \in Ids
  BY DEF Outs, NamesKept
<1>3. \A i \in 1..Len(s) : s[i] \in Outs' /\ ctx'[s[i].cat].name = ctx[s[i].cat].name
  BY <1>1, <1>2 DEF NamesKept
<1>4. s \in Seq(Outs')
  <2>1. s = [i \in 1..Len(s) |-> s[i]]
    OBVIOUS
  <2>2. \A i \in 1..Len(s) : s[i] \in Outs'
    BY <1>3
  <2> HIDE DEF Outs
  <2> QED
    BY <1>1, <2>1, <2>2
<1>5. Named(s)' = Named(s)
  BY <1>1, <1>3 DEF Named
<1> QED
  BY <1>4, <1>5

LEMMA ToldMore ==
  ASSUME NEW N, NEW r, NEW R, Told(N, r, R), NEW q \in R,
         Sorting(r) => \A p \in R \ {q} : Earlier(q, p)
  PROVE  Told(Append(N, q), r, R \ {q})
<1> DEFINE M == Append(N, q)
<1>1. /\ N \in Seq(Disk) /\ Once(N) /\ R \subseteq AskedOf(r) /\ ToSet(N) = AskedOf(r) \ R
      /\ Sorting(r) => Ascends(N) /\ \A p \in ToSet(N), x \in R : Earlier(p, x)
  BY DEF Told
<1>2. q \in Disk /\ q \notin ToSet(N) /\ Len(N) \in Nat
  BY <1>1 DEF AskedOf
<1>3. M \in Seq(Disk) /\ Len(M) = Len(N) + 1 /\ DOMAIN M = 1..(Len(N) + 1) /\ M[Len(N) + 1] = q
      /\ DOMAIN N = 1..Len(N) /\ \A i \in 1..Len(N) : M[i] = N[i] /\ N[i] \in ToSet(N)
  BY <1>1, <1>2 DEF ToSet
<1> HIDE DEF M
<1>4. \A i \in 1..(Len(N) + 1) : i \in 1..Len(N) \/ i = Len(N) + 1
  BY <1>2
<1>5. Once(M)
  BY <1>1, <1>2, <1>3, <1>4 DEF Once
<1>6. ToSet(M) = ToSet(N) \cup {q}
  <2>1. ToSet(M) = {M[i] : i \in 1..(Len(N) + 1)} /\ ToSet(N) = {N[i] : i \in 1..Len(N)}
    BY <1>3 DEF ToSet
  <2>2. \A i \in 1..Len(N) : i \in 1..(Len(N) + 1)
    BY <1>2
  <2>3. Len(N) + 1 \in 1..(Len(N) + 1)
    BY <1>2
  <2> SUFFICES ASSUME NEW x PROVE x \in ToSet(M) <=> x \in ToSet(N) \/ x = q
    OBVIOUS
  <2> QED
    BY <1>3, <1>4, <2>1, <2>2, <2>3
<1>7. ToSet(M) = AskedOf(r) \ (R \ {q})
  BY <1>1, <1>6
<1>8. ASSUME Sorting(r) PROVE Ascends(M) /\ \A p \in ToSet(M), x \in R \ {q} : Earlier(p, x)
  <2>1. Ascends(N) /\ \A p \in ToSet(N), x \in R : Earlier(p, x)
    BY <1>1, <1>8
  <2>2. \A i \in 1..Len(N) : Earlier(N[i], q)
    BY <1>3, <2>1
  <2>3. ASSUME NEW i \in DOMAIN M, NEW j \in DOMAIN M, i < j PROVE Earlier(M[i], M[j])
    <3>1. i \in 1..Len(N)
      BY <1>2, <1>3, <2>3
    <3> QED
      BY <1>3, <1>4, <2>1, <2>2, <2>3, <3>1 DEF Ascends
  <2>4. Ascends(M)
    BY <2>3 DEF Ascends
  <2> QED
    BY <1>6, <1>8, <2>1, <2>4
<1> QED
  BY <1>1, <1>3, <1>5, <1>7, <1>8 DEF Told, M

\* Nothing was called back, and nothing else is left.
LEMMA TellSame ==
  ASSUME NamesKept, NEW b, NEW c, c.request = b.request, c.out = b.out, OutOk(b),
         \A p \in AskedOf(b.request) : Left(c, p)' <=> Left(b, p)
  PROVE  OutOk(c)'
<1>1. b.out \in Seq(Outs) /\ Told(Named(b.out), b.request, Rest(b))
  BY DEF OutOk
<1>2. c.out \in Seq(Outs)' /\ Named(c.out)' = Named(b.out)
  BY <1>1, NamedKept
<1>3. Rest(c)' = Rest(b)
  BY DEF Rest, AskedOf
<1>4. Told(Named(c.out)', c.request, Rest(c)')
  BY <1>1, <1>2, <1>3
<1> QED
  BY <1>2, <1>4 DEF OutOk, Told, AskedOf, Ascends, Earlier, PkgLess

\* o, which is the package q, was called back.
LEMMA TellOne ==
  ASSUME NamesKept, NEW c, c.request = Call.request, OutOk(Call),
         NEW o \in Outs, c.out = Append(Call.out, o), NEW q, q = NameOf(o), q \in AskedOf(Call.request),
         Left(Call, q), ~Left(c, q)',
         \A p \in AskedOf(Call.request) : p # q => (Left(c, p)' <=> Left(Call, p)),
         Sorting(Call.request) => \A p \in AskedOf(Call.request) : p # q /\ Left(Call, p) => Earlier(q, p)
  PROVE  OutOk(c)'
<1>1. Call.out \in Seq(Outs) /\ Told(Named(Call.out), Call.request, Rest(Call))
  BY DEF OutOk
<1>2. c.out \in Seq(Outs)
  BY <1>1
<1>3. c.out \in Seq(Outs)' /\ Named(c.out)' = Named(c.out)
  BY <1>2, NamedKept
<1>4. Named(c.out) = Append(Named(Call.out), q)
  <2>1. /\ Len(Call.out) \in Nat /\ DOMAIN Named(Call.out) = 1..Len(Call.out)
        /\ Len(Named(Call.out)) = Len(Call.out) /\ DOMAIN Call.out = 1..Len(Call.out)
        /\ \A i \in 1..Len(Call.out) : Named(Call.out)[i] = NameOf(Call.out[i])
    BY <1>1, NamedIs
  <2>2. DOMAIN Named(c.out) = 1..Len(c.out) /\ \A i \in 1..Len(c.out) : Named(c.out)[i] = NameOf(c.out[i])
    BY <1>2, NamedIs
  <2>3. Len(c.out) = Len(Call.out) + 1 /\ c.out[Len(Call.out) + 1] = o
        /\ \A i \in 1..Len(Call.out) : c.out[i] = Call.out[i]
    BY <1>1
  <2> DEFINE A == Append(Named(Call.out), q)
  <2>4. Named(Call.out) \in Seq(Disk) /\ q \in Disk
    BY <1>1 DEF Told, AskedOf
  <2>5. /\ A \in Seq(Disk) /\ Len(A) = Len(Call.out) + 1 /\ DOMAIN A = 1..(Len(Call.out) + 1)
        /\ A[Len(Call.out) + 1] = q /\ \A i \in 1..Len(Call.out) : A[i] = Named(Call.out)[i]
    BY <2>1, <2>4
  <2>6. \A i \in 1..(Len(Call.out) + 1) : i \in 1..Len(Call.out) \/ i = Len(Call.out) + 1
    BY <2>1
  <2> HIDE DEF A
  <2>7. \A i \in 1..(Len(Call.out) + 1) : Named(c.out)[i] = A[i]
    BY <2>1, <2>2, <2>3, <2>5, <2>6
  <2>8. Named(c.out) = [i \in 1..(Len(Call.out) + 1) |-> Named(c.out)[i]]
    BY <2>2, <2>3 DEF Named
  <2>9. A = [i \in 1..(Len(Call.out) + 1) |-> A[i]]
    BY <2>5
  <2> QED
    BY <2>7, <2>8, <2>9 DEF A
<1>5. q \in Rest(Call) /\ Rest(c)' = Rest(Call) \ {q}
  BY DEF Rest, AskedOf
<1>6. Sorting(Call.request) => \A p \in Rest(Call) \ {q} : Earlier(q, p)
  BY DEF Rest
<1>7. Told(Append(Named(Call.out), q), Call.request, Rest(Call) \ {q})
  BY <1>1, <1>5, <1>6, ToldMore
<1>8. Told(Named(c.out)', c.request, Rest(c)')
  BY <1>3, <1>4, <1>5, <1>7
<1> QED
  BY <1>3, <1>8 DEF OutOk, Told, AskedOf, Ascends, Earlier, PkgLess
-----------------------------------------------------------------------------
(* Steps inside a category, and steps that change the cache.               *)

\* c goes on in the category that is visited, or leaves it.
Inside(c) ==
  /\ Call.at \in CatLabels /\ Call.cat \in Ids /\ Call.back \in {"done", "catlist", "catdir"}
  /\ c.request = Call.request /\ c.back = Call.back /\ c.names = Call.names /\ c.item = Call.item
  /\ (c.at \in CatLabels /\ c.cat = Call.cat) \/ c.at = Call.back
  /\ cats' = cats /\ complete' = complete /\ kind' = kind /\ Ids' = Ids /\ NamesKept

LEMMA CatsElems ==
  ASSUME CacheTyped
  PROVE  /\ Len(cats.elems) \in Nat /\ DOMAIN cats.elems = 1..Len(cats.elems)
         /\ \A k \in DOMAIN cats.elems : cats.elems[k] \in Ids
         /\ \A x \in Ids : \E k \in DOMAIN cats.elems : cats.elems[k] = x
         /\ \A j, k \in DOMAIN cats.elems : cats.elems[j] = cats.elems[k] => j = k
<1>1. cats.elems \in Seq(Ids) /\ Once(cats.elems) /\ ToSet(cats.elems) = Ids
  BY DEF CacheTyped
<1>2. \A x \in Ids : \E k \in DOMAIN cats.elems : cats.elems[k] = x
  BY <1>1 DEF ToSet
<1>3. \A j, k \in DOMAIN cats.elems : cats.elems[j] = cats.elems[k] => j = k
  BY <1>1 DEF Once
<1> HIDE DEF Ids
<1> QED
  BY <1>1, <1>2, <1>3

LEMMA InsidePlace ==
  ASSUME CacheTyped, NEW c, Inside(c), CatPlace(Call)
  PROVE  /\ \A p : Later(c, p)' <=> Later(Call, p)
         /\ CatPlace(c)'
<1>1. Place(c) = Place(Call) /\ Place(Call) = Call.back
  BY DEF Place, Inside, CatLabels
<1>2. \A k \in DOMAIN cats.elems : cats.elems[k] \in Ids
  BY CatsElems
<1>3. \A k \in DOMAIN cats.elems : ctx'[cats.elems[k]].name = ctx[cats.elems[k]].name
  BY <1>2 DEF Inside, NamesKept
<1>4. ASSUME NEW p PROVE Later(c, p)' <=> Later(Call, p)
  BY <1>1, <1>3 DEF Later, Place, Inside, Sorting
<1>5. CatPlace(c)'
  <2>1. c.at \in CatLabels => c.cat = Call.cat
    BY DEF Inside, CatLabels
  <2>2. ctx'[Call.cat].name = ctx[Call.cat].name /\ cats' = cats /\ complete' = complete
    BY DEF Inside, NamesKept
  <2>3. Place(c)' = Call.back
    BY <1>1 DEF Place
  <2> QED
    BY <1>1, <2>1, <2>2, <2>3 DEF CatPlace, Inside
<1> QED
  BY <1>4, <1>5

\* What is left elsewhere is not in the category that is visited, and after it in order.
LEMMA ElsewhereIs ==
  ASSUME CacheTyped, FlagsTrue, NamesDiffer, CatPlace(Call), Call.at \in CatLabels, Call.cat \in Ids,
         Call.back \in {"done", "catlist", "catdir"}, Call.item \in Nat, NEW p \in Disk, Later(Call, p)
  PROVE  /\ p.cat # ctx[Call.cat].name
         /\ Sorting(Call.request) => ctx[Call.cat].name < p.cat
<1>1. Place(Call) = Call.back
  BY DEF Place
<1>2. CASE Call.back = "catdir"
  BY <1>1, <1>2 DEF Later, CatPlace
<1>3. CASE Call.back = "catlist"
  <2> DEFINE s == cats.elems
             j == Call.item - 1
  <2>1. PICK k \in DOMAIN s : k >= Call.item /\ ctx[s[k]].name = p.cat
    BY <1>1, <1>3 DEF Later
  <2>2. j \in DOMAIN s /\ s[j] = Call.cat /\ (Sorting(Call.request) => cats.sorted)
    BY <1>1, <1>3 DEF CatPlace
  <2>3. DOMAIN s = 1..Len(s) /\ Len(s) \in Nat /\ s[k] \in Ids
        /\ \A i, l \in DOMAIN s : s[i] = s[l] => i = l
    BY CatsElems
  <2>4. j < k /\ j # k
    BY <2>1, <2>2, <2>3
  <2>5. s[k] # Call.cat
    BY <2>2, <2>3, <2>4
  <2>6. p.cat # ctx[Call.cat].name
    BY <2>1, <2>3, <2>5 DEF NamesDiffer
  <2>7. cats.sorted => ctx[s[j]].name <= ctx[s[k]].name
    BY <2>2, <2>4 DEF FlagsTrue
  <2>8. ctx[s[k]].name \in Nat /\ ctx[Call.cat].name \in Nat
    BY <2>3, CtxFacts
  <2> HIDE DEF s, j
  <2> QED
    BY <2>1, <2>2, <2>6, <2>7, <2>8
<1>4. CASE Call.back = "done"
  BY <1>1, <1>4 DEF Later
<1> QED
  BY <1>2, <1>3, <1>4

LEMMA Leaving ==
  ASSUME CacheTyped, TopInv(Call), NEW c, Inside(c), c.at = Call.back, c.out = Call.out,
         \A p \in AskedOf(Call.request) : ~Here(Call, p)
  PROVE  TopInv(c)'
<1>1. c.at \notin CatLabels /\ c.request = Call.request /\ NamesKept
  BY DEF Inside, CatLabels
<1>2. (\A p : Later(c, p)' <=> Later(Call, p)) /\ CatPlace(c)'
  BY InsidePlace DEF TopInv
<1>3. \A p : ~Here(c, p)'
  BY <1>1 DEF Here
<1>4. OutOk(c)'
  BY <1>1, <1>2, <1>3, TellSame DEF TopInv, Left
<1>5. PkgPlace(c)'
  BY <1>1 DEF PkgPlace, CatLabels
<1> QED
  BY <1>1, <1>2, <1>4, <1>5 DEF TopInv, AtomLike

LEMMA Staying ==
  ASSUME CacheTyped, TopInv(Call), NEW c, Inside(c), c.out = Call.out,
         \A p \in AskedOf(Call.request) : p.cat = ctx[Call.cat].name => (Here(c, p)' <=> Here(Call, p)),
         c.at \in CatLabels, PkgPlace(c)'
  PROVE  TopInv(c)'
<1>1. c.cat = Call.cat /\ c.request = Call.request /\ NamesKept /\ ctx'[c.cat].name = ctx[Call.cat].name
  BY DEF Inside, CatLabels, NamesKept
<1>2. (\A p : Later(c, p)' <=> Later(Call, p)) /\ CatPlace(c)'
  BY InsidePlace DEF TopInv
<1>3. \A p \in AskedOf(Call.request) : Here(c, p)' <=> Here(Call, p)
  <2>1. \A p : p.cat # ctx[Call.cat].name => ~Here(c, p)' /\ ~Here(Call, p)
    BY <1>1 DEF Here
  <2> QED
    BY <2>1
<1>4. OutOk(c)'
  BY <1>1, <1>2, <1>3, TellSame DEF TopInv, Left
<1> QED
  BY <1>1, <1>2, <1>4 DEF TopInv, AtomLike

LEMMA Telling ==
  ASSUME CacheTyped, FlagsTrue, NamesDiffer, TopInv(Call), Call.item \in Nat, NEW c, Inside(c),
         NEW q \in AskedOf(Call.request), q.cat = ctx[Call.cat].name, c.out = OneMore(Call.out, q),
         Here(Call, q), ~Here(c, q)',
         \A p \in AskedOf(Call.request) :
           p.cat = ctx[Call.cat].name /\ p # q => (Here(c, p)' <=> Here(Call, p)),
         Sorting(Call.request) =>
           \A p \in AskedOf(Call.request) : p # q /\ Here(Call, p) => Earlier(q, p),
         c.at \in CatLabels, PkgPlace(c)'
  PROVE  TopInv(c)'
<1> DEFINE o == [cat |-> Call.cat, pn |-> q.pn, ver |-> q.ver]
<1>1. c.cat = Call.cat /\ c.request = Call.request /\ NamesKept /\ ctx'[c.cat].name = ctx[Call.cat].name
      /\ Call.at \in CatLabels /\ Call.cat \in Ids /\ Call.back \in {"done", "catlist", "catdir"}
  BY DEF Inside, CatLabels, NamesKept
<1>2. (\A p : Later(c, p)' <=> Later(Call, p)) /\ CatPlace(c)'
  BY InsidePlace DEF TopInv
<1>3. AskedOf(Call.request) \subseteq Disk /\ CatPlace(Call) /\ OutOk(Call) /\ AtomLike(Call.request.query)
  BY DEF AskedOf, TopInv
<1>4. \A p \in AskedOf(Call.request) : Later(Call, p) =>
        p.cat # ctx[Call.cat].name /\ (Sorting(Call.request) => ctx[Call.cat].name < p.cat)
  BY <1>1, <1>3, ElsewhereIs
<1>5. \A p \in AskedOf(Call.request) : p # q => (Here(c, p)' <=> Here(Call, p))
  <2>1. \A p : p.cat # ctx[Call.cat].name => ~Here(c, p)' /\ ~Here(Call, p)
    BY <1>1 DEF Here
  <2> QED
    BY <2>1
<1>6. q \in Disk /\ q = [cat |-> q.cat, pn |-> q.pn, ver |-> q.ver] /\ q.pn \in Nat /\ q.ver \in Nat
  BY <1>3, CacheAssumption
<1>7. o \in Outs /\ NameOf(o) = q /\ c.out = Append(Call.out, o)
  BY <1>1, <1>6 DEF Outs, NameOf, OneMore
<1>8. Left(Call, q) /\ ~Left(c, q)'
  BY <1>2, <1>4 DEF Left
<1>9. \A p \in AskedOf(Call.request) : p # q => (Left(c, p)' <=> Left(Call, p))
  BY <1>2, <1>5 DEF Left
<1>10. Sorting(Call.request) => \A p \in AskedOf(Call.request) : p # q /\ Left(Call, p) => Earlier(q, p)
  <2>1. \A p : q.cat < p.cat => Earlier(q, p)
    BY DEF Earlier
  <2> QED
    BY <1>4, <2>1 DEF Left
<1> HIDE DEF o
<1>11. OutOk(c)'
  BY <1>1, <1>3, <1>7, <1>8, <1>9, <1>10, TellOne
<1> QED
  BY <1>1, <1>2, <1>3, <1>11 DEF TopInv, AtomLike
\* The request that was worked on is c, and what it was told is in order.
Fine(c) == (Proceeds(c) \/ Nests(c)) /\ TopInv(c)'

LEMMA ChangedKeeps ==
  ASSUME NEW c, NEW d, NEW F, Changed(c, d, F),
         F \subseteq {"at", "elem", "out", "files", "dirs", "found", "knownPkgs"}
  PROVE  /\ d.request = c.request /\ d.back = c.back /\ d.names = c.names /\ d.item = c.item
         /\ d.cat = c.cat
         /\ "out" \notin F => d.out = c.out
BY DEF Changed, CallFields

LEMMA CtxMovedNames ==
  ASSUME CtxMoved
  PROVE  Ids' = Ids /\ NamesKept
BY DEF CtxMoved, NamesKept, Ids

LEMMA InsideIs ==
  ASSUME FlagsInv, NEW label, At(label), label \in CatLabels, CtxMoved,
         kind' = kind, complete' = complete, cats' = cats, NEW c, NEW F, Changed(Call, c, F),
         F \subseteq {"at", "elem", "out", "files", "dirs", "found", "knownPkgs"},
         c.at \in CatLabels \/ c.at = Call.back
  PROVE  Inside(c)
<1>1. Call.at = label /\ Call.cat \in Ids /\ CallTyped(Call, Len(ctx))
  BY AtFacts
<1>2. Call.back \in {"done", "catlist", "catdir"}
  BY <1>1 DEF CallTyped
<1>3. /\ c.request = Call.request /\ c.back = Call.back /\ c.names = Call.names /\ c.item = Call.item
      /\ c.cat = Call.cat
  BY ChangedKeeps
<1>4. Ids' = Ids /\ NamesKept
  BY CtxMovedNames
<1> QED
  BY <1>1, <1>2, <1>3, <1>4 DEF Inside

\* The packages of a category, and what they are in the tree.
LEMMA ElemsAre ==
  ASSUME FlagsInv, HeldInv, NEW x \in Ids
  PROVE  LET s == ctx[x].pkgs.elems IN
         /\ Len(s) \in Nat /\ DOMAIN s = 1..Len(s)
         /\ \A j, k \in DOMAIN s : s[j] = s[k] => j = k
         /\ \A k \in DOMAIN s : s[k] \in Plains /\ s[k].pn \in Nat /\ s[k].ver \in Nat
         /\ \A k \in DOMAIN s : LET q == [cat |-> ctx[x].name, pn |-> s[k].pn, ver |-> s[k].ver]
                                IN  q \in Disk /\ PlainOf(q) = s[k] /\ q \in Held(x)
<1> DEFINE s == ctx[x].pkgs.elems
<1>1. CacheTyped /\ PkgsOf(x)
  BY PkgsInvIs DEF FlagsInv, HeldInv
<1>2. s \in Seq(Plains) /\ Once(s) /\ ToSet(s) \subseteq Plain(InDir(ctx[x]))
  BY <1>1, CtxFacts DEF PkgsOf
<1> HIDE DEF s
<1>3. Len(s) \in Nat /\ DOMAIN s = 1..Len(s) /\ \A k \in DOMAIN s : s[k] \in Plains /\ s[k] \in ToSet(s)
  BY <1>2 DEF ToSet
<1>4. \A r \in Plains : r.pn \in Nat /\ r.ver \in Nat
  BY DEF Plains
<1>5. ASSUME NEW k \in DOMAIN s
      PROVE  LET q == [cat |-> ctx[x].name, pn |-> s[k].pn, ver |-> s[k].ver]
             IN  q \in Disk /\ PlainOf(q) = s[k] /\ q \in Held(x)
  <2>1. PICK p \in InDir(ctx[x]) : s[k] = PlainOf(p)
    BY <1>2, <1>3 DEF Plain, PlainOf
  <2>2. p \in Disk /\ p.cat = ctx[x].name
    BY InDirMember
  <2>3. p = [cat |-> p.cat, pn |-> p.pn, ver |-> p.ver] /\ s[k].pn = p.pn /\ s[k].ver = p.ver
    BY <2>1, <2>2, CacheAssumption DEF PlainOf
  <2>4. p \in Held(x)
    BY <1>3, <2>1, HeldMember DEF s
  <2> QED
    BY <2>1, <2>2, <2>3, <2>4
<1> QED
  BY <1>2, <1>3, <1>4, <1>5 DEF s, Once

\* The search finds the first package of the name.
LEMMA FindPkgFirst ==
  ASSUME CacheTyped, FlagsTrue, NEW x \in Ids, NEW pn, FindPkg(x, pn) # 0
  PROVE  LET t == SortedPkgs(x).elems IN
         /\ FindPkg(x, pn) \in DOMAIN t /\ t[FindPkg(x, pn)].pn = pn
         /\ \A k \in DOMAIN t : t[k].pn = pn => FindPkg(x, pn) <= k
<1> DEFINE t == SortedPkgs(x).elems
           I == {i \in 1..Len(t) : t[i].pn = pn}
<1>1. t \in Seq(Plains)
  BY SortedPkgsFacts
<1>2. FindPkg(x, pn) = IF I # {} THEN Min(I) ELSE 0
  BY DEF FindPkg, SelectInSeq
<1>3. DOMAIN t = 1..Len(t)
  BY <1>1
<1>4. I \in SUBSET Nat
  OBVIOUS
<1> HIDE DEF t
<1>5. I # {} => Min(I) \in I /\ \A i \in I : Min(I) <= i
  <2> HIDE DEF I
  <2> QED
    BY <1>4, LeastOf
<1>6. FindPkg(x, pn) \in I /\ \A i \in I : FindPkg(x, pn) <= i
  <2> HIDE DEF I
  <2> QED
    BY <1>2, <1>5
<1> QED
  BY <1>3, <1>6 DEF t

\* Only an ebuild tree has packages in a category that was not read as a whole.
LEMMA CompleteIs ==
  ASSUME FlagsInv, HeldInv, calls # <<>>, Settled(Call), NEW x \in Ids, Held(x) # {}, kind # "ebuild"
  PROVE  ctx[x].complete
<1>1. ~Loading /\ ~Reading(x)
  BY HereLabels DEF Settled
<1>2. PkgsOf(x) /\ FileInv
  BY PkgsInvIs DEF HeldInv
<1>3. kind \in {"vdb", "packages", "gtree"}
  BY CacheAssumption DEF FlagsInv, CacheTyped
<1>4. CASE FromFile
  BY <1>1, <1>2, <1>4 DEF FileInv
<1>5. CASE ~FromFile
  BY <1>1, <1>2, <1>3, <1>5 DEF PkgsOf, FromFile
<1> QED
  BY <1>4, <1>5

\* A package that is asked for.
LEMMA AskedIs ==
  ASSUME NEW r, NEW p \in AskedOf(r)
  PROVE  /\ p \in Disk /\ p.cat \in Categories /\ PlainOf(p).pn = p.pn /\ PlainOf(p).ver = p.ver
         /\ r.query.cat # Absent => p.cat = r.query.cat
         /\ r.query.pn # Absent => p.pn = r.query.pn
         /\ r.query.ver # Absent => p.ver = r.query.ver
<1>1. p \in Disk /\ Fitting(r.query, p)
  BY DEF AskedOf
<1>2. p.cat \in Categories
  BY <1>1, CacheAssumption
<1> QED
  BY <1>1, <1>2 DEF Fitting, PlainOf

LEMMA EnterHitsAnswers ==
  ASSUME FlagsInv, HeldInv, TopInv(Call), EnterHits
  PROVE  \E c : Fine(c)
<1> DEFINE id == Call.cat
           t == SortedPkgs(id).elems
           A == AskedOf(Call.request)
<1>1. PICK c : QuietStep(c) /\ Starts(c, "hits", Hit)
  BY EnterHitsStep
<1>2. At("cat") /\ Hit # 0 /\ PkgsPut(id, Searched) /\ cats' = cats /\ complete' = complete /\ kind' = kind
  BY DEF EnterHits, PkgsPut
<1>3. CacheTyped /\ CallsTyped /\ FlagsTrue /\ id \in Ids /\ calls # <<>> /\ Call.at = "cat"
  BY <1>2, AtFacts DEF CatLabels
<1>4. Query.pn # Absent /\ Hit = FindPkg(id, Query.pn) /\ Searched = SortedPkgs(id)
  BY <1>2 DEF Hit, FilterName, Searched
<1>5. CtxMoved /\ ctx'[id].pkgs = SortedPkgs(id) /\ ctx'[id].complete = ctx[id].complete
      /\ ctx'[id].name = ctx[id].name
  BY <1>2, <1>3, <1>4, OnePkgs
<1>6. Inside(c) /\ c.at = "hits" /\ c.elem = Hit /\ c.out = Call.out /\ c.cat = id
      /\ c.request = Call.request
  <2>1. Changed(Call, c, {"at", "elem"}) /\ c.at = "hits" /\ c.elem = Hit
    BY <1>1 DEF Starts
  <2>2. Inside(c)
    BY <1>2, <1>5, <2>1, InsideIs DEF CatLabels
  <2> QED
    BY <2>1, <2>2, ChangedKeeps
<1>7. /\ t \in Seq(Plains) /\ PkgsFlag(SortedPkgs(id)) /\ ToSet(t) = ToSet(ctx[id].pkgs.elems)
      /\ SortedPkgs(id).sorted
  <2>1. SortedPkgs(id).sorted = TRUE
    BY <1>3, CtxFacts DEF SortedPkgs, SortedBy
  <2> QED
    BY <1>3, <2>1, SortedPkgsFacts
<1>8. /\ Hit \in DOMAIN t /\ t[Hit].pn = Query.pn
      /\ \A k \in DOMAIN t : t[k].pn = Query.pn => Hit <= k
  BY <1>2, <1>3, <1>4, FindPkgFirst
<1> HIDE DEF t, A
<1>9. DOMAIN t = 1..Len(t) /\ Len(t) \in Nat /\ \A k \in DOMAIN t : t[k] \in Plains /\ t[k] \in ToSet(t)
  BY <1>7 DEF ToSet
<1>10. PkgsOf(id) /\ ~Reading(id) /\ ~Loading /\ Settled(Call)
  BY <1>3, HereLabels, PkgsInvIs DEF HeldInv, Settled
<1>11. PICK q \in Held(id) : q.pn = Query.pn
  <2>1. t[Hit] \in ToSet(ctx[id].pkgs.elems)
    BY <1>7, <1>8, <1>9
  <2>2. PICK k \in DOMAIN ctx[id].pkgs.elems : ctx[id].pkgs.elems[k] = t[Hit]
    BY <2>1 DEF ToSet
  <2> DEFINE q == [cat |-> ctx[id].name, pn |-> t[Hit].pn, ver |-> t[Hit].ver]
  <2>3. q \in Held(id)
    BY <1>3, <2>2, ElemsAre
  <2> QED
    BY <1>8, <2>3
<1>12. ASSUME NEW p \in A, p.cat = ctx[id].name
       PROVE  \E k \in DOMAIN t : k >= Hit /\ t[k] = PlainOf(p)
  <2>1. p \in InDir(ctx[id]) /\ p.pn = Query.pn /\ PlainOf(p).pn = p.pn
    BY <1>4, <1>12, AskedIs, InDirMember DEF A, Query
  <2>2. p \in Held(id)
    BY <1>10, <1>11, <2>1 DEF PkgsOf, Whole
  <2>3. PlainOf(p) \in ToSet(t)
    BY <1>7, <2>2, HeldMember
  <2>4. PICK k \in DOMAIN t : t[k] = PlainOf(p)
    BY <2>3 DEF ToSet
  <2>5. Hit <= k /\ k \in Nat /\ Hit \in Nat
    BY <1>8, <1>9, <2>1, <2>4
  <2> QED
    BY <2>4, <2>5
<1>13. \A p \in A : p.cat = ctx[id].name => (Here(c, p)' <=> Here(Call, p))
  BY <1>3, <1>5, <1>6, <1>12 DEF Here, CatLabels, t
<1>14. \A k \in DOMAIN t : k >= Hit => t[k].pn >= Query.pn
  <2> SUFFICES ASSUME NEW k \in DOMAIN t, k >= Hit PROVE t[k].pn >= Query.pn
    OBVIOUS
  <2>1. t[k].pn \in Nat /\ t[Hit].pn \in Nat /\ k \in Nat /\ Hit \in Nat
    BY <1>8, <1>9 DEF Plains
  <2>2. Hit < k => ~PkgLess(t[k], t[Hit])
    BY <1>7, <1>8 DEF PkgsFlag, t
  <2> QED
    BY <1>8, <2>1, <2>2 DEF PkgLess
<1>15. kind # "ebuild" => ctx[id].complete
  BY <1>3, <1>10, <1>11, CompleteIs
<1>16. PkgPlace(c)'
  BY <1>2, <1>4, <1>5, <1>6, <1>7, <1>14, <1>15 DEF PkgPlace, t, Query
<1>17. TopInv(c)'
  BY <1>3, <1>6, <1>13, <1>16, Staying DEF CatLabels, A
<1> QED
  BY <1>1, <1>17 DEF Fine, QuietStep
-----------------------------------------------------------------------------
(* Each step inside a category leaves the answer in order.                 *)

\* The next package of an array is called back if it is asked for.
LEMMA NextAnswers ==
  ASSUME FlagsInv, HeldInv, TopInv(Call), NEW label \in {"hits", "pkglist"}, At(label),
         ctx' = ctx, cats' = cats, kind' = kind, complete' = complete, NEW c,
         Call.elem \in DOMAIN Cat.pkgs.elems, NEW told \in BOOLEAN, Tells(c, Cat.pkgs.elems[Call.elem], told),
         told <=> [cat |-> Cat.name, pn |-> Cat.pkgs.elems[Call.elem].pn, ver |-> Cat.pkgs.elems[Call.elem].ver]
                    \in AskedOf(Call.request),
         Sorting(Call.request) => Cat.pkgs.sorted, PkgPlace(c)'
  PROVE  TopInv(c)'
<1> DEFINE id == Call.cat
           s == ctx[id].pkgs.elems
           j == Call.elem
           A == AskedOf(Call.request)
<1>0. PICK q : q = [cat |-> ctx[id].name, pn |-> s[j].pn, ver |-> s[j].ver]
  OBVIOUS
<1>1. CacheTyped /\ CallsTyped /\ FlagsTrue /\ id \in Ids /\ calls # <<>> /\ Call.at = label
      /\ CallTyped(Call, Len(ctx)) /\ label \in CatLabels
  BY AtFacts DEF CatLabels
<1>2. CtxMoved /\ NamesDiffer /\ Call.item \in Nat
  BY <1>1, CtxSame DEF HeldInv, CatsInv, NamesDiffer, CallTyped
<1>3. /\ Changed(Call, c, {"elem", "out"}) /\ c.elem = j + 1
      /\ c.out = IF told THEN OneMore(Call.out, s[j]) ELSE Call.out
  BY DEF Tells, Cat
<1>4. c.at = label /\ c.cat = id /\ c.request = Call.request
  BY <1>1, <1>3, ChangedKeeps DEF Changed, CallFields
<1>5. Inside(c)
  BY <1>1, <1>2, <1>3, <1>4, InsideIs
<1>6. /\ Len(s) \in Nat /\ DOMAIN s = 1..Len(s)
      /\ \A i, k \in DOMAIN s : s[i] = s[k] => i = k
      /\ \A k \in DOMAIN s : s[k] \in Plains /\ s[k].pn \in Nat /\ s[k].ver \in Nat
      /\ j \in DOMAIN s
  BY <1>1, ElemsAre DEF Cat
<1>7. q \in Disk /\ PlainOf(q) = s[j] /\ q.cat = ctx[id].name
  BY <1>0, <1>1, <1>6, ElemsAre
<1>8. told <=> q \in A
  BY <1>0 DEF Cat
<1>9. OneMore(Call.out, s[j]) = OneMore(Call.out, q)
  BY <1>0 DEF OneMore
<1>10. ctx[id].pkgs.sorted => \A k \in DOMAIN s : j < k => ~PkgLess(s[k], s[j])
  BY <1>1, <1>6 DEF FlagsTrue
<1>11. Sorting(Call.request) => ctx[id].pkgs.sorted
  BY DEF Cat
<1> HIDE DEF s, A
<1>12. \A p : Here(Call, p) <=> p.cat = ctx[id].name /\ \E k \in DOMAIN s : k >= j /\ s[k] = PlainOf(p)
  BY <1>1 DEF Here, CatLabels, s
<1>13. \A p : Here(c, p)' <=> p.cat = ctx[id].name /\ \E k \in DOMAIN s : k >= j + 1 /\ s[k] = PlainOf(p)
  BY <1>1, <1>4, <1>3 DEF Here, CatLabels, s
<1>14. \A k \in DOMAIN s : k \in Nat /\ (k >= j <=> k = j \/ k >= j + 1) /\ ~(j >= j + 1) /\ (k >= j + 1 => j < k)
  BY <1>6
<1>15. A \subseteq Disk
  BY DEF A, AskedOf
<1>16. \A p \in A : p.cat = ctx[id].name /\ p # q => (Here(c, p)' <=> Here(Call, p))
  <2>1. \A p \in A : p.cat = ctx[id].name /\ p # q => PlainOf(p) # s[j]
    BY <1>7, <1>15, PlainOfOne
  <2> QED
    BY <1>12, <1>13, <1>14, <2>1
<1>17. CASE told
  <2>1. Here(Call, q) /\ ~Here(c, q)'
    BY <1>6, <1>7, <1>12, <1>13, <1>14
  <2>2. ASSUME Sorting(Call.request), NEW p \in A, p # q, Here(Call, p) PROVE Earlier(q, p)
    <3>1. PICK k \in DOMAIN s : k >= j /\ s[k] = PlainOf(p)
      BY <1>12, <2>2
    <3>2. p \in Disk /\ p.cat = q.cat
      BY <1>7, <1>12, <1>15, <2>2
    <3>3. k # j
      BY <1>7, <2>2, <3>1, <3>2, PlainOfOne
    <3>4. ~PkgLess(s[k], s[j])
      BY <1>10, <1>11, <1>14, <2>2, <3>1, <3>3
    <3>5. ~PkgLess(p, q)
      BY <1>7, <3>1, <3>4 DEF PkgLess, PlainOf
    <3>6. p.pn # q.pn \/ p.ver # q.ver
      BY <1>7, <2>2, <3>2, PlainOfOne DEF PlainOf
    <3> QED
      BY <1>7, <3>2, <3>5, <3>6, DiskOrder DEF Earlier, PkgLess
  <2>3. c.out = OneMore(Call.out, q) /\ q \in A
    BY <1>3, <1>8, <1>9, <1>17 DEF s
  <2> QED
    BY <1>1, <1>2, <1>4, <1>5, <1>7, <1>16, <2>1, <2>2, <2>3, Telling DEF A
<1>18. CASE ~told
  <2>1. c.out = Call.out /\ q \notin A
    BY <1>3, <1>8, <1>18
  <2> QED
    BY <1>1, <1>4, <1>5, <1>16, <2>1, Staying DEF A
<1> QED
  BY <1>17, <1>18

LEMMA NextHitAnswers ==
  ASSUME FlagsInv, HeldInv, TopInv(Call), NextHit
  PROVE  \E c : Fine(c)
<1> DEFINE s == Cat.pkgs.elems
           e == Cat.pkgs.elems[Call.elem]
           q == [cat |-> Cat.name, pn |-> e.pn, ver |-> e.ver]
<1>1. PICK c : /\ QuietStep(c) \/ NestStep(c)
               /\ IF Call.elem <= Len(s) /\ e.pn = Query.pn
                  THEN Tells(c, e, Fits(Query, e)) ELSE Goes(c, Call.back)
  BY NextHitStep
<1>2. At("hits") /\ ctx' = ctx /\ cats' = cats /\ complete' = complete /\ kind' = kind
  BY DEF NextHit, cache
<1>3. CacheTyped /\ CallsTyped /\ FlagsTrue /\ Call.cat \in Ids /\ calls # <<>> /\ Call.at = "hits"
      /\ CallTyped(Call, Len(ctx))
  BY <1>2, AtFacts DEF CatLabels
<1>4. /\ Len(s) \in Nat /\ DOMAIN s = 1..Len(s)
      /\ \A k \in DOMAIN s : s[k].pn \in Nat /\ s[k].ver \in Nat
  BY <1>3, ElemsAre DEF Cat
<1>5. /\ Cat.pkgs.sorted /\ Query.pn # Absent /\ Call.elem # 0
      /\ \A k \in DOMAIN s : k >= Call.elem => s[k].pn >= Query.pn
      /\ kind # "ebuild" => Cat.complete
  BY <1>3 DEF TopInv, PkgPlace, Cat, Query
<1>6. Call.elem \in Nat
  BY <1>3 DEF CallTyped
<1>7. CASE Call.elem <= Len(s) /\ e.pn = Query.pn
  <2>1. Call.elem \in DOMAIN s
    BY <1>4, <1>5, <1>6, <1>7
  <2>2. Tells(c, e, Fits(Query, e)) /\ Fits(Query, e) \in BOOLEAN
    BY <1>1, <1>7 DEF Fits
  <2>3. q \in Disk
    BY <1>3, <2>1, ElemsAre DEF Cat
  <2>4. Query.cat \in {Absent, Cat.name}
    BY <1>3 DEF TopInv, CatPlace, CatLabels, Cat, Query
  <2>5. Fits(Query, e) <=> q \in AskedOf(Call.request)
    BY <2>3, <2>4 DEF Fits, Fitting, AskedOf, Query
  <2>6. c.at = "hits" /\ c.request = Call.request /\ c.cat = Call.cat /\ c.elem = Call.elem + 1
    BY <1>3, <2>2, ChangedKeeps DEF Tells, Changed, CallFields
  <2>7. \A k \in DOMAIN s : k >= Call.elem + 1 => k >= Call.elem
    BY <1>4, <1>6
  <2>8. Call.elem + 1 # 0
    BY <1>6
  <2>9. PkgPlace(c)'
    BY <1>2, <1>5, <2>6, <2>7, <2>8 DEF PkgPlace, Cat, Query
  <2>10. TopInv(c)'
    BY <1>2, <1>5, <2>1, <2>2, <2>5, <2>9, NextAnswers
  <2> QED
    BY <1>1, <2>10 DEF Fine, QuietStep, NestStep
<1>8. CASE ~(Call.elem <= Len(s) /\ e.pn = Query.pn)
  <2>1. Goes(c, Call.back)
    BY <1>1, <1>8
  <2>2. Changed(Call, c, {"at"}) /\ c.at = Call.back
    BY <2>1 DEF Goes
  <2>3. Inside(c) /\ c.out = Call.out
    BY <1>2, <1>3, <2>2, InsideIs, ChangedKeeps, CtxSame DEF CatLabels
  <2>4. ASSUME NEW p \in AskedOf(Call.request), Here(Call, p) PROVE FALSE
    <3>1. PICK k \in DOMAIN s : k >= Call.elem /\ s[k] = PlainOf(p)
      BY <1>3, <2>4 DEF Here, Cat
    <3>2. s[k].pn = Query.pn
      BY <1>5, <3>1, AskedIs DEF Query
    <3>3. Call.elem \in DOMAIN s
      BY <1>4, <1>5, <1>6, <3>1
    <3>4. e.pn # Query.pn /\ e.pn >= Query.pn /\ e.pn \in Nat /\ s[k].pn \in Nat
      BY <1>4, <1>5, <1>6, <1>8, <3>3
    <3>5. Call.elem < k \/ Call.elem = k
      BY <1>4, <1>6, <3>1
    <3>6. Call.elem < k => ~PkgLess(s[k], e)
      BY <1>3, <1>5, <3>1, <3>3 DEF FlagsTrue, Cat
    <3> QED
      BY <3>2, <3>4, <3>5, <3>6 DEF PkgLess
  <2>5. TopInv(c)'
    BY <1>3, <2>2, <2>3, <2>4, Leaving
  <2> QED
    BY <1>1, <2>5 DEF Fine, QuietStep, NestStep
<1> QED
  BY <1>7, <1>8

LEMMA NextCachedAnswers ==
  ASSUME FlagsInv, HeldInv, TopInv(Call), NextCached
  PROVE  \E c : Fine(c)
<1> DEFINE s == Cat.pkgs.elems
           e == Cat.pkgs.elems[Call.elem]
           q == [cat |-> Cat.name, pn |-> e.pn, ver |-> e.ver]
<1>1. PICK c : /\ QuietStep(c) \/ NestStep(c)
               /\ IF Call.elem <= Len(s) THEN Tells(c, e, TRUE) ELSE Goes(c, Call.back)
  BY NextCachedStep
<1>2. At("pkglist") /\ ctx' = ctx /\ cats' = cats /\ complete' = complete /\ kind' = kind
  BY DEF NextCached, cache
<1>3. CacheTyped /\ CallsTyped /\ FlagsTrue /\ Call.cat \in Ids /\ calls # <<>> /\ Call.at = "pkglist"
      /\ CallTyped(Call, Len(ctx))
  BY <1>2, AtFacts DEF CatLabels
<1>4. Len(s) \in Nat /\ DOMAIN s = 1..Len(s)
  BY <1>3, ElemsAre DEF Cat
<1>5. /\ Query.pn = Absent /\ Query.ver = Absent /\ Call.elem # 0
      /\ Sorting(Call.request) => Cat.pkgs.sorted
      /\ kind # "ebuild" => Cat.complete
  BY <1>3 DEF TopInv, PkgPlace, Cat, Query, AtomLike
<1>6. Call.elem \in Nat
  BY <1>3 DEF CallTyped
<1>7. CASE Call.elem <= Len(s)
  <2>1. Call.elem \in DOMAIN s
    BY <1>4, <1>5, <1>6, <1>7
  <2>2. Tells(c, e, TRUE)
    BY <1>1, <1>7
  <2>3. q \in Disk
    BY <1>3, <2>1, ElemsAre DEF Cat
  <2>4. Query.cat \in {Absent, Cat.name}
    BY <1>3 DEF TopInv, CatPlace, CatLabels, Cat, Query
  <2>5. q \in AskedOf(Call.request)
    BY <1>5, <2>3, <2>4 DEF Fitting, AskedOf, Query
  <2>6. c.at = "pkglist" /\ c.request = Call.request /\ c.cat = Call.cat /\ c.elem = Call.elem + 1
    BY <1>3, <2>2, ChangedKeeps DEF Tells, Changed, CallFields
  <2>8. Call.elem + 1 # 0
    BY <1>6
  <2>9. PkgPlace(c)'
    BY <1>2, <1>5, <2>6, <2>8 DEF PkgPlace, Cat, Query, Sorting
  <2>10. TopInv(c)'
    BY <1>2, <1>5, <2>1, <2>2, <2>5, <2>9, NextAnswers
  <2> QED
    BY <1>1, <2>10 DEF Fine, QuietStep, NestStep
<1>8. CASE ~(Call.elem <= Len(s))
  <2>1. Goes(c, Call.back)
    BY <1>1, <1>8
  <2>2. Changed(Call, c, {"at"}) /\ c.at = Call.back
    BY <2>1 DEF Goes
  <2>3. Inside(c) /\ c.out = Call.out
    BY <1>2, <1>3, <2>2, InsideIs, ChangedKeeps, CtxSame DEF CatLabels
  <2>4. ASSUME NEW p \in AskedOf(Call.request), Here(Call, p) PROVE FALSE
    <3>1. PICK k \in DOMAIN s : k >= Call.elem
      BY <1>3, <2>4 DEF Here, Cat
    <3> QED
      BY <1>4, <1>6, <1>8, <3>1
  <2>5. TopInv(c)'
    BY <1>3, <2>2, <2>3, <2>4, Leaving
  <2> QED
    BY <1>1, <2>5 DEF Fine, QuietStep, NestStep
<1> QED
  BY <1>7, <1>8
LEMMA EnterAbsentAnswers ==
  ASSUME FlagsInv, HeldInv, TopInv(Call), EnterAbsent
  PROVE  \E c : Fine(c)
<1> DEFINE id == Call.cat
<1>1. PICK c : QuietStep(c) /\ Goes(c, Call.back)
  BY EnterAbsentStep
<1>2. At("cat") /\ Query.pn # Absent /\ Hit = 0 /\ ctx[id].complete
      /\ cats' = cats /\ complete' = complete /\ kind' = kind
  BY DEF EnterAbsent, FilterName, Cat
<1>3. CacheTyped /\ id \in Ids /\ calls # <<>> /\ Call.at = "cat"
  BY <1>2, AtFacts DEF CatLabels
<1>4. CtxMoved /\ Changed(Call, c, {"at"}) /\ c.at = Call.back
  BY <1>1 DEF Goes, QuietStep, Quiet
<1>5. Inside(c) /\ c.out = Call.out
  BY <1>2, <1>4, InsideIs, ChangedKeeps DEF CatLabels
<1>6. ASSUME NEW p \in AskedOf(Call.request), Here(Call, p) PROVE FALSE
  <2>1. p \in InDir(ctx[id]) /\ p.pn = Query.pn /\ PlainOf(p).pn = p.pn
    BY <1>2, <1>6, AskedIs, InDirMember DEF Here, Query
  <2>2. PkgsOf(id)
    BY <1>3, PkgsInvIs DEF HeldInv
  <2>3. PlainOf(p) \in ToSet(ctx[id].pkgs.elems)
    BY <1>2, <2>1, <2>2, HeldMember DEF PkgsOf
  <2> QED
    BY <1>2, <2>1, <2>3, HitFacts DEF FilterName
<1>7. TopInv(c)'
  BY <1>3, <1>4, <1>5, <1>6, Leaving
<1> QED
  BY <1>1, <1>7 DEF Fine, QuietStep

LEMMA EnterCachedAnswers ==
  ASSUME FlagsInv, HeldInv, TopInv(Call), EnterCached
  PROVE  \E c : Fine(c)
<1> DEFINE id == Call.cat
           x == IF Sorting(Call.request) THEN SortedPkgs(id) ELSE ctx[id].pkgs
<1>1. PICK c : QuietStep(c) /\ Starts(c, "pkglist", 1)
  BY EnterCachedStep
<1>2. At("cat") /\ Query.pn = Absent /\ ctx[id].complete /\ PkgsPut(id, x)
      /\ cats' = cats /\ complete' = complete /\ kind' = kind
  BY DEF EnterCached, FilterName, Cat, PkgsPut
<1>3. CacheTyped /\ FlagsTrue /\ id \in Ids /\ calls # <<>> /\ Call.at = "cat"
  BY <1>2, AtFacts DEF CatLabels
<1>4. /\ ToSet(SortedPkgs(id).elems) = ToSet(ctx[id].pkgs.elems) /\ SortedPkgs(id).sorted
      /\ SortedPkgs(id).elems \in Seq(Plains) /\ ctx[id].pkgs.elems \in Seq(Plains)
  <2>1. SortedPkgs(id).sorted = TRUE
    BY <1>3, CtxFacts DEF SortedPkgs, SortedBy
  <2> QED
    BY <1>3, <2>1, SortedPkgsFacts, CtxFacts
<1>5. CtxMoved /\ ctx'[id].pkgs = x /\ ctx'[id].complete /\ ctx'[id].name = ctx[id].name
  BY <1>2, <1>3, OnePkgs
<1>6. Inside(c) /\ c.at = "pkglist" /\ c.elem = 1 /\ c.out = Call.out /\ c.cat = id
      /\ c.request = Call.request
  <2>1. Changed(Call, c, {"at", "elem"}) /\ c.at = "pkglist" /\ c.elem = 1
    BY <1>1 DEF Starts
  <2>2. Inside(c)
    BY <1>2, <1>5, <2>1, InsideIs DEF CatLabels
  <2> QED
    BY <2>1, <2>2, ChangedKeeps
<1>7. ASSUME NEW p \in AskedOf(Call.request), p.cat = ctx[id].name
      PROVE  \E k \in DOMAIN x.elems : k >= 1 /\ x.elems[k] = PlainOf(p)
  <2>1. p \in InDir(ctx[id]) /\ PkgsOf(id)
    BY <1>3, <1>7, AskedIs, InDirMember, PkgsInvIs DEF HeldInv
  <2>2. PlainOf(p) \in ToSet(x.elems)
    BY <1>2, <1>4, <2>1, HeldMember DEF PkgsOf
  <2>3. PICK k \in DOMAIN x.elems : x.elems[k] = PlainOf(p)
    BY <2>2 DEF ToSet
  <2>4. x.elems \in Seq(Plains)
    BY <1>4
  <2> HIDE DEF x
  <2>5. k >= 1
    BY <2>3, <2>4
  <2> QED
    BY <2>3, <2>5
<1>8. \A p \in AskedOf(Call.request) : p.cat = ctx[id].name => (Here(c, p)' <=> Here(Call, p))
  <2> HIDE DEF x
  <2> QED
    BY <1>3, <1>5, <1>6, <1>7 DEF Here, CatLabels
<1>9. PkgPlace(c)'
  BY <1>2, <1>4, <1>5, <1>6 DEF PkgPlace, Query, Sorting
<1>10. TopInv(c)'
  BY <1>3, <1>6, <1>8, <1>9, Staying DEF CatLabels
<1> QED
  BY <1>1, <1>10 DEF Fine, QuietStep

LEMMA OpenCategoryAnswers ==
  ASSUME FlagsInv, HeldInv, TopInv(Call), OpenCategory
  PROVE  \E c : Fine(c)
<1> DEFINE id == Call.cat
           F == {p \in InDir(Cat) : kind = "ebuild" => FilterName /\ p.pn = Query.pn}
           D == IF kind = "ebuild" /\ ~FilterName THEN {p.pn : p \in InDir(Cat)} ELSE {}
<1>1. PICK c : OpenCategoryFacts(c)
  BY OpenCategoryStep
<1>2. At("cat") /\ cats' = cats /\ complete' = complete /\ kind' = kind
  BY DEF OpenCategory
<1>3. CacheTyped /\ id \in Ids /\ calls # <<>> /\ Call.at = "cat"
  BY <1>2, AtFacts DEF CatLabels
<1>4. /\ CtxMoved /\ Changed(Call, c, {"at", "found", "knownPkgs", "dirs", "files"})
      /\ c.at = "pkgdir" /\ c.files = F /\ c.dirs = D
  BY <1>1 DEF OpenCategoryFacts, Quiet
<1>5. Inside(c) /\ c.out = Call.out /\ c.cat = id /\ c.request = Call.request
  BY <1>2, <1>4, InsideIs, ChangedKeeps DEF CatLabels
<1>6. ctx'[id].name = ctx[id].name
  BY <1>3, <1>5 DEF Inside, NamesKept
<1>7. ASSUME NEW p \in AskedOf(Call.request), p.cat = ctx[id].name
      PROVE  p \in F \/ p.pn \in D
  <2>1. p \in InDir(Cat) /\ (FilterName => p.pn = Query.pn)
    BY <1>7, AskedIs, InDirMember DEF Cat, FilterName, Query
  <2> QED
    BY <2>1
<1> HIDE DEF F, D
<1>8. \A p \in AskedOf(Call.request) : p.cat = ctx[id].name => (Here(c, p)' <=> Here(Call, p))
  BY <1>3, <1>4, <1>5, <1>6, <1>7 DEF Here, CatLabels
<1>9. PkgPlace(c)'
  BY <1>4, <1>5, <1>6, <1>7 DEF PkgPlace, AskedOf
<1>10. TopInv(c)'
  BY <1>3, <1>4, <1>5, <1>8, <1>9, Staying DEF CatLabels
<1> QED
  BY <1>1, <1>10 DEF Fine, OpenCategoryFacts
LEMMA ReadNameAnswers ==
  ASSUME FlagsInv, HeldInv, TopInv(Call), ReadName
  PROVE  \E c : Fine(c)
<1> DEFINE id == Call.cat
<1>1. PICK pn, c : ReadNameFacts(pn, c)
  BY ReadNameStep
<1>2. At("pkgdir") /\ cats' = cats /\ complete' = complete /\ kind' = kind
  BY DEF ReadName
<1>3. CacheTyped /\ id \in Ids /\ calls # <<>> /\ Call.at = "pkgdir"
  BY <1>2, AtFacts DEF CatLabels
<1>4. /\ CtxMoved /\ Changed(Call, c, {"dirs", "files"})
      /\ c.at = "pkgdir" /\ c.files = NamedDir(Cat, pn) /\ c.dirs = Call.dirs \ {pn}
      /\ Call.files = {} /\ pn \in Call.dirs
  BY <1>1 DEF ReadNameFacts, Quiet
<1>5. Inside(c) /\ c.out = Call.out /\ c.cat = id /\ c.request = Call.request
  BY <1>2, <1>4, InsideIs, ChangedKeeps DEF CatLabels
<1>6. ctx'[id].name = ctx[id].name /\ c.found = Call.found
  BY <1>3, <1>4, <1>5 DEF Inside, NamesKept, Changed, CallFields
<1>7. ASSUME NEW p \in AskedOf(Call.request), p.cat = ctx[id].name
      PROVE  p \in c.files \/ p.pn \in c.dirs <=> p \in Call.files \/ p.pn \in Call.dirs
  <2>1. p \in InDir(Cat)
    BY <1>7, AskedIs, InDirMember DEF Cat
  <2> QED
    BY <1>4, <2>1 DEF NamedDir
<1>8. \A p \in AskedOf(Call.request) : p.cat = ctx[id].name => (Here(c, p)' <=> Here(Call, p))
  BY <1>3, <1>4, <1>5, <1>6, <1>7 DEF Here, CatLabels
<1>9. PkgPlace(c)'
  <2>1. ~Call.found => \A p \in AskedOf(Call.request) :
          p.cat = ctx[id].name => p \in Call.files \/ p.pn \in Call.dirs
    BY <1>3 DEF TopInv, PkgPlace
  <2> QED
    BY <1>4, <1>5, <1>6, <1>7, <2>1 DEF PkgPlace, AskedOf
<1>10. TopInv(c)'
  BY <1>3, <1>4, <1>5, <1>8, <1>9, Staying DEF CatLabels
<1> QED
  BY <1>1, <1>10 DEF Fine, ReadNameFacts

LEMMA ReadPackageAnswers ==
  ASSUME FlagsInv, HeldInv, TopInv(Call), ReadPackage
  PROVE  \E c : Fine(c) /\ Proceeds(c)
<1> DEFINE id == Call.cat
           A == AskedOf(Call.request)
<1>1. PICK f, c : ReadPackageFacts(f, c)
  BY ReadPackageStep
<1>2. At("pkgdir") /\ cats' = cats /\ complete' = complete /\ kind' = kind
  BY DEF ReadPackage
<1>3. CacheTyped /\ CallsTyped /\ FlagsTrue /\ id \in Ids /\ calls # <<>> /\ Call.at = "pkgdir"
      /\ CallTyped(Call, Len(ctx))
  BY <1>2, AtFacts DEF CatLabels
<1>4. /\ PkgsPut(id, Appended(ctx[id].pkgs, PlainOf(f))) /\ Changed(Call, c, {"files", "found", "out"})
      /\ f \in Call.files /\ f \in Disk /\ c.at = "pkgdir"
      /\ c.files = Call.files \ {f} /\ c.dirs = Call.dirs /\ c.found = TRUE
      /\ c.out = IF ~Sorting(Call.request) /\ (FilterName => Fits(Query, PlainOf(f)))
                 THEN OneMore(Call.out, f) ELSE Call.out
  BY <1>1 DEF ReadPackageFacts
<1>5. CtxMoved /\ NamesDiffer /\ Call.item \in Nat
  BY <1>3, <1>4, OnePkgs, PlainOfIs DEF HeldInv, CatsInv, NamesDiffer, CallTyped
<1>6. Inside(c) /\ c.cat = id /\ c.request = Call.request
  BY <1>2, <1>4, <1>5, InsideIs, ChangedKeeps DEF CatLabels
<1>7. ctx'[id].name = ctx[id].name
  BY <1>3, <1>6 DEF Inside, NamesKept
<1>8. Proceeds(c)
  <2>1. \A i \in 1..Len(calls) : calls[i].request.inner # None => Sorting(calls[i].request)
    BY DEF HeldInv, Nested
  <2>2. Depth \in 1..Len(calls)
    BY <1>3, CallFacts
  <2>3. Call.request.inner # None => Sorting(Call.request)
    BY <2>1, <2>2 DEF Call
  <2> QED
    BY <1>1, <1>6, <2>3 DEF ReadPackageFacts, Nests
<1>9. f.cat = ctx[id].name /\ f.pn \notin Call.dirs
  <2>1. ReadOf(id)
    BY <1>3, ReadingFacts
  <2>2. f \in InDir(ctx[id]) /\ f.pn \notin Call.dirs
    BY <1>4, <2>1 DEF ReadOf
  <2> QED
    BY <2>2, InDirMember
<1>10. f \in A <=> (FilterName => Fits(Query, PlainOf(f)))
  <2>1. Query.cat \in {Absent, f.cat} /\ AtomLike(Query)
    BY <1>3, <1>9 DEF TopInv, CatPlace, CatLabels, Query
  <2> QED
    BY <1>4, <2>1 DEF A, AskedOf, Fitting, FilterName, Fits, PlainOf, Query, AtomLike
<1> HIDE DEF A
<1>11. PkgPlace(c)'
  BY <1>4 DEF PkgPlace
<1>12. \A p : p # f /\ p.cat = ctx[id].name => (Here(c, p)' <=> Here(Call, p))
  BY <1>3, <1>4, <1>6, <1>7 DEF Here, CatLabels
<1>13. CASE Sorting(Call.request)
  <2>1. c.out = Call.out
    BY <1>4, <1>13
  <2>2. \A p : p.cat = ctx[id].name => (Here(c, p)' <=> Here(Call, p))
    BY <1>3, <1>4, <1>6, <1>7, <1>13 DEF Here, CatLabels, Sorting
  <2>3. TopInv(c)'
    BY <1>3, <1>4, <1>6, <1>11, <2>1, <2>2, Staying DEF CatLabels
  <2> QED
    BY <1>8, <2>3 DEF Fine
<1>14. CASE ~Sorting(Call.request) /\ f \in A
  <2>1. c.out = OneMore(Call.out, f)
    BY <1>4, <1>10, <1>14
  <2>2. Here(Call, f) /\ ~Here(c, f)'
    BY <1>3, <1>4, <1>6, <1>7, <1>9, <1>14 DEF Here, CatLabels, Sorting
  <2>3. TopInv(c)'
    BY <1>3, <1>4, <1>5, <1>6, <1>9, <1>11, <1>12, <1>14, <2>1, <2>2, Telling DEF CatLabels, A
  <2> QED
    BY <1>8, <2>3 DEF Fine
<1>15. CASE ~Sorting(Call.request) /\ f \notin A
  <2>1. c.out = Call.out
    BY <1>4, <1>10, <1>15
  <2>2. \A p \in A : p # f
    BY <1>15
  <2>3. TopInv(c)'
    BY <1>3, <1>4, <1>6, <1>11, <1>12, <2>1, <2>2, Staying DEF CatLabels, A
  <2> QED
    BY <1>8, <2>3 DEF Fine
<1> QED
  BY <1>13, <1>14, <1>15

LEMMA CloseCategoryAnswers ==
  ASSUME FlagsInv, HeldInv, TopInv(Call), CloseCategory
  PROVE  \E c : Fine(c)
<1> DEFINE id == Call.cat
           again == Sorting(Call.request) /\ (kind = "ebuild" => Call.found)
<1>1. PICK c : CloseCategoryFacts(c)
  BY CloseCategoryStep
<1>2. At("pkgdir") /\ cats' = cats /\ complete' = complete /\ kind' = kind
  BY DEF CloseCategory, ReadWhole, Restarts
<1>3. CacheTyped /\ id \in Ids /\ calls # <<>> /\ Call.at = "pkgdir"
  BY <1>2, AtFacts DEF CatLabels
<1>4. /\ CompletePut(id, ctx[id].complete \/ kind # "ebuild" \/ ~FilterName)
      /\ Goes(c, IF again THEN "cat" ELSE Call.back)
      /\ Call.files = {} /\ Call.dirs = {}
  BY <1>1 DEF CloseCategoryFacts
<1>5. CtxMoved
  <2>1. (ctx[id].complete \/ kind # "ebuild" \/ ~FilterName) \in BOOLEAN
    OBVIOUS
  <2> QED
    BY <1>3, <1>4, <2>1, OneComplete
<1>6. Changed(Call, c, {"at"}) /\ c.at = IF again THEN "cat" ELSE Call.back
  BY <1>4 DEF Goes
<1>7. Inside(c) /\ c.out = Call.out /\ c.cat = id /\ c.request = Call.request
  BY <1>2, <1>5, <1>6, InsideIs, ChangedKeeps DEF CatLabels
<1>8. ctx'[id].name = ctx[id].name
  BY <1>3, <1>7 DEF Inside, NamesKept
<1>9. CASE again
  <2>1. \A p : p.cat = ctx[id].name => (Here(c, p)' <=> Here(Call, p))
    BY <1>3, <1>6, <1>7, <1>8, <1>9 DEF Here, CatLabels
  <2>2. PkgPlace(c)'
    BY <1>6, <1>9 DEF PkgPlace
  <2>3. TopInv(c)'
    BY <1>3, <1>6, <1>7, <1>9, <2>1, <2>2, Staying DEF CatLabels
  <2> QED
    BY <1>1, <2>3 DEF Fine, CloseCategoryFacts
<1>10. CASE ~again
  <2>1. ~Call.found => \A p \in AskedOf(Call.request) :
          p.cat = ctx[id].name => p \in Call.files \/ p.pn \in Call.dirs
    BY <1>3 DEF TopInv, PkgPlace
  <2>2. \A p \in AskedOf(Call.request) : ~Here(Call, p)
    BY <1>3, <1>4, <1>10, <2>1 DEF Here
  <2>3. TopInv(c)'
    BY <1>3, <1>6, <1>7, <1>10, <2>2, Leaving
  <2> QED
    BY <1>1, <2>3 DEF Fine, CloseCategoryFacts
<1> QED
  BY <1>9, <1>10
-----------------------------------------------------------------------------
(* Each step over the categories leaves it in order, too.                 *)

\* All categories of a file are known when it was read.
FileKnown == FromFile /\ complete => \A p \in Disk : p.cat \in NamesIn

LEMMA ChangedOutside ==
  ASSUME NEW c, NEW d, NEW F, Changed(c, d, F),
         F \subseteq {"at", "back", "item", "cat", "names", "known", "files"}
  PROVE  d.request = c.request /\ d.out = c.out
BY DEF Changed, CallFields

LEMMA TreeMoves ==
  ASSUME TopInv(Call), NamesKept, NEW c, NEW F, Changed(Call, c, F),
         F \subseteq {"at", "back", "item", "cat", "names", "known", "files"},
         \A p \in AskedOf(Call.request) : Left(c, p)' <=> Left(Call, p),
         CatPlace(c)', c.at \notin {"hits", "pkglist", "pkgdir"}
  PROVE  TopInv(c)'
<1>1. c.request = Call.request /\ c.out = Call.out
  BY ChangedOutside
<1>2. OutOk(c)'
  BY <1>1, TellSame DEF TopInv
<1>3. PkgPlace(c)'
  BY DEF PkgPlace
<1> QED
  BY <1>1, <1>2, <1>3 DEF TopInv, AtomLike

LEMMA GrownNames ==
  ASSUME FlagsInv, Stays, NEW name \in Categories, CtxGrown(NewCat(name))
  PROVE  /\ NamesKept /\ Ids' = Ids \cup {Len(ctx) + 1} /\ ctx'[Len(ctx) + 1].name = name
<1>1. CacheTyped /\ FlagsTrue /\ FlagsMoved
  BY StaysMoves DEF FlagsInv
<1>2. /\ Ids' = Ids \cup {Len(ctx) + 1} /\ \A x \in Ids : ctx'[x] = ctx[x]
      /\ ctx'[Len(ctx) + 1] = NewCat(name)
  BY <1>1, NewCatTyped, GrownTyped
<1> QED
  BY <1>2 DEF NamesKept, NewCat

\* Every category with packages is known when the tree was read.
LEMMA AllKnown ==
  ASSUME CacheTyped, CatsInv, FileKnown, complete, NEW p \in Disk
  PROVE  \E x \in Ids : ctx[x].name = p.cat
<1>1. p.cat \in NamesIn
  BY CacheAssumption DEF CatsInv, FileKnown
<1> QED
  BY <1>1 DEF NamesIn

LEMMA EnterKnownAnswers ==
  ASSUME FlagsInv, HeldInv, TopInv(Call), EnterKnown
  PROVE  \E c : Fine(c)
<1> DEFINE id == FindCat(Query.cat)
<1>1. PICK c : QuietStep(c) /\ Visits(c, id, "done")
  BY EnterKnownStep
<1>2. At("tree") /\ Query.cat # Absent /\ id # 0 /\ ctx' = ctx
  BY DEF EnterKnown, Filter
<1>3. CacheTyped /\ FlagsTrue /\ Call.at = "tree"
  BY <1>2, AtFacts
<1>4. id \in Ids /\ ctx[id].name = Query.cat
  BY <1>2, <1>3, FindCatIs
<1>5. Changed(Call, c, {"cat", "at", "back", "item", "names"}) /\ c.cat = id /\ c.at = "cat" /\ c.back = "done"
  BY <1>1 DEF Visits
<1>6. NamesKept /\ c.request = Call.request
  BY <1>2, <1>3, <1>5, CtxSame, CtxMovedNames, ChangedOutside
<1> HIDE DEF id
<1>7. ASSUME NEW p \in AskedOf(Call.request) PROVE Left(c, p)' /\ Left(Call, p)
  <2>1. p.cat = Query.cat
    BY <1>2, AskedIs DEF Query
  <2> QED
    BY <1>2, <1>3, <1>4, <1>5, <2>1 DEF Left, Later, Here, Place, CatLabels
<1>8. CatPlace(c)'
  BY <1>2, <1>4, <1>5, <1>6 DEF CatPlace, Place, CatLabels, Query
<1>9. TopInv(c)'
  BY <1>5, <1>6, <1>7, <1>8, TreeMoves
<1> QED
  BY <1>1, <1>9 DEF Fine, QuietStep

LEMMA EnterUnknownAnswers ==
  ASSUME FlagsInv, HeldInv, FileKnown, TopInv(Call), EnterUnknown
  PROVE  \E c : Fine(c)
<1>1. PICK c : QuietStep(c) /\ Goes(c, "done")
  BY EnterUnknownStep
<1>2. At("tree") /\ Query.cat # Absent /\ FindCat(Query.cat) = 0 /\ ctx' = ctx /\ complete
  BY DEF EnterUnknown, Filter
<1>3. CacheTyped /\ FlagsTrue /\ CatsInv
  BY <1>2, AtFacts DEF HeldInv
<1>4. \A x \in Ids : ctx[x].name # Query.cat
  BY <1>2, <1>3, FindCatIs
<1>5. Changed(Call, c, {"at"}) /\ c.at = "done"
  BY <1>1 DEF Goes
<1>6. NamesKept
  BY <1>2, <1>3, CtxSame, CtxMovedNames
<1>7. AskedOf(Call.request) = {}
  BY <1>2, <1>3, <1>4, AskedIs, AllKnown DEF Query
<1>8. CatPlace(c)'
  BY <1>5 DEF CatPlace, Place, CatLabels
<1>9. TopInv(c)'
  BY <1>5, <1>6, <1>7, <1>8, TreeMoves
<1> QED
  BY <1>1, <1>9 DEF Fine, QuietStep

LEMMA EnterCompleteAnswers ==
  ASSUME FlagsInv, HeldInv, FileKnown, TopInv(Call), EnterComplete
  PROVE  \E c : Fine(c)
<1>1. PICK c : QuietStep(c) /\ Changed(Call, c, {"at", "item"}) /\ c.at = "catlist" /\ c.item = 1
  BY EnterCompleteStep
<1>2. /\ At("tree") /\ Query.cat = Absent /\ ctx' = ctx /\ complete /\ complete' = complete
      /\ cats' = IF Sorting(Call.request) THEN SortedCats ELSE cats
  BY DEF EnterComplete, Filter
<1>3. CacheTyped /\ FlagsTrue /\ CatsInv /\ Call.at = "tree"
  BY <1>2, AtFacts DEF HeldInv
<1>4. NamesKept /\ Ids' = Ids /\ c.request = Call.request
  BY <1>1, <1>2, <1>3, CtxSame, CtxMovedNames, ChangedOutside
<1>5. /\ ToSet(cats'.elems) = Ids /\ cats'.elems \in Seq(Ids)
      /\ Sorting(Call.request) => cats'.sorted
  <2>1. SortedCats.sorted = TRUE
    BY <1>3 DEF SortedCats, SortedBy, CacheTyped
  <2> QED
    BY <1>2, <1>3, <2>1, SortedCatsFacts DEF CacheTyped
<1>6. ASSUME NEW p \in AskedOf(Call.request) PROVE Left(c, p)' /\ Left(Call, p)
  <2>1. PICK x \in Ids : ctx[x].name = p.cat
    BY <1>2, <1>3, AskedIs, AllKnown
  <2>2. PICK k \in DOMAIN cats'.elems : cats'.elems[k] = x
    BY <1>5 DEF ToSet
  <2>3. k >= 1
    BY <1>5, <2>2
  <2> QED
    BY <1>1, <1>2, <1>3, <2>1, <2>2, <2>3 DEF Left, Later, Place, CatLabels
<1>7. CatPlace(c)'
  BY <1>1, <1>2, <1>4, <1>5 DEF CatPlace, Place, CatLabels, Query, Sorting
<1>8. TopInv(c)'
  BY <1>1, <1>4, <1>6, <1>7, TreeMoves
<1> QED
  BY <1>1, <1>8 DEF Fine, QuietStep

LEMMA NextCategoryAnswers ==
  ASSUME FlagsInv, HeldInv, TopInv(Call), NextCategory
  PROVE  \E c : Fine(c)
<1> DEFINE s == cats.elems
           j == Call.item
<1>1. PICK c : /\ QuietStep(c)
               /\ IF j <= Len(s) THEN Visits(c, s[j], "catlist") /\ c.item = j + 1 ELSE Goes(c, "done")
  BY NextCategoryStep
<1>2. At("catlist") /\ ctx' = ctx /\ cats' = cats /\ complete' = complete
  BY DEF NextCategory, cache
<1>3. CacheTyped /\ FlagsTrue /\ Call.at = "catlist" /\ j \in Nat /\ j # 0
  BY <1>2, AtFacts DEF CallTyped
<1>4. NamesKept /\ Ids' = Ids
  BY <1>2, <1>3, CtxSame, CtxMovedNames
<1>5. /\ Len(s) \in Nat /\ DOMAIN s = 1..Len(s) /\ \A k \in DOMAIN s : s[k] \in Ids
  BY <1>3, CatsElems
<1>6. \A p : Left(Call, p) <=> \E k \in DOMAIN s : k >= j /\ ctx[s[k]].name = p.cat
  BY <1>3 DEF Left, Later, Here, Place, CatLabels
<1>7. Query.cat = Absent /\ complete /\ (Sorting(Call.request) => cats.sorted)
  BY <1>3 DEF TopInv, CatPlace, Place, CatLabels, Query
<1> HIDE DEF s, j
<1>8. CASE j <= Len(s)
  <2>1. /\ Changed(Call, c, {"cat", "at", "back", "item", "names"})
        /\ c.cat = s[j] /\ c.at = "cat" /\ c.back = "catlist" /\ c.item = j + 1
    BY <1>1, <1>8 DEF Visits
  <2>2. c.request = Call.request
    BY <2>1, ChangedOutside
  <2>3. j \in DOMAIN s /\ j + 1 - 1 = j
    BY <1>3, <1>5, <1>8
  <2>4. \A k \in DOMAIN s : k >= j <=> k = j \/ k >= j + 1
    BY <1>3, <1>5
  <2>5. ASSUME NEW p PROVE Left(c, p)' <=> Left(Call, p)
    <3>1. Left(c, p)' <=> \/ \E k \in DOMAIN s : k >= j + 1 /\ ctx[s[k]].name = p.cat
                          \/ ctx[s[j]].name = p.cat
      BY <1>2, <2>1 DEF Left, Later, Here, Place, CatLabels, s
    <3> QED
      BY <1>6, <2>3, <2>4, <3>1
  <2>6. CatPlace(c)'
    <3>0. c.item - 1 = j
      BY <1>3, <2>1
    <3>1. c.item - 1 \in DOMAIN cats'.elems /\ cats'.elems[c.item - 1] = c.cat
      <4>1. c.item - 1 \in DOMAIN s /\ s[c.item - 1] = c.cat
        BY <2>1, <2>3, <3>0
      <4> QED
        BY <1>2, <4>1 DEF s
    <3>2. Place(c)' = "catlist" /\ c.request.query.cat = Absent
      BY <1>7, <2>1, <2>2 DEF Place, CatLabels, Query
    <3>3. complete' /\ (Sorting(c.request) => cats'.sorted)
      BY <1>2, <1>7, <2>2
    <3> QED
      BY <2>1, <3>1, <3>2, <3>3 DEF CatPlace, Sorting
  <2>7. TopInv(c)'
    BY <1>4, <2>1, <2>5, <2>6, TreeMoves
  <2> QED
    BY <1>1, <2>7 DEF Fine, QuietStep
<1>9. CASE ~(j <= Len(s))
  <2>1. Changed(Call, c, {"at"}) /\ c.at = "done"
    BY <1>1, <1>9 DEF Goes
  <2>2. \A k \in DOMAIN s : ~(k >= j)
    BY <1>3, <1>5, <1>9
  <2>3. \A p : ~Left(c, p)' /\ ~Left(Call, p)
    BY <1>6, <2>1, <2>2 DEF Left, Later, Here, Place, CatLabels
  <2>4. CatPlace(c)'
    BY <2>1 DEF CatPlace, Place, CatLabels
  <2>5. TopInv(c)'
    BY <1>4, <2>1, <2>3, <2>4, TreeMoves
  <2> QED
    BY <1>1, <2>5 DEF Fine, QuietStep
<1> QED
  BY <1>8, <1>9

LEMMA ProbeAnswers ==
  ASSUME FlagsInv, HeldInv, TopInv(Call), ProbeCategory
  PROVE  \E c : Fine(c)
<1>1. PICK c : (QuietStep(c) /\ Goes(c, "done") /\ Query.cat \notin Categories) \/ ProbeStep(c)
  BY ProbeCategoryStep
<1>2. At("tree") /\ Query.cat # Absent
  BY DEF ProbeCategory, Filter
<1>3. CacheTyped /\ FlagsTrue /\ Call.at = "tree"
  BY <1>2, AtFacts
<1>4. CASE QuietStep(c) /\ Goes(c, "done") /\ Query.cat \notin Categories
  <2>1. Changed(Call, c, {"at"}) /\ c.at = "done"
    BY <1>4 DEF Goes
  <2>2. NamesKept
    BY <1>4, CtxMovedNames DEF QuietStep, Quiet
  <2>3. AskedOf(Call.request) = {}
    BY <1>2, <1>4, AskedIs DEF Query
  <2>4. CatPlace(c)'
    BY <2>1 DEF CatPlace, Place, CatLabels
  <2>5. TopInv(c)'
    BY <2>1, <2>2, <2>3, <2>4, TreeMoves
  <2> QED
    BY <1>4, <2>5 DEF Fine, QuietStep
<1>5. CASE ProbeStep(c)
  <2>1. NewFacts(c, Query.cat) /\ Visits(c, Len(ctx) + 1, "done")
    BY <1>5 DEF ProbeStep
  <2>2. /\ Changed(Call, c, {"cat", "at", "back", "item", "names"})
        /\ c.cat = Len(ctx) + 1 /\ c.at = "cat" /\ c.back = "done"
    BY <2>1 DEF Visits
  <2>3. NamesKept /\ ctx'[Len(ctx) + 1].name = Query.cat
    BY <2>1, GrownNames DEF NewFacts
  <2>4. c.request = Call.request
    BY <2>2, ChangedOutside
  <2>5. ASSUME NEW p \in AskedOf(Call.request) PROVE Left(c, p)' /\ Left(Call, p)
    <3>1. p.cat = Query.cat
      BY <1>2, AskedIs DEF Query
    <3> QED
      BY <1>3, <2>2, <2>3, <3>1 DEF Left, Later, Here, Place, CatLabels
  <2>6. CatPlace(c)'
    BY <2>2, <2>3, <2>4 DEF CatPlace, Place, CatLabels, Query
  <2>7. TopInv(c)'
    BY <2>2, <2>3, <2>5, <2>6, TreeMoves
  <2> QED
    BY <2>1, <2>7 DEF Fine, NewFacts
<1> QED
  BY <1>1, <1>4, <1>5
LEMMA OpenTreeAnswers ==
  ASSUME FlagsInv, HeldInv, TopInv(Call), OpenTree
  PROVE  \E c : Fine(c)
<1>1. PICK c : OpenTreeFacts(c)
  BY OpenTreeStep
<1>2. /\ Call.at = "tree" /\ c.at = "catdir" /\ Changed(Call, c, {"at", "names", "known"})
      /\ c.names = Categories /\ ~complete /\ complete' = complete /\ CtxMoved /\ Query.cat = Absent
  BY <1>1 DEF OpenTreeFacts, Quiet, Stays, Filter
<1>3. NamesKept /\ c.request = Call.request
  BY <1>2, CtxMovedNames, ChangedOutside
<1>4. ASSUME NEW p \in AskedOf(Call.request) PROVE Left(c, p)' /\ Left(Call, p)
  <2>1. p.cat \in Categories
    BY AskedIs
  <2> QED
    BY <1>2, <2>1 DEF Left, Later, Place, CatLabels
<1>5. CatPlace(c)'
  BY <1>2, <1>3 DEF CatPlace, Place, CatLabels, Query
<1>6. TopInv(c)'
  BY <1>2, <1>3, <1>4, <1>5, TreeMoves
<1> QED
  BY <1>1, <1>6 DEF Fine, OpenTreeFacts

LEMMA ReadCategoryAnswers ==
  ASSUME FlagsInv, HeldInv, TopInv(Call), ReadCategory
  PROVE  \E c : Fine(c)
<1>1. PICK name, c : ReadCategoryFacts(name, c)
  BY ReadCategoryStep
<1>2. /\ Call.at = "catdir" /\ name \in Call.names /\ c.names = Call.names \ {name}
      /\ Changed(Call, c, {"names", "cat", "at", "back"})
      /\ IF Sorting(c.request) THEN c.at = "catdir" ELSE c.at = "cat" /\ c.back = "catdir"
      /\ c.at = "cat" => c.cat \in Ids' /\ ctx'[c.cat].name = name
  BY <1>1 DEF ReadCategoryFacts
<1>3. NamesKept /\ complete' = complete
  <2>1. CASE Quiet
    BY <2>1, CtxMovedNames DEF Quiet, Stays
  <2>2. CASE NewFacts(c, name)
    BY <2>2, GrownNames DEF NewFacts, Stays
  <2> QED
    BY <1>1, <2>1, <2>2 DEF ReadCategoryFacts
<1>4. c.request = Call.request
  BY <1>2, ChangedOutside
<1>5. Query.cat = Absent /\ ~complete
  BY <1>2 DEF TopInv, CatPlace, Place, CatLabels, Query
<1>6. ASSUME NEW p PROVE Left(c, p)' <=> Left(Call, p)
  BY <1>2, <1>4 DEF Left, Later, Here, Place, CatLabels, Sorting
<1>7. CatPlace(c)'
  BY <1>2, <1>3, <1>4, <1>5 DEF CatPlace, Place, CatLabels, Query, Sorting
<1>8. TopInv(c)'
  BY <1>2, <1>3, <1>6, <1>7, TreeMoves
<1> QED
  BY <1>1, <1>8 DEF Fine, ReadCategoryFacts

LEMMA CloseTreeAnswers ==
  ASSUME FlagsInv, HeldInv, TopInv(Call), CloseTree
  PROVE  \E c : Fine(c)
<1>1. PICK c : CloseTreeFacts(c)
  BY CloseTreeStep
<1>2. /\ Call.at = "catdir" /\ Call.names = {} /\ ctx' = ctx /\ Changed(Call, c, {"at"})
      /\ c.at = IF Sorting(Call.request) THEN "tree" ELSE "done"
  BY <1>1 DEF CloseTreeFacts, Goes
<1>3. NamesKept
  BY <1>2 DEF NamesKept, Ids
<1>4. ASSUME NEW p PROVE Left(c, p)' <=> Left(Call, p)
  BY <1>2 DEF Left, Later, Here, Place, CatLabels
<1>5. CatPlace(c)'
  BY <1>2 DEF CatPlace, Place, CatLabels
<1>6. TopInv(c)'
  BY <1>2, <1>3, <1>4, <1>5, TreeMoves
<1> QED
  BY <1>1, <1>6 DEF Fine, CloseTreeFacts

LEMMA OpenFileAnswers ==
  ASSUME FlagsInv, HeldInv, TopInv(Call), OpenFile
  PROVE  \E c : Fine(c)
<1>1. PICK c : OpenFileFacts(c)
  BY OpenFileStep
<1>2. Call.at = "tree" /\ c.at = "blocks" /\ ctx' = ctx /\ Changed(Call, c, {"at", "files", "cat"})
  BY <1>1 DEF OpenFileFacts
<1>3. NamesKept
  BY <1>2 DEF NamesKept, Ids
<1>4. ASSUME NEW p PROVE Left(c, p)' <=> Left(Call, p)
  BY <1>2 DEF Left, Later, Place, CatLabels
<1>5. CatPlace(c)'
  BY <1>2 DEF CatPlace, Place, CatLabels
<1>6. TopInv(c)'
  BY <1>2, <1>3, <1>4, <1>5, TreeMoves
<1> QED
  BY <1>1, <1>6 DEF Fine, OpenFileFacts

LEMMA ReadBlockAnswers ==
  ASSUME FlagsInv, HeldInv, TopInv(Call), ReadBlock
  PROVE  \E c : Fine(c)
<1>1. PICK p, c : ReadBlockFacts(p, c)
  BY ReadBlockStep
<1>2. /\ Call.at = "blocks" /\ c.at = "blocks" /\ Changed(Call, c, {"files", "cat"}) /\ p \in Disk /\ Stays
  BY <1>1 DEF ReadBlockFacts
<1>3. NamesKept
  <2>1. CacheTyped /\ FlagsTrue /\ FlagsMoved
    BY <1>2, StaysMoves DEF FlagsInv
  <2>2. CASE c.cat \in Ids /\ PkgsPut(c.cat, Appended(ctx[c.cat].pkgs, PlainOf(p)))
    BY <1>2, <2>1, <2>2, PlainOfIs, OnePkgs, CtxMovedNames
  <2>3. CASE CtxGrown(FirstBlock(p))
    <3>1. /\ Ids' = Ids \cup {Len(ctx) + 1} /\ \A x \in Ids : ctx'[x] = ctx[x]
      BY <1>2, <2>1, <2>3, FirstBlockTyped, GrownTyped
    <3> QED
      BY <3>1 DEF NamesKept
  <2> QED
    BY <1>1, <2>2, <2>3 DEF ReadBlockFacts
<1>4. ASSUME NEW q PROVE Left(c, q)' <=> Left(Call, q)
  BY <1>2 DEF Left, Later, Place, CatLabels
<1>5. CatPlace(c)'
  BY <1>2 DEF CatPlace, Place, CatLabels
<1>6. TopInv(c)'
  BY <1>2, <1>3, <1>4, <1>5, TreeMoves
<1> QED
  BY <1>1, <1>6 DEF Fine, ReadBlockFacts

LEMMA CloseFileAnswers ==
  ASSUME FlagsInv, HeldInv, TopInv(Call), CloseFile
  PROVE  \E c : Fine(c)
<1>1. PICK c : CloseFileFacts(c)
  BY CloseFileStep
<1>2. Call.at = "blocks" /\ c.at = "tree" /\ Changed(Call, c, {"at"}) /\ CompleteAll(TRUE)
  BY <1>1 DEF CloseFileFacts, Goes
<1>3. NamesKept
  BY <1>2, EveryComplete, CtxMovedNames DEF FlagsInv
<1>4. ASSUME NEW p PROVE Left(c, p)' <=> Left(Call, p)
  BY <1>2 DEF Left, Later, Place, CatLabels
<1>5. CatPlace(c)'
  BY <1>2 DEF CatPlace, Place, CatLabels
<1>6. TopInv(c)'
  BY <1>2, <1>3, <1>4, <1>5, TreeMoves
<1> QED
  BY <1>1, <1>6 DEF Fine, CloseFileFacts

\* A request that was not told anything yet.
LEMMA EnteredTop ==
  ASSUME NEW r, AtomLike(r.query)
  PROVE  TopInv(Entered(r))'
<1> DEFINE c == Entered(r)
<1>1. c.request = r /\ c.at = "tree" /\ c.out = <<>>
  BY DEF Entered
<1> HIDE DEF c
<1>2. Rest(c)' = AskedOf(r)
  BY <1>1 DEF Rest, Left, Later, Place, CatLabels, AskedOf
<1>3. c.out \in Seq(Outs)' /\ Named(c.out)' = <<>>
  <2>1. <<>> \in Seq(Outs)' /\ DOMAIN <<>> = {}
    OBVIOUS
  <2>2. Named(<<>>)' = <<>>
    BY <2>1 DEF Named
  <2> QED
    BY <1>1, <2>1, <2>2
<1>4. Told(<<>>, r, AskedOf(r))
  <2>1. <<>> \in Seq(Disk) /\ DOMAIN <<>> = {}
    OBVIOUS
  <2>2. ToSet(<<>>) = {}
    BY <2>1 DEF ToSet
  <2>3. Once(<<>>) /\ Ascends(<<>>)
    BY <2>1 DEF Once, Ascends
  <2> QED
    BY <2>1, <2>2, <2>3 DEF Told
<1>5. OutOk(c)'
  <2>1. Told(Named(c.out)', c.request, Rest(c)')
    BY <1>1, <1>2, <1>3, <1>4
  <2> QED
    BY <1>3, <2>1 DEF OutOk, Told, AskedOf, Ascends, Earlier, PkgLess
<1>6. CatPlace(c)' /\ PkgPlace(c)'
  BY <1>1 DEF CatPlace, PkgPlace, Place, CatLabels
<1> QED
  BY <1>1, <1>5, <1>6 DEF TopInv, AtomLike, c
-----------------------------------------------------------------------------
(* What the steps of one request do to the cache, and so to another one.   *)

LEMMA StepWorks ==
  ASSUME Step
  PROVE  calls # <<>> /\ ~crashed
BY DEF Step, At, EnterKnown, EnterUnknown, EnterComplete, NextCategory, ProbeCategory, OpenTree,
       ReadCategory, CloseTree, OpenFile, ReadBlock, CloseFile, EnterHits, NextHit, EnterAbsent,
       EnterCached, NextCached, OpenCategory, ReadName, ReadPackage, CloseCategory, Finish

LEMMA StepKinds ==
  ASSUME FlagsInv, Step
  PROVE  \/ Quiet
         \/ \E c, name : NewFacts(c, name) /\ (Call.at = "catdir" \/ ~complete)
         \/ \E c : CloseTreeFacts(c)
         \/ \E p, c : ReadBlockFacts(p, c)
         \/ \E c : CloseFileFacts(c)
         \/ \E f, c : ReadPackageFacts(f, c)
         \/ \E c : CloseCategoryFacts(c)
<1>1. CASE EnterKnown
  BY <1>1, EnterKnownStep DEF QuietStep
<1>2. CASE EnterUnknown
  BY <1>2, EnterUnknownStep DEF QuietStep
<1>3. CASE EnterComplete
  BY <1>3, EnterCompleteStep DEF QuietStep
<1>4. CASE NextCategory
  BY <1>4, NextCategoryStep DEF QuietStep
<1>5. CASE ProbeCategory
  BY <1>5, ProbeCategoryStep DEF QuietStep, ProbeStep
<1>6. CASE OpenTree
  BY <1>6, OpenTreeStep DEF OpenTreeFacts
<1>7. CASE ReadCategory
  BY <1>7, ReadCategoryStep DEF ReadCategoryFacts
<1>8. CASE CloseTree
  BY <1>8, CloseTreeStep
<1>9. CASE OpenFile
  BY <1>9, OpenFileStep DEF OpenFileFacts
<1>10. CASE ReadBlock
  BY <1>10, ReadBlockStep
<1>11. CASE CloseFile
  BY <1>11, CloseFileStep
<1>12. CASE EnterHits
  BY <1>12, EnterHitsStep DEF QuietStep
<1>13. CASE NextHit
  BY <1>13, NextHitStep DEF QuietStep, NestStep
<1>14. CASE EnterAbsent
  BY <1>14, EnterAbsentStep DEF QuietStep
<1>15. CASE EnterCached
  BY <1>15, EnterCachedStep DEF QuietStep
<1>16. CASE NextCached
  BY <1>16, NextCachedStep DEF QuietStep, NestStep
<1>17. CASE OpenCategory
  BY <1>17, OpenCategoryStep DEF OpenCategoryFacts
<1>18. CASE ReadName
  BY <1>18, ReadNameStep DEF ReadNameFacts
<1>19. CASE ReadPackage
  BY <1>19, ReadPackageStep
<1>20. CASE CloseCategory
  BY <1>20, CloseCategoryStep
<1>21. CASE Finish
  BY <1>21, FinishStep
<1> QED
  BY <1>1, <1>2, <1>3, <1>4, <1>5, <1>6, <1>7, <1>8, <1>9, <1>10, <1>11, <1>12, <1>13, <1>14,
     <1>15, <1>16, <1>17, <1>18, <1>19, <1>20, <1>21 DEF Step

\* A step that reads packages or finishes reading them changes only the category that
\* is read.
LEMMA PutFacts ==
  ASSUME FlagsInv, NEW f, NEW c, ReadPackageFacts(f, c)
  PROVE  CtxMoved /\ \A d \in Ids : d # Call.cat => ctx'[d] = ctx[d]
<1>1. Call.cat \in Ids /\ PkgsPut(Call.cat, Appended(ctx[Call.cat].pkgs, PlainOf(f))) /\ f \in Disk
  BY DEF ReadPackageFacts
<1> QED
  BY <1>1, OnePkgs, PlainOfIs DEF FlagsInv

LEMMA CloseFacts ==
  ASSUME FlagsInv, NEW c, CloseCategoryFacts(c)
  PROVE  CtxMoved /\ \A d \in Ids : d # Call.cat => ctx'[d] = ctx[d]
<1> DEFINE b == ctx[Call.cat].complete \/ kind # "ebuild" \/ ~FilterName
<1>1. b \in BOOLEAN /\ Call.cat \in Ids /\ CompletePut(Call.cat, b)
  BY DEF CloseCategoryFacts
<1> HIDE DEF b
<1> QED
  BY <1>1, OneComplete DEF FlagsInv

LEMMA BlockNames ==
  ASSUME FlagsInv, NEW p, NEW c, ReadBlockFacts(p, c)
  PROVE  NamesKept
<1>1. p \in Disk /\ Stays
  BY DEF ReadBlockFacts
<1>2. CacheTyped /\ FlagsTrue /\ FlagsMoved
  BY <1>1, StaysMoves DEF FlagsInv
<1>3. CASE c.cat \in Ids /\ PkgsPut(c.cat, Appended(ctx[c.cat].pkgs, PlainOf(p)))
  BY <1>1, <1>2, <1>3, PlainOfIs, OnePkgs, CtxMovedNames
<1>4. CASE CtxGrown(FirstBlock(p))
  <2>1. Ids' = Ids \cup {Len(ctx) + 1} /\ \A x \in Ids : ctx'[x] = ctx[x]
    BY <1>1, <1>2, <1>4, FirstBlockTyped, GrownTyped
  <2> QED
    BY <2>1 DEF NamesKept
<1> QED
  BY <1>3, <1>4 DEF ReadBlockFacts

\* The tree is of one kind, categories keep their names, and the tree is complete
\* when its directory or file was read.
LEMMA StepNames ==
  ASSUME FlagsInv, Step
  PROVE  /\ NamesKept /\ kind' = kind
         /\ \/ complete' = complete
            \/ \E c : CloseTreeFacts(c)
            \/ \E c : CloseFileFacts(c)
<1>1. CASE Quiet
  BY <1>1, CtxMovedNames DEF Quiet, Stays
<1>2. ASSUME NEW c, NEW name, NewFacts(c, name)
      PROVE  NamesKept /\ kind' = kind /\ complete' = complete
  BY <1>2, GrownNames DEF NewFacts, Stays
<1>3. ASSUME NEW c, CloseTreeFacts(c) PROVE NamesKept /\ kind' = kind
  BY <1>3 DEF CloseTreeFacts, NamesKept, Ids, FlagsMoved
<1>4. ASSUME NEW p, NEW c, ReadBlockFacts(p, c)
      PROVE  NamesKept /\ kind' = kind /\ complete' = complete
  BY <1>4, BlockNames DEF ReadBlockFacts, Stays
<1>5. ASSUME NEW c, CloseFileFacts(c) PROVE NamesKept /\ kind' = kind
  BY <1>5, EveryComplete, CtxMovedNames DEF CloseFileFacts, FlagsInv, FlagsMoved
<1>6. ASSUME NEW f, NEW c, ReadPackageFacts(f, c)
      PROVE  NamesKept /\ kind' = kind /\ complete' = complete
  BY <1>6, PutFacts, CtxMovedNames DEF ReadPackageFacts, Stays
<1>7. ASSUME NEW c, CloseCategoryFacts(c)
      PROVE  NamesKept /\ kind' = kind /\ complete' = complete
  BY <1>7, CloseFacts, CtxMovedNames DEF CloseCategoryFacts, Stays
<1> QED
  BY <1>1, <1>2, <1>3, <1>4, <1>5, <1>6, <1>7, StepKinds

LEMMA FileKnownStep ==
  ASSUME FlagsInv, HeldInv, FileKnown, Step
  PROVE  FileKnown'
<1>1. NamesKept /\ kind' = kind
  BY StepNames
<1>2. NamesIn \subseteq NamesIn'
  BY <1>1 DEF NamesIn, NamesKept
<1>3. CASE complete' = complete
  BY <1>1, <1>2, <1>3 DEF FileKnown, FromFile
<1>4. ASSUME NEW c, CloseTreeFacts(c) PROVE FileKnown'
  <2>1. Walking
    BY <1>4, StepWorks DEF CloseTreeFacts, Walking
  <2>2. ~FromFile
    BY <2>1 DEF HeldInv, CatsInv
  <2> QED
    BY <1>1, <2>2 DEF FileKnown, FromFile
<1>5. ASSUME NEW c, CloseFileFacts(c) PROVE FileKnown'
  <2>1. Loading /\ Call.files = {}
    BY <1>5, StepWorks DEF CloseFileFacts, Loading
  <2>2. \A p \in Disk : p.cat \in NamesIn
    BY <2>1 DEF HeldInv, LoadInv
  <2> QED
    BY <1>2, <2>2 DEF FileKnown
<1> QED
  BY <1>3, <1>4, <1>5, StepNames

-----------------------------------------------------------------------------
\* A request that waits for its callback: what it is visiting stays as it is.
Waits(d) ==
  /\ d.at \in {"hits", "pkglist"} /\ d.cat \in Ids /\ d.back \in {"done", "catlist"}
  /\ Sorting(d.request) /\ TopInv(d)
Untouched(d) ==
  /\ ctx'[d.cat].pkgs = ctx[d.cat].pkgs /\ ctx'[d.cat].complete = ctx[d.cat].complete
  /\ d.back = "catlist" => cats' = cats /\ complete'

LEMMA WaitsFor ==
  ASSUME FlagsInv, kind # "ebuild", NEW d, Waits(d)
  PROVE  /\ ctx[d.cat].complete /\ ctx[d.cat].pkgs.sorted
         /\ d.back = "catlist" => complete /\ cats.sorted
<1>1. CatPlace(d) /\ PkgPlace(d)
  BY DEF Waits, TopInv
<1> QED
  BY <1>1 DEF Waits, CatPlace, PkgPlace, Place, CatLabels

LEMMA StepUntouched ==
  ASSUME FlagsInv, HeldInv, TopInv(Call), Step, kind # "ebuild", NEW d, Waits(d)
  PROVE  Untouched(d)
<1> DEFINE x == d.cat
<1>1. /\ ctx[x].complete /\ ctx[x].pkgs.sorted /\ x \in Ids /\ d.back \in {"done", "catlist"}
      /\ d.back = "catlist" => complete /\ cats.sorted
  BY WaitsFor DEF Waits
<1>2. calls # <<>> /\ CacheTyped /\ FlagsTrue
  BY StepWorks DEF FlagsInv
<1>3. SortedPkgs(x) = ctx[x].pkgs /\ (cats.sorted => SortedCats = cats)
  BY <1>1 DEF SortedPkgs, SortedCats, SortedBy
<1>4. CASE Quiet
  BY <1>1, <1>3, <1>4 DEF Quiet, Untouched, CatsMoved, Stays
<1>5. ASSUME NEW c, NEW name, NewFacts(c, name), Call.at = "catdir" \/ ~complete
      PROVE  Untouched(d)
  <2>1. ~complete
    BY <1>5 DEF TopInv, CatPlace, Place, CatLabels
  <2>2. ctx'[x] = ctx[x]
    <3>1. FlagsMoved /\ NewCat(name) \in CatRecord /\ PkgsFlag(NewCat(name).pkgs)
      BY <1>5, StaysMoves, NewCatTyped DEF NewFacts
    <3> QED
      BY <1>1, <1>2, <1>5, <3>1, GrownTyped DEF NewFacts
  <2> QED
    BY <1>1, <2>1, <2>2 DEF Untouched
<1>6. ASSUME NEW c, CloseTreeFacts(c) PROVE Untouched(d)
  BY <1>6 DEF CloseTreeFacts, Untouched
<1>7. ~Loading
  BY <1>1 DEF HeldInv, LoadInv
<1>8. ASSUME Call.at = "blocks" PROVE FALSE
  BY <1>2, <1>7, <1>8 DEF Loading
<1>9. ASSUME Call.at = "pkgdir", Call.cat \in Ids PROVE x # Call.cat
  <2>1. ReadOf(Call.cat)
    BY <1>2, <1>9, ReadingFacts
  <2> QED
    BY <1>1, <2>1 DEF ReadOf
<1>10. ASSUME NEW f, NEW c, ReadPackageFacts(f, c) PROVE Untouched(d)
  <2>1. ctx'[x] = ctx[x]
    BY <1>1, <1>9, <1>10, PutFacts DEF ReadPackageFacts
  <2> QED
    BY <1>1, <1>10, <2>1 DEF ReadPackageFacts, Untouched, Stays
<1>11. ASSUME NEW c, CloseCategoryFacts(c) PROVE Untouched(d)
  <2>1. ctx'[x] = ctx[x]
    BY <1>1, <1>9, <1>11, CloseFacts DEF CloseCategoryFacts
  <2> QED
    BY <1>1, <1>11, <2>1 DEF CloseCategoryFacts, Untouched, Stays
<1> QED
  BY <1>4, <1>5, <1>6, <1>8, <1>10, <1>11, StepKinds DEF ReadBlockFacts, CloseFileFacts

LEMMA WaitsTop ==
  ASSUME FlagsInv, HeldInv, TopInv(Call), Step, kind # "ebuild", NEW d, Waits(d)
  PROVE  TopInv(d)'
<1> DEFINE x == d.cat
<1>1. Untouched(d) /\ NamesKept /\ kind' = kind
  BY StepUntouched, StepNames
<1>2. /\ d.at \in {"hits", "pkglist"} /\ x \in Ids /\ d.back \in {"done", "catlist"}
      /\ TopInv(d) /\ (d.back = "catlist" => complete /\ cats.sorted)
  BY WaitsFor DEF Waits
<1>3. ctx'[x].name = ctx[x].name /\ ctx'[x].pkgs = ctx[x].pkgs /\ ctx'[x].complete = ctx[x].complete
      /\ (d.back = "catlist" => cats' = cats /\ complete')
  BY <1>1, <1>2 DEF NamesKept, Untouched
<1>4. Place(d) = d.back
  BY <1>2 DEF Place, CatLabels
<1>5. \A k \in DOMAIN cats.elems : ctx'[cats.elems[k]].name = ctx[cats.elems[k]].name
  BY <1>1, CatsElems DEF NamesKept, FlagsInv
<1>6. ASSUME NEW p PROVE Left(d, p)' <=> Left(d, p)
  <2>1. Later(d, p)' <=> Later(d, p)
    BY <1>2, <1>3, <1>4, <1>5 DEF Later, Place
  <2>2. Here(d, p)' <=> Here(d, p)
    BY <1>2, <1>3 DEF Here
  <2> QED
    BY <2>1, <2>2 DEF Left
<1>7. OutOk(d)'
  BY <1>1, <1>2, <1>6, TellSame DEF TopInv
<1>8. CatPlace(d)'
  BY <1>2, <1>3, <1>4 DEF TopInv, CatPlace, Place
<1>9. PkgPlace(d)'
  BY <1>1, <1>2, <1>3 DEF TopInv, PkgPlace, Sorting
<1> QED
  BY <1>2, <1>7, <1>8, <1>9 DEF TopInv, AtomLike
-----------------------------------------------------------------------------
(* Answers.                                                                *)

LEMMA StepAnswers ==
  ASSUME FlagsInv, HeldInv, FileKnown, TopInv(Call), Step, ~Finish
  PROVE  answer' = answer /\ \E c : Fine(c)
<1>1. CASE EnterKnown
  BY <1>1, EnterKnownAnswers DEF EnterKnown
<1>2. CASE EnterUnknown
  BY <1>2, EnterUnknownAnswers DEF EnterUnknown
<1>3. CASE EnterComplete
  BY <1>3, EnterCompleteAnswers DEF EnterComplete
<1>4. CASE NextCategory
  BY <1>4, NextCategoryAnswers DEF NextCategory
<1>5. CASE ProbeCategory
  BY <1>5, ProbeAnswers DEF ProbeCategory
<1>6. CASE OpenTree
  BY <1>6, OpenTreeAnswers DEF OpenTree
<1>7. CASE ReadCategory
  BY <1>7, ReadCategoryAnswers DEF ReadCategory
<1>8. CASE CloseTree
  BY <1>8, CloseTreeAnswers DEF CloseTree
<1>9. CASE OpenFile
  BY <1>9, OpenFileAnswers DEF OpenFile
<1>10. CASE ReadBlock
  BY <1>10, ReadBlockAnswers DEF ReadBlock
<1>11. CASE CloseFile
  BY <1>11, CloseFileAnswers DEF CloseFile
<1>12. CASE EnterHits
  BY <1>12, EnterHitsAnswers DEF EnterHits
<1>13. CASE NextHit
  BY <1>13, NextHitAnswers DEF NextHit
<1>14. CASE EnterAbsent
  BY <1>14, EnterAbsentAnswers DEF EnterAbsent
<1>15. CASE EnterCached
  BY <1>15, EnterCachedAnswers DEF EnterCached
<1>16. CASE NextCached
  BY <1>16, NextCachedAnswers DEF NextCached
<1>17. CASE OpenCategory
  BY <1>17, OpenCategoryAnswers DEF OpenCategory
<1>18. CASE ReadName
  BY <1>18, ReadNameAnswers DEF ReadName
<1>19. CASE ReadPackage
  BY <1>19, ReadPackageAnswers DEF ReadPackage
<1>20. CASE CloseCategory
  BY <1>20, CloseCategoryAnswers DEF CloseCategory, ReadWhole, Restarts
<1> QED
  BY <1>1, <1>2, <1>3, <1>4, <1>5, <1>6, <1>7, <1>8, <1>9, <1>10, <1>11, <1>12, <1>13, <1>14,
     <1>15, <1>16, <1>17, <1>18, <1>19, <1>20 DEF Step

\* What a finished request was told is what it asked for.
LEMMA FinishAnswers ==
  ASSUME FlagsInv, HeldInv, TopInv(Call), Finish
  PROVE  \E s : /\ s \in Seq(Disk) /\ T!Answers(Call.request, s)
                /\ answer' = IF Depth = 1 THEN <<s, None>> ELSE <<None, s>>
<1> DEFINE r == Call.request
           N == Named(Reduced(r.flags, Call.out))
<1>1. Call.at = "done"
  BY DEF Finish, At
<1>2. Rest(Call) = {}
  BY <1>1 DEF Rest, Left, Later, Here, Place, CatLabels
<1>3. Call.out \in Seq(Outs) /\ Told(Named(Call.out), r, Rest(Call))
  BY DEF TopInv, OutOk
<1>4. Gives(Call.out, AskedOf(r), Sorting(r))
  BY <1>2, <1>3 DEF Gives, Told
<1>5. CacheTyped /\ NamesDiffer
  BY DEF FlagsInv, HeldInv, CatsInv, NamesDiffer
<1>6. N \in Seq(Disk) /\ T!Answers(r, N)
  BY <1>4, <1>5, ReducedAnswers
<1>7. answer' = IF Depth = 1 THEN <<N, None>> ELSE <<None, N>>
  BY DEF Finish
<1> HIDE DEF N
<1> QED
  BY <1>6, <1>7

-----------------------------------------------------------------------------
\* What the callback of a request asks.
InnerOf(r) == [query |-> r.inner, flags |-> DefaultFlags, inner |-> None]

\* Requests are those of callers, and of callbacks of settled traversals.
CallsUsual ==
  /\ calls # <<>> =>
       /\ calls[1].request \in Requests /\ answer[1] = None
       /\ calls[1].request.inner # None => kind # "ebuild"
  /\ calls = <<>> => answer[2] = None
  /\ Len(calls) = 2 =>
       calls[1].request.inner # None /\ calls[2].request = InnerOf(calls[1].request)

\* The request that is worked on and the one that waits for it were told in order.
AllTold == calls # <<>> => TopInv(Call) /\ (Len(calls) = 2 => TopInv(calls[1]))
AnsInv == CallsUsual /\ NestedAnswered /\ (~crashed => FileKnown /\ AllTold)

LEMMA FirstWaits ==
  ASSUME FlagsInv, HeldInv, CallsUsual, Len(calls) = 2, TopInv(calls[1])
  PROVE  kind # "ebuild" /\ Waits(calls[1])
<1>1. calls # <<>> /\ CallTyped(calls[1], Len(ctx)) /\ 1 \in 1..Len(calls)
  BY DEF FlagsInv, CallsTyped
<1>2. kind # "ebuild"
  BY <1>1 DEF CallsUsual
<1>3. /\ Sorting(calls[1].request) /\ calls[1].at \in {"hits", "pkglist"}
      /\ calls[1].back # "catdir"
  BY <1>1 DEF HeldInv, Nested, CatLabels
<1> QED
  BY <1>1, <1>2, <1>3 DEF Waits, CallTyped, CatLabels, Ids

LEMMA InnerLike ==
  ASSUME RequestsUsual, NEW r \in Requests, r.inner # None
  PROVE  AtomLike(InnerOf(r).query)
BY DEF RequestsUsual, InnerOf

\* What is an answer is one whatever the state is.
LEMMA AnswersStay ==
  ASSUME NEW r, NEW s, T!Answers(r, s)
  PROVE  T!Answers(r, s)'
BY DEF T!Answers, T!Wanted, T!Matching, T!Asked, T!Fits, T!Sorted, T!First, T!Latest, T!Precedes

LEMMA StillAnswered ==
  ASSUME NestedAnswered, answer' = answer, calls'[1].request = calls[1].request
  PROVE  NestedAnswered'
<1>1. PICK r, s : r = InnerOf(calls[1].request) /\ s = answer[2]
  OBVIOUS
<1>2. s # None => T!Answers(r, s)'
  BY <1>1, AnswersStay DEF NestedAnswered, InnerOf
<1>3. r = InnerOf(calls'[1].request) /\ s = answer'[2]
  BY <1>1
<1> QED
  BY <1>2, <1>3 DEF NestedAnswered, InnerOf

LEMMA ProceedsKeeps ==
  ASSUME FlagsInv, HeldInv, CallsUsual, NestedAnswered, AllTold, Step, answer' = answer,
         NEW c, Proceeds(c), TopInv(c)'
  PROVE  CallsUsual' /\ NestedAnswered' /\ AllTold'
<1>1. calls # <<>> /\ Len(calls) \in 1..2 /\ Depth = Len(calls) /\ kind' = kind
  BY StepWorks, StepNames, CallFacts DEF FlagsInv
<1>2. /\ calls' # <<>> /\ Len(calls') = Len(calls) /\ Call' = c /\ Depth' = Depth
      /\ c.request = Call.request /\ (Len(calls) = 2 => calls'[1] = calls[1])
  BY <1>1 DEF Proceeds, OnTop
<1>3. calls'[1].request = calls[1].request /\ (Len(calls) = 2 => calls'[2].request = calls[2].request)
  BY <1>1, <1>2 DEF Call, Depth
<1>4. CallsUsual'
  BY <1>1, <1>2, <1>3 DEF CallsUsual
<1>5. NestedAnswered'
  BY <1>3, StillAnswered
<1>6. TopInv(Call)'
  BY <1>2
<1>7. ASSUME Len(calls) = 2 PROVE TopInv(calls[1])'
  <2>1. TopInv(Call) /\ TopInv(calls[1])
    BY <1>1, <1>7 DEF AllTold
  <2>2. kind # "ebuild" /\ Waits(calls[1])
    BY <1>7, <2>1, FirstWaits
  <2>3. PICK d : d = calls[1]
    OBVIOUS
  <2>4. TopInv(d)'
    BY <2>1, <2>2, <2>3, WaitsTop
  <2>5. calls'[1] = d
    BY <1>2, <1>7, <2>3
  <2> QED
    BY <2>4, <2>5
<1> QED
  BY <1>2, <1>4, <1>5, <1>6, <1>7 DEF AllTold

LEMMA NestsKeeps ==
  ASSUME RequestsUsual, FlagsInv, HeldInv, CallsUsual, NestedAnswered, AllTold, Step,
         answer' = answer, NEW d, Nests(d), TopInv(d)'
  PROVE  CallsUsual' /\ NestedAnswered' /\ AllTold'
<1>1. calls # <<>> /\ Len(calls) = 1 /\ Call = calls[1] /\ kind' = kind
  BY StepWorks, StepNames DEF Nests, Pushed, Call, Depth
<1> DEFINE c == Asking(d)
<1>2. /\ calls' # <<>> /\ Len(calls') = 2 /\ calls'[1] = d /\ calls'[2] = c /\ Call' = c
      /\ d.request = calls[1].request /\ d.request.inner # None
  BY <1>1 DEF Nests, Pushed
<1>3. c = Entered(InnerOf(d.request)) /\ c.request = InnerOf(d.request)
  BY DEF Asking, InnerOf, Entered
<1>4. d.request \in Requests
  BY <1>1, <1>2 DEF CallsUsual
<1>5. PICK r : r = InnerOf(d.request)
  OBVIOUS
<1>6. TopInv(Entered(r))'
  BY <1>2, <1>4, <1>5, InnerLike, EnteredTop
<1> HIDE DEF c
<1>7. TopInv(Call)' /\ TopInv(calls[1])'
  <2>1. Call' = Entered(r)
    BY <1>2, <1>3, <1>5
  <2> QED
    BY <1>2, <1>6, <2>1
<1>8. CallsUsual'
  BY <1>1, <1>2, <1>3 DEF CallsUsual
<1>9. NestedAnswered'
  BY <1>1, <1>2, StillAnswered
<1> QED
  BY <1>2, <1>7, <1>8, <1>9 DEF AllTold

LEMMA FinishKeeps ==
  ASSUME FlagsInv, HeldInv, CallsUsual, NestedAnswered, AllTold, Finish
  PROVE  CallsUsual' /\ NestedAnswered' /\ AllTold'
<1>1. Step /\ Popped /\ calls # <<>> /\ TopInv(Call)
  BY FinishStep DEF AllTold, Step
<1>2. PICK s : /\ T!Answers(Call.request, s)
               /\ answer' = IF Depth = 1 THEN <<s, None>> ELSE <<None, s>>
  BY <1>1, FinishAnswers
<1>3. kind' = kind
  BY <1>1, StepNames
<1>4. CASE Len(calls) = 1
  <2>1. calls' = <<>> /\ Len(calls') = 0 /\ answer'[2] = None
    BY <1>1, <1>2, <1>4 DEF Popped, Depth
  <2> QED
    BY <2>1 DEF CallsUsual, NestedAnswered, AllTold
<1>5. CASE Len(calls) = 2
  <2>1. /\ calls' # <<>> /\ Len(calls') = 1 /\ calls'[1] = calls[1] /\ Call' = calls[1]
        /\ Call = calls[2] /\ answer'[1] = None /\ answer'[2] = s
    BY <1>1, <1>2, <1>5 DEF Popped, Depth, Call
  <2>2. CallsUsual'
    BY <1>1, <1>3, <2>1 DEF CallsUsual
  <2>3. NestedAnswered'
    <3>1. Call.request = InnerOf(calls[1].request)
      BY <1>5, <2>1 DEF CallsUsual
    <3>2. PICK r : r = Call.request
      OBVIOUS
    <3>3. T!Answers(r, s)'
      BY <1>2, <3>2, AnswersStay
    <3>4. r = InnerOf(calls'[1].request)
      BY <2>1, <3>1, <3>2
    <3> QED
      BY <2>1, <3>3, <3>4 DEF NestedAnswered, InnerOf
  <2>4. TopInv(Call)'
    <3>1. PICK d : d = calls[1]
      OBVIOUS
    <3>2. kind # "ebuild" /\ Waits(d)
      BY <1>1, <1>5, <3>1, FirstWaits DEF AllTold
    <3>3. TopInv(d)'
      BY <1>1, <3>2, WaitsTop
    <3> QED
      BY <2>1, <3>1, <3>3
  <2> QED
    BY <2>1, <2>2, <2>3, <2>4 DEF AllTold
<1> QED
  BY <1>1, <1>4, <1>5 DEF Popped

LEMMA BeginKeeps ==
  ASSUME SettledOnly, RequestsUsual, FlagsInv, NEW r \in Requests, Begin(r)
  PROVE  CallsUsual' /\ NestedAnswered' /\ AllTold'
<1>1. Opens(Entered(r)) /\ Entered(r).request = r /\ answer' = <<None, None>> /\ kind' = kind
  BY BeginStep DEF Begin, Entered
<1> DEFINE c == Entered(r)
<1>2. /\ calls' # <<>> /\ Len(calls') = 1 /\ calls'[1] = c /\ Call' = c
      /\ (r.inner # None => <<kind, Sorting(r)>> \in Nesting)
  BY <1>1 DEF Opens
<1>3. r.inner # None => kind # "ebuild"
  BY <1>2 DEF SettledOnly
<1>4. TopInv(c)'
  BY EnteredTop DEF RequestsUsual
<1> HIDE DEF c
<1>5. CallsUsual'
  BY <1>1, <1>2, <1>3 DEF CallsUsual, c
<1>6. NestedAnswered'
  BY <1>1 DEF NestedAnswered
<1> QED
  BY <1>2, <1>4, <1>5, <1>6 DEF AllTold

LEMMA AnsInit == Init => AnsInv
BY DEF Init, AnsInv, CallsUsual, NestedAnswered, FileKnown, AllTold

LEMMA AnsNext ==
  ASSUME SettledOnly, RequestsUsual, CacheInv, AnsInv, [Next]_vars
  PROVE  AnsInv'
<1>1. FlagsInv /\ (~crashed => HeldInv)
  BY DEF CacheInv
<1>2. CASE Step
  <2>1. HeldInv /\ FileKnown /\ calls # <<>> /\ AllTold /\ CallsUsual /\ NestedAnswered
    BY <1>1, <1>2, StepWorks DEF AnsInv
  <2>2. FileKnown'
    BY <1>1, <1>2, <2>1, FileKnownStep
  <2>3. CASE Finish
    BY <1>1, <2>1, <2>2, <2>3, FinishKeeps DEF AnsInv
  <2>4. CASE ~Finish
    <3>1. PICK c : Fine(c) /\ answer' = answer
      BY <1>1, <1>2, <2>1, <2>4, StepAnswers DEF AllTold
    <3>2. CASE Proceeds(c)
      BY <1>1, <1>2, <2>1, <2>2, <3>1, <3>2, ProceedsKeeps DEF AnsInv, Fine
    <3>3. CASE Nests(c)
      BY <1>1, <1>2, <2>1, <2>2, <3>1, <3>3, NestsKeeps DEF AnsInv, Fine
    <3> QED
      BY <3>1, <3>2, <3>3 DEF Fine
  <2> QED
    BY <2>3, <2>4
<1>3. ASSUME NEW r \in Requests, Begin(r) PROVE AnsInv'
  <2>1. FileKnown'
    BY <1>3 DEF Begin, AnsInv, FileKnown, FromFile, NamesIn, Ids, cache
  <2> QED
    BY <1>1, <1>3, <2>1, BeginKeeps DEF AnsInv
<1>4. CASE UNCHANGED vars
  <2>1. /\ kind' = kind /\ ctx' = ctx /\ cats' = cats /\ complete' = complete
        /\ calls' = calls /\ answer' = answer /\ crashed' = crashed /\ NamesKept
    BY <1>4 DEF vars, cache, NamesKept, Ids
  <2>2. ASSUME NEW c, TopInv(c) PROVE TopInv(c)'
    <3>1. \A p : Left(c, p)' <=> Left(c, p)
      BY <2>1 DEF Left, Later, Here, Place
    <3>2. OutOk(c)'
      BY <2>1, <2>2, <3>1, TellSame DEF TopInv
    <3>3. CatPlace(c)' /\ PkgPlace(c)'
      BY <2>1, <2>2 DEF TopInv, CatPlace, PkgPlace, Place
    <3> QED
      BY <2>2, <3>2, <3>3 DEF TopInv, AtomLike
  <2>3. CallsUsual' /\ NestedAnswered'
    BY <2>1, StillAnswered DEF AnsInv, CallsUsual
  <2>4. FileKnown' <=> FileKnown
    BY <2>1 DEF FileKnown, FromFile, NamesIn, Ids
  <2>5. ASSUME AllTold PROVE AllTold'
    <3>1. PICK a, b : a = Call /\ b = calls[1]
      OBVIOUS
    <3>2. Call' = a /\ calls'[1] = b
      BY <2>1, <3>1 DEF Call, Depth
    <3>3. calls # <<>> => TopInv(a)' /\ (Len(calls) = 2 => TopInv(b)')
      BY <2>2, <2>5, <3>1 DEF AllTold
    <3> QED
      BY <2>1, <3>2, <3>3 DEF AllTold
  <2> QED
    BY <2>1, <2>3, <2>4, <2>5 DEF AnsInv
<1> QED
  BY <1>2, <1>3, <1>4 DEF Next

\* Where callbacks ask again in sorted traversals of settled trees only, they are
\* answered like any other caller.
THEOREM CallbacksAnswered ==
  ASSUME SettledOnly, RequestsUsual
  PROVE  Spec => []NestedAnswered
<1>1. SortedOnly
  BY DEF SettledOnly, SortedOnly
<1>2. CacheInv /\ [Next]_vars => CacheInv'
  BY <1>1, CacheNext
<1>3. AnsInv /\ CacheInv /\ [Next]_vars => AnsInv'
  BY AnsNext
<1>4. AnsInv => NestedAnswered
  BY DEF AnsInv
<1> QED
  BY <1>2, <1>3, <1>4, CacheInit, AnsInit, PTL DEF Spec

LEMMA TreeStep ==
  ASSUME SettledOnly, RequestsUsual, CacheInv, AnsInv, [Next]_vars
  PROVE  [T!Next]_T!vars
<1> DEFINE req == IF calls = <<>> THEN None ELSE calls[1].request
<1>1. FlagsInv /\ (~crashed => HeldInv) /\ CallsUsual
  BY DEF CacheInv, AnsInv
<1>2. None \notin Requests
  BY DEF RequestsUsual
<1>3. CASE Step
  <2>1. HeldInv /\ FileKnown /\ calls # <<>> /\ AllTold
    BY <1>1, <1>3, StepWorks DEF AnsInv
  <2>2. req = calls[1].request /\ req # None
    BY <1>1, <1>2, <2>1 DEF CallsUsual
  <2>3. CASE Finish
    <3>1. PICK s : /\ s \in Seq(Disk) /\ T!Answers(Call.request, s)
                   /\ answer' = IF Depth = 1 THEN <<s, None>> ELSE <<None, s>>
      BY <1>1, <2>1, <2>3, FinishAnswers DEF AllTold
    <3>2. Popped
      BY <1>1, <2>3, FinishStep
    <3>3. CASE Len(calls) = 1
      <4>1. calls' = <<>> /\ answer'[1] = s /\ Call = calls[1]
        BY <3>1, <3>2, <3>3 DEF Popped, Depth, Call
      <4>2. T!Reply
        BY <2>2, <3>1, <4>1 DEF T!Reply, T!Answers, T!Wanted, T!Matching, T!Asked, T!Fits, T!Sorted,
              T!First, T!Latest, T!Precedes
      <4> QED
        BY <4>2 DEF T!Next
    <3>4. CASE Len(calls) = 2
      <4>1. calls' # <<>> /\ calls'[1] = calls[1] /\ answer'[1] = None
        BY <3>1, <3>2, <3>4 DEF Popped, Depth
      <4>2. answer[1] = None
        BY <1>1, <2>1 DEF CallsUsual
      <4> QED
        BY <2>1, <4>1, <4>2 DEF T!vars
    <3> QED
      BY <3>2, <3>3, <3>4 DEF Popped
  <2>4. CASE ~Finish
    <3>1. PICK c : Fine(c) /\ answer' = answer
      BY <1>1, <1>3, <2>1, <2>4, StepAnswers DEF AllTold
    <3>2. calls' # <<>> /\ calls'[1].request = calls[1].request
      <4>1. CASE Proceeds(c)
        <5>1. Len(calls) \in 1..2 /\ Depth = Len(calls)
          BY <1>1, <2>1, CallFacts DEF FlagsInv
        <5> QED
          BY <4>1, <5>1 DEF Proceeds, OnTop, Call, Depth
      <4>2. CASE Nests(c)
        BY <4>2 DEF Nests, Pushed, Call, Depth
      <4> QED
        BY <3>1, <4>1, <4>2 DEF Fine
    <3> QED
      BY <2>1, <3>1, <3>2 DEF T!vars
  <2> QED
    BY <2>3, <2>4
<1>4. ASSUME NEW r \in Requests, Begin(r) PROVE T!Next
  <2>1. Opens(Entered(r)) /\ Entered(r).request = r /\ answer' = <<None, None>>
    BY <1>1, <1>4, BeginStep DEF Begin, Entered
  <2>2. calls = <<>> /\ calls' # <<>> /\ calls'[1].request = r /\ answer'[1] = None
    BY <2>1 DEF Opens
  <2> QED
    BY <2>2 DEF T!Next, T!Ask
<1>5. CASE UNCHANGED vars
  BY <1>5 DEF vars, T!vars
<1> QED
  BY <1>3, <1>4, <1>5 DEF Next

\* A request is answered from the packages that are there, whatever was asked before:
\* the cache cannot be told from the tree.
THEOREM TreeImplemented ==
  ASSUME SettledOnly, RequestsUsual
  PROVE  Spec => ImplementsTree
<1>1. SortedOnly
  BY DEF SettledOnly, SortedOnly
<1>2. CacheInv /\ [Next]_vars => CacheInv'
  BY <1>1, CacheNext
<1>3. AnsInv /\ CacheInv /\ [Next]_vars => AnsInv'
  BY AnsNext
<1>4. AnsInv /\ CacheInv /\ [Next]_vars => [T!Next]_T!vars
  BY TreeStep
<1>5. Init => T!Init
  BY DEF Init, T!Init
<1> QED
  BY <1>2, <1>3, <1>4, <1>5, CacheInit, AnsInit, PTL DEF Spec, ImplementsTree, T!Spec

-----------------------------------------------------------------------------
(* Fetching packages.                                                      *)

Fetching == {"sweep", "check", "unlink", "fetch", "verify"}

\* A package is in hand exactly while it is fetched and verified.
FetchTypeOK ==
  /\ file \in [Pkg -> Files]
  /\ pc \in Labels
  /\ opts \in {NoOptions} \cup Runs
  /\ install \in BOOLEAN /\ pretend \in {Earnest, Showing, Rehearsing}
  /\ targets \in SUBSET Pkg /\ todo \in SUBSET Pkg
  /\ pc \in Fetching => cur \in Pkg
  /\ merges \in Seq(Merging)
  /\ opened \in SUBSET Opened
  /\ replaced \in BOOLEAN
  /\ swaps \in Nat

\* Calls are under way only between two questions, and only in earnest is anything
\* fetched.
StageInv ==
  /\ pc \in {"idle", "prompt"} => merges = <<>>
  /\ pc \in Fetching => pretend = Earnest
  /\ pc = "image" => merges # <<>> /\ pretend # Rehearsing


\* The file of every call of pkg_merge that waits for its dependencies still verifies,
\* if nobody else replaced it.
WaitInv ==
  pretend = Earnest =>
    \A i \in DOMAIN merges :
      merges[i].kept => Verdict(merges[i].pkg, file[merges[i].pkg]) = "right"

\* What is about to be unlinked does not verify, or others put it there just now: a call
\* that waits for its dependencies with a file of that name knows it is another one.
UnlinkInv ==
  pc = "unlink" =>
    /\ opts.force
    /\ ~replaced => Verdict(cur, file[cur]) # "right"
    /\ replaced => \A i \in DOMAIN merges : merges[i].pkg = cur => ~merges[i].kept

FetchInv == FetchTypeOK /\ StageInv /\ WaitInv /\ UnlinkInv /\ VerifiedOnly

\* What a verdict of "right" says: a digest was there, and no complaint.
LEMMA RightIsGood ==
  ASSUME NEW p \in Pkg, NEW f \in Files, Verdict(p, f) = "right"
  PROVE  f = "good" /\ Hashes[p] # {}
BY DEF Verdict, Mismatches, Files

\* The sweep of empty files changes nothing, as stat() never finds the file.
LEMMA SweptSame == \A f : Swept(f) = f
BY DEF Swept, StatFinds

LEMMA NoCalls == <<>> \in Seq(Merging)
OBVIOUS

\* The stack of calls: its last one, and what is left without it.
LEMMA MergeCallFacts ==
  ASSUME FetchTypeOK, merges # <<>>
  PROVE  /\ Len(merges) \in DOMAIN merges /\ Inner = merges[Len(merges)] /\ Inner \in Merging
         /\ Outer \in Seq(Merging) /\ DOMAIN Outer \subseteq DOMAIN merges
         /\ \A i \in DOMAIN Outer : Outer[i] = merges[i]
<1>1. merges \in Seq(Merging)
  BY DEF FetchTypeOK
<1>2. Len(merges) \in Nat \ {0} /\ DOMAIN merges = 1 .. Len(merges)
  BY <1>1
<1>3. Outer \in Seq(Merging) /\ Len(Outer) = Len(merges) - 1 /\ \A i \in 1 .. Len(merges) - 1 : Outer[i] = merges[i]
  BY <1>1, <1>2 DEF Outer
<1>4. DOMAIN Outer = 1 .. Len(merges) - 1
  BY <1>3
<1>5. \A i \in DOMAIN merges : merges[i] \in Merging
  BY <1>1
<1> QED
  BY <1>2, <1>3, <1>4, <1>5 DEF Inner

\* Taking a package from the list of the innermost call changes nothing else in it.
LEMMA ButFacts ==
  ASSUME FetchTypeOK, NEW p
  PROVE  /\ MergesBut(p) \in Seq(Merging) /\ DOMAIN MergesBut(p) = DOMAIN merges
         /\ merges = <<>> => MergesBut(p) = <<>>
         /\ \A i \in DOMAIN merges :
              MergesBut(p)[i].pkg = merges[i].pkg /\ MergesBut(p)[i].kept = merges[i].kept
<1>1. merges \in Seq(Merging)
  BY DEF FetchTypeOK
<1>2. CASE merges = <<>>
  BY <1>1, <1>2 DEF MergesBut
<1>3. CASE merges # <<>>
  <2> DEFINE n == Len(merges)
             m == [merges[n] EXCEPT !.deps = @ \ {p}]
  <2>1. n \in DOMAIN merges /\ merges[n] \in Merging
    BY <1>3, MergeCallFacts
  <2>2. m \in Merging /\ m.pkg = merges[n].pkg /\ m.kept = merges[n].kept
    BY <2>1 DEF Merging
  <2>3. MergesBut(p) = [merges EXCEPT ![n] = m]
    BY <1>3 DEF MergesBut
  <2>4. [merges EXCEPT ![n] = m] \in Seq(Merging)
    BY <1>1, <2>1, <2>2, ExceptSeq
  <2> HIDE DEF m
  <2> QED
    BY <1>1, <1>3, <2>1, <2>2, <2>3, <2>4
<1> QED
  BY <1>2, <1>3

\* Entering pkg_merge adds a call whose file nobody has replaced yet.
LEMMA EnterFacts ==
  ASSUME FetchTypeOK, NEW ms \in Seq(Merging), NEW p \in Pkg, EnterMerge(ms, p)
  PROVE  /\ merges' \in Seq(Merging) /\ Len(merges') = Len(ms) + 1
         /\ \A i \in DOMAIN merges' :
              IF i \in DOMAIN ms THEN merges'[i] = ms[i] ELSE merges'[i].pkg = p
<1> DEFINE m == [pkg |-> p, deps |-> IF opts.follow THEN Needs[p] ELSE {}, kept |-> TRUE]
<1>1. m \in Merging /\ m.pkg = p
  BY IndexAssumption DEF Merging
<1>2. merges' = Append(ms, m)
  BY DEF EnterMerge
<1> HIDE DEF m
<1>3. merges' \in Seq(Merging) /\ Len(merges') = Len(ms) + 1 /\ DOMAIN merges' = 1 .. Len(ms) + 1
  BY <1>1, <1>2
<1>4. ASSUME NEW i \in DOMAIN merges'
      PROVE  IF i \in DOMAIN ms THEN merges'[i] = ms[i] ELSE merges'[i] = m
  BY <1>1, <1>2, <1>3
<1> QED
  BY <1>1, <1>3, <1>4

\* Somebody else replacing a file: the calls stay as they are, but for kept.
LEMMA SwapFacts ==
  ASSUME FetchTypeOK, NEW p \in Pkg,
         merges' = [i \in DOMAIN merges |-> [merges[i] EXCEPT !.kept = @ /\ merges[i].pkg # p]]
  PROVE  /\ merges' \in Seq(Merging) /\ DOMAIN merges' = DOMAIN merges
         /\ merges = <<>> <=> merges' = <<>>
         /\ \A i \in DOMAIN merges :
              /\ merges'[i].pkg = merges[i].pkg
              /\ merges'[i].kept => merges[i].kept /\ merges[i].pkg # p
<1>1. merges \in Seq(Merging) /\ Len(merges) \in Nat /\ DOMAIN merges = 1 .. Len(merges)
  BY DEF FetchTypeOK
<1>2. \A i \in DOMAIN merges : merges[i] \in Merging
  BY <1>1
<1>3. ASSUME NEW i \in DOMAIN merges
      PROVE  /\ merges'[i] \in Merging /\ merges'[i].pkg = merges[i].pkg
             /\ merges'[i].kept => merges[i].kept /\ merges[i].pkg # p
  BY <1>2, <1>3 DEF Merging
<1>4. DOMAIN merges' = 1 .. Len(merges)
  BY <1>1
<1>5. merges' \in [1 .. Len(merges) -> Merging]
  BY <1>1, <1>3
<1>6. merges' \in Seq(Merging) /\ Len(merges') = Len(merges)
  BY <1>1, <1>5
<1>7. merges = <<>> <=> merges' = <<>>
  <2>1. merges = <<>> <=> Len(merges) = 0
    BY <1>1
  <2>2. merges' = <<>> <=> Len(merges') = 0
    BY <1>6
  <2> QED
    BY <1>6, <2>1, <2>2
<1>8. DOMAIN merges' = DOMAIN merges
  BY <1>1, <1>4
<1> QED
  BY <1>3, <1>6, <1>7, <1>8

LEMMA FetchInitInv == FetchInit => FetchInv
<1> SUFFICES ASSUME FetchInit PROVE FetchInv
  OBVIOUS
<1>1. FetchTypeOK
  <2>1. merges \in Seq(Merging)
    BY NoCalls DEF FetchInit
  <2> QED
    BY <2>1 DEF FetchInit, FetchTypeOK, Labels, Fetching
<1>2. StageInv /\ UnlinkInv /\ VerifiedOnly
  BY DEF FetchInit, StageInv, UnlinkInv, VerifiedOnly, Fetching
<1>3. WaitInv
  BY DEF FetchInit, WaitInv
<1> QED
  BY <1>1, <1>2, <1>3 DEF FetchInv

\* What the steps that end a call, or the program, leave of the calls.
LEMMA OuterInv ==
  ASSUME FetchInv, merges # <<>>, merges' = Outer
  PROVE  /\ merges' \in Seq(Merging)
         /\ \A i \in DOMAIN merges' : i \in DOMAIN merges /\ merges'[i] = merges[i]
BY MergeCallFacts DEF FetchInv

\* Types and stages.
LEMMA StageStep == ASSUME FetchInv, [FetchNext]_fetchVars PROVE FetchTypeOK' /\ StageInv'
<1> USE DEF FetchInv, FetchTypeOK, StageInv, Labels, Fetching, run, Return, Exit
<1>0. FetchTypeOK
  OBVIOUS
<1>1. CASE Start
  BY <1>1, IndexAssumption DEF Start, RunOptions
<1>2. CASE Rehearse
  <2>1. PICK p \in Waiting : todo' = TargetsBut(p) /\ EnterMerge(MergesBut(p), p)
    BY <1>2 DEF Rehearse
  <2>2. p \in Pkg
    BY <2>1, <1>0, MergeCallFacts DEF Waiting, Merging
  <2>3. MergesBut(p) \in Seq(Merging)
    BY <1>0, ButFacts
  <2>4. merges' \in Seq(Merging)
    BY <1>0, <2>1, <2>2, <2>3, EnterFacts
  <2>5. todo' \in SUBSET Pkg
    BY <2>1 DEF TargetsBut
  <2> QED
    BY <1>2, <2>4, <2>5 DEF Rehearse
<1>3. CASE TakeUp
  <2>1. PICK p \in Waiting : cur' = p /\ todo' = TargetsBut(p) /\ merges' = MergesBut(p)
    BY <1>3 DEF TakeUp
  <2>2. p \in Pkg
    BY <2>1, <1>0, MergeCallFacts DEF Waiting, Merging
  <2>3. merges' \in Seq(Merging)
    BY <1>0, <2>1, ButFacts
  <2>4. todo' \in SUBSET Pkg
    BY <2>1 DEF TargetsBut
  <2> QED
    BY <1>3, <2>1, <2>2, <2>3, <2>4 DEF TakeUp
<1>4. CASE Sweep
  BY <1>4, SweptSame DEF Sweep
<1>5. CASE Check
  BY <1>5 DEF Check
<1>6. CASE Unlink
  BY <1>6 DEF Unlink, Files
<1>7. CASE Fetch
  <2>1. file' \in [Pkg -> Files]
    BY <1>7, SweptSame DEF Fetch
  <2> QED
    BY <1>7, <2>1 DEF Fetch
<1>8. CASE Verify
  <2>1. merges' \in Seq(Merging)
    <3>1. CASE UNCHANGED merges \/ merges' = <<>>
      BY <3>1, NoCalls
    <3>2. CASE EnterMerge(merges, cur)
      BY <1>0, <1>8, <3>2, EnterFacts DEF Verify
    <3> QED
      BY <1>8, <3>1, <3>2 DEF Verify
  <2>2. pc' = "next" \/ (pc' = "idle" /\ merges' = <<>>)
    BY <1>8 DEF Verify
  <2> QED
    BY <1>8, <2>1, <2>2 DEF Verify
<1>9. CASE OpenMeta
  <2>1. merges' \in Seq(Merging)
    <3>1. merges' \in {merges, Outer, <<>>}
      BY <1>9 DEF OpenMeta
    <3>2. Outer \in Seq(Merging)
      BY <1>0, <1>9, MergeCallFacts DEF OpenMeta
    <3> QED
      BY <3>1, <3>2, NoCalls
  <2>2. ASSUME pretend # Rehearsing, NEW part \in {"vdb", "image"}, Open(part)
        PROVE  opened' \in SUBSET Opened
    BY <1>0, <1>9, <2>2, MergeCallFacts DEF OpenMeta, Open, Opened, Merging
  <2>3. opened' \in SUBSET Opened
    BY <1>9, <2>2 DEF OpenMeta
  <2> QED
    BY <1>9, <2>1, <2>3 DEF OpenMeta
<1>10. CASE OpenImage
  <2>1. merges # <<>> /\ pretend # Rehearsing
    BY <1>10 DEF OpenImage
  <2>2. merges' \in Seq(Merging)
    <3>1. merges' \in {Outer, <<>>}
      BY <1>10 DEF OpenImage
    <3>2. Outer \in Seq(Merging)
      BY <1>0, <2>1, MergeCallFacts
    <3> QED
      BY <3>1, <3>2, NoCalls
  <2>3. opened' \in SUBSET Opened
    BY <1>0, <1>10, <2>1, MergeCallFacts DEF OpenImage, Open, Opened, Merging
  <2> QED
    BY <1>10, <2>2, <2>3 DEF OpenImage
<1>11. CASE EndPass
  BY <1>11 DEF EndPass
<1>12. CASE Prompt
  BY <1>12 DEF Prompt
<1>13. CASE Kill
  <2>1. file' \in [Pkg -> Files]
    BY <1>13 DEF Kill
  <2> QED
    BY <1>13, <2>1 DEF Kill
<1>14. CASE Swap
  <2>1. PICK p \in Pkg, f \in Files :
          /\ file' = [file EXCEPT ![p] = f]
          /\ replaced' = (replaced \/ p = cur)
          /\ merges' = [i \in DOMAIN merges |-> [merges[i] EXCEPT !.kept = @ /\ merges[i].pkg # p]]
    BY <1>14 DEF Swap
  <2>2. merges' \in Seq(Merging) /\ (merges = <<>> <=> merges' = <<>>)
    BY <1>0, <2>1, SwapFacts
  <2>3. file' \in [Pkg -> Files] /\ replaced' \in BOOLEAN /\ swaps' \in Nat
    BY <1>14, <2>1 DEF Swap
  <2> QED
    BY <1>14, <2>2, <2>3 DEF Swap
<1>15. CASE UNCHANGED fetchVars
  BY <1>15 DEF fetchVars
<1> QED
  BY <1>1, <1>2, <1>3, <1>4, <1>5, <1>6, <1>7, <1>8, <1>9, <1>10, <1>11, <1>12, <1>13, <1>14, <1>15
     DEF FetchNext

\* What a step of the program itself, killed or not, may do to a file that is there:
\* nothing, but for the unlink.
Loses(p) == file[p] # "absent" /\ file'[p] # file[p]

LEMMA UnlinkLoses ==
  ASSUME FetchInv, FetchNext, NEW p \in Pkg, Loses(p), ~Swap
  PROVE  Unlink /\ p = cur
<1> USE DEF Loses, FetchInv, FetchTypeOK, Fetching
<1>1. CASE Unlink
  BY <1>1 DEF Unlink
<1>2. CASE Sweep
  BY <1>2, SweptSame DEF Sweep
<1>3. CASE Fetch
  BY <1>3, SweptSame DEF Fetch, Missing
<1>4. CASE Kill
  BY <1>4 DEF Kill, Missing
<1>5. CASE UNCHANGED file
  BY <1>5
<1> QED
  BY <1>1, <1>2, <1>3, <1>4, <1>5 DEF FetchNext, Start, Rehearse, TakeUp, Check, Verify, OpenMeta,
     OpenImage, EndPass, Prompt

\* So what a waiting call has verified stays: an unlink of that name is of a file that
\* does not verify, or the call knows that it is another one.
LEMMA WaitingKept ==
  ASSUME FetchInv, FetchNext, ~Swap, NEW i \in DOMAIN merges, merges[i].kept,
         Verdict(merges[i].pkg, file[merges[i].pkg]) = "right"
  PROVE  Verdict(merges[i].pkg, file'[merges[i].pkg]) = "right"
<1> DEFINE p == merges[i].pkg
<1>1. p \in Pkg
  <2>1. merges \in Seq(Merging)
    BY DEF FetchInv, FetchTypeOK
  <2>2. merges[i] \in Merging
    BY <2>1
  <2> QED
    BY <2>2 DEF Merging
<1>2. file[p] # "absent"
  BY <1>1, RightIsGood DEF FetchInv, FetchTypeOK
<1>3. CASE file'[p] = file[p]
  BY <1>3
<1>4. CASE file'[p] # file[p]
  <2>1. Unlink /\ p = cur
    BY <1>1, <1>2, <1>4, UnlinkLoses DEF Loses
  <2> QED
    BY <2>1 DEF Unlink, FetchInv, UnlinkInv
<1> QED
  BY <1>3, <1>4

LEMMA WaitStep == ASSUME FetchInv, [FetchNext]_fetchVars PROVE WaitInv'
<1>0. FetchTypeOK /\ StageInv /\ WaitInv
  BY DEF FetchInv
<1> SUFFICES ASSUME pretend' = Earnest, NEW i \in DOMAIN merges', merges'[i].kept
             PROVE  Verdict(merges'[i].pkg, file'[merges'[i].pkg]) = "right"
  BY DEF WaitInv
\* A call that was under way, in a step that is not a Swap.
<1>1. ASSUME FetchNext, ~Swap, pretend = Earnest, i \in DOMAIN merges,
             merges'[i].pkg = merges[i].pkg, merges'[i].kept = merges[i].kept
      PROVE  Verdict(merges'[i].pkg, file'[merges'[i].pkg]) = "right"
  BY <1>0, <1>1, WaitingKept DEF WaitInv
<1>2. merges' # <<>>
  OBVIOUS
<1>3. CASE ~Swap /\ UNCHANGED <<merges, pretend>> /\ FetchNext
  BY <1>1, <1>3
<1>4. CASE Start \/ Prompt
  BY <1>0, <1>2, <1>4 DEF Start, Prompt, StageInv
<1>5. CASE Rehearse
  BY <1>5 DEF Rehearse
<1>6. CASE TakeUp /\ ~Swap
  <2>1. PICK p : merges' = MergesBut(p)
    BY <1>6 DEF TakeUp
  <2>2. i \in DOMAIN merges /\ merges'[i].pkg = merges[i].pkg /\ merges'[i].kept = merges[i].kept
    BY <1>0, <2>1, ButFacts
  <2> QED
    BY <1>1, <1>6, <2>2 DEF TakeUp, FetchNext
<1>7. CASE Verify /\ ~Swap
  <2>1. CASE UNCHANGED merges
    BY <1>1, <1>7, <2>1 DEF Verify, FetchNext
  <2>2. CASE Verdict(cur, file[cur]) = "right" /\ EnterMerge(merges, cur)
    <3>1. cur \in Pkg /\ merges \in Seq(Merging)
      BY <1>0, <1>7 DEF Verify, FetchTypeOK, Fetching
    <3>2. CASE i \in DOMAIN merges
      BY <1>0, <1>1, <1>7, <2>2, <3>1, <3>2, EnterFacts DEF Verify, FetchNext
    <3>3. CASE i \notin DOMAIN merges
      BY <1>0, <1>7, <2>2, <3>1, <3>3, EnterFacts DEF Verify
    <3> QED
      BY <3>2, <3>3
  <2> QED
    BY <1>2, <1>7, <2>1, <2>2 DEF Verify, Exit
<1>8. CASE (OpenMeta \/ OpenImage) /\ ~Swap
  <2>1. CASE UNCHANGED merges
    BY <1>1, <1>8, <2>1 DEF OpenMeta, OpenImage, FetchNext
  <2>2. CASE merges' = Outer /\ merges # <<>>
    <3>1. i \in DOMAIN merges /\ merges'[i] = merges[i]
      BY <1>0, <2>2, MergeCallFacts
    <3> QED
      BY <1>1, <1>8, <3>1 DEF OpenMeta, OpenImage, FetchNext
  <2> QED
    BY <1>0, <1>2, <1>8, <2>1, <2>2 DEF OpenMeta, OpenImage, Exit, StageInv
<1>9. CASE Kill
  BY <1>2, <1>9 DEF Kill, Exit
<1>10. CASE Swap
  <2>1. PICK p \in Pkg, f \in Files :
          /\ file' = [file EXCEPT ![p] = f]
          /\ merges' = [j \in DOMAIN merges |-> [merges[j] EXCEPT !.kept = @ /\ merges[j].pkg # p]]
    BY <1>10 DEF Swap
  <2>2. i \in DOMAIN merges /\ merges'[i].pkg = merges[i].pkg /\ merges[i].kept /\ merges[i].pkg # p
    BY <1>0, <2>1, SwapFacts
  <2>3. file'[merges[i].pkg] = file[merges[i].pkg]
    BY <1>0, <2>1, <2>2 DEF FetchTypeOK
  <2>4. pretend = Earnest
    BY <1>10 DEF Swap
  <2> QED
    BY <1>0, <2>2, <2>3, <2>4 DEF WaitInv
<1>11. CASE UNCHANGED fetchVars
  BY <1>0, <1>11 DEF fetchVars, WaitInv
<1> QED
  BY <1>3, <1>4, <1>5, <1>6, <1>7, <1>8, <1>9, <1>10, <1>11
     DEF FetchNext, Sweep, Check, Unlink, Fetch, EndPass

LEMMA UnlinkStep == ASSUME FetchInv, [FetchNext]_fetchVars PROVE UnlinkInv'
<1>0. FetchTypeOK /\ UnlinkInv
  BY DEF FetchInv
<1>1. CASE Check
  <2>1. pc' = "unlink" => opts.force /\ Verdict(cur, file[cur]) # "right"
    BY <1>1 DEF Check, Wanted
  <2>2. opts' = opts /\ cur' = cur /\ file' = file /\ replaced' = FALSE
    BY <1>1 DEF Check, run
  <2> QED
    BY <2>1, <2>2 DEF UnlinkInv
<1>2. CASE Swap
  <2>1. PICK p \in Pkg, f \in Files :
          /\ file' = [file EXCEPT ![p] = f]
          /\ replaced' = (replaced \/ p = cur)
          /\ merges' = [j \in DOMAIN merges |-> [merges[j] EXCEPT !.kept = @ /\ merges[j].pkg # p]]
    BY <1>2 DEF Swap
  <2>2. ASSUME pc = "unlink", ~replaced'
        PROVE  Verdict(cur, file'[cur]) # "right"
    BY <1>0, <2>1, <2>2 DEF UnlinkInv, FetchTypeOK, Fetching
  <2>3. ASSUME pc = "unlink", replaced', NEW i \in DOMAIN merges', merges'[i].pkg = cur, merges'[i].kept
        PROVE  FALSE
    BY <1>0, <2>1, <2>3, SwapFacts DEF UnlinkInv
  <2> QED
    BY <1>0, <1>2, <2>2, <2>3 DEF Swap, UnlinkInv, run
<1>3. CASE UNCHANGED fetchVars
  BY <1>0, <1>3 DEF fetchVars, UnlinkInv, run
<1>4. CASE pc' # "unlink"
  BY <1>4 DEF UnlinkInv
<1> QED
  BY <1>1, <1>2, <1>3, <1>4 DEF FetchNext, Start, Rehearse, TakeUp, Sweep, Unlink, Fetch, Verify,
     OpenMeta, OpenImage, EndPass, Prompt, Kill, Return, Exit

\* What is opened was waiting until then.
LEMMA VerifiedStep == ASSUME FetchInv, [FetchNext]_fetchVars PROVE VerifiedOnly'
<1>0. FetchTypeOK /\ StageInv /\ WaitInv /\ VerifiedOnly
  BY DEF FetchInv
<1>1. CASE UNCHANGED opened \/ opened' = {}
  BY <1>0, <1>1 DEF VerifiedOnly
<1>2. ASSUME merges # <<>>, NEW part, Open(part) PROVE VerifiedOnly'
  <2> SUFFICES ASSUME NEW u \in opened', u.pretend = Earnest, u.kept
               PROVE  u.file = "good" /\ Hashes[u.pkg] # {}
    BY DEF VerifiedOnly
  <2>1. /\ Len(merges) \in DOMAIN merges /\ Inner = merges[Len(merges)]
        /\ Inner.pkg \in Pkg /\ file[Inner.pkg] \in Files
    BY <1>0, <1>2, MergeCallFacts DEF Merging, FetchTypeOK
  <2>2. /\ u.pkg = Inner.pkg /\ u.file = file[Inner.pkg] /\ u.kept = Inner.kept
        /\ pretend = Earnest
    <3>1. u = [pkg |-> Inner.pkg, part |-> part, file |-> file[Inner.pkg],
               kept |-> Inner.kept, pretend |-> pretend]
      BY <1>2 DEF Open
    <3> QED
      BY <3>1
  <2>3. Verdict(Inner.pkg, file[Inner.pkg]) = "right"
    BY <1>0, <2>1, <2>2 DEF WaitInv
  <2> QED
    BY <2>1, <2>2, <2>3, RightIsGood
<1>3. CASE OpenMeta
  BY <1>1, <1>2, <1>3 DEF OpenMeta
<1>4. CASE OpenImage
  BY <1>0, <1>1, <1>2, <1>4 DEF OpenImage, StageInv
<1> QED
  BY <1>1, <1>3, <1>4 DEF FetchNext, Start, Rehearse, TakeUp, Sweep, Check, Unlink, Fetch, Verify,
     EndPass, Prompt, Kill, Swap, fetchVars

LEMMA FetchInductive == FetchInv /\ [FetchNext]_fetchVars => FetchInv'
BY StageStep, WaitStep, UnlinkStep, VerifiedStep DEF FetchInv

LEMMA KeptStep ==
  ASSUME FetchInv, FetchNext, NEW p \in Pkg, Loses(p), swaps' = swaps
  PROVE  opts.force /\ (Verdict(p, file[p]) # "right" \/ replaced)
<1>1. ~Swap
  BY DEF Swap, FetchInv, FetchTypeOK
<1>2. Unlink /\ p = cur
  BY <1>1, UnlinkLoses
<1> QED
  BY <1>2 DEF Unlink, FetchInv, UnlinkInv

\* For every index and every number of nested calls: what pkg_merge unpacks was verified,
\* or somebody else replaced it since.
THEOREM MergedAreVerified == FetchSpec => []VerifiedOnly
<1>1. FetchInv => VerifiedOnly
  BY DEF FetchInv
<1> QED
  BY FetchInitInv, FetchInductive, <1>1, PTL DEF FetchSpec

\* A file that verifies is never lost to a run, killed or not, and any other only to
\* a forced download.
THEOREM GoodFilesStay == FetchSpec => GoodKept
<1> DEFINE Keeping ==
      \A p \in Pkg :
        Loses(p) /\ swaps' = swaps => opts.force /\ (Verdict(p, file[p]) # "right" \/ replaced)
<1>1. FetchInv /\ [FetchNext]_fetchVars => [Keeping]_fetchVars
  BY KeptStep
<1> QED
  BY FetchInitInv, FetchInductive, <1>1, PTL DEF FetchSpec, GoodKept, Loses

=============================================================================
