------------------------------ MODULE AtomProofs ------------------------------
(***************************************************************************)
(* The comparison of atoms whatever the versions are.  Both directions     *)
(* agree, a blocker takes what the atom it blocks does not take: each step *)
(* of the comparison is shown to answer -1, 0, 1 or nothing, and the       *)
(* opposite when its arguments are swapped; the first step that decides is *)
(* then the same one in both directions.  The order is that of PMS: each   *)
(* step decides what the part of PMS decides that it stands for.  And it   *)
(* is one to sort by: numbers, letter, suffixes and revision are keys that *)
(* are compared lexicographically.                                         *)
(***************************************************************************)
EXTENDS Atom, WellFoundedInduction, TLAPS

Sign == {-1, 0, 1}

\* What a step answers with its arguments swapped.
Opposite(m, n) ==
  \/ m = Undecided /\ n = Undecided
  \/ m \in Sign /\ n \in Sign /\ m + n = 0

\* The result stands for the call.
IInv == TypeOK /\ (Compared => result = AtomCompare(data, query, flags))

LEMMA LeastFacts ==
  ASSUME NEW S \in SUBSET Nat, S # {}
  PROVE  Least(S) \in S /\ \A j \in S : Least(S) <= j
  <1>1. \E i \in S : \A j \in S : ~ (<<j, i>> \in OpToRel(<, Nat))
    BY WFMin, NatLessThanWellFounded
  <1>2. \A i, j \in Nat : ~ (<<j, i>> \in OpToRel(<, Nat)) => i <= j
    BY DEF OpToRel
  <1>3. \E i \in S : \A j \in S : i <= j
    BY <1>1, <1>2
  <1> QED
    BY <1>3 DEF Least

LEMMA OrderFacts ==
  ASSUME NEW m \in Int, NEW n \in Int
  PROVE  Order(m, n) \in Sign /\ Order(n, m) = -Order(m, n) /\ (Order(m, n) = 0 <=> m = n)
  BY DEF Order, Sign

\* Deciding by an order or leaving it to the next step is opposite when swapped.
LEMMA DecideFacts ==
  ASSUME NEW m \in Int, NEW n \in Int
  PROVE  Opposite(Decide(Order(m, n)), Decide(Order(n, m)))
  BY DEF Order, Decide, Opposite, Sign, Undecided

LEMMA ZeroOpposite == Opposite(0, 0)
  BY DEF Opposite, Sign

-----------------------------------------------------------------------------
(* Strings of character codes.                                             *)

Text_ == Seq(Nat) \ {<<>>}

LEMMA TrimmedFacts ==
  ASSUME NEW t \in Text_
  PROVE  Trimmed(t) \in DOMAIN t
  <1> DEFINE S == {i \in DOMAIN t : \A j \in DOMAIN t : j > i => t[j] = 48}
  <1>1. Len(t) \in S /\ S \subseteq Nat
    BY DEF Text_
  <1>2. Least(S) \in S
    BY ZenonT(30), <1>1, LeastFacts
  <1> QED
    BY <1>2 DEF Trimmed

LEMMA StrncmpFlips ==
  ASSUME NEW s \in Seq(Nat), NEW t \in Seq(Nat), NEW n \in Int
  PROVE  Strncmp(s, t, n) \in Sign /\ Strncmp(t, s, n) = -Strncmp(s, t, n)
  <1> DEFINE diff == {i \in 1 .. n : i <= Shorter(s, t) /\ s[i] # t[i]}
  <1>1. Shorter(s, t) = Shorter(t, s)
    BY DEF Shorter
  <1>2. diff = {i \in 1 .. n : i <= Shorter(t, s) /\ t[i] # s[i]}
    BY <1>1
  <1>3. CASE diff = {}
    BY <1>2, <1>3 DEF Strncmp, Sign
  <1>4. CASE diff # {}
    <2>1. Least(diff) \in diff
      <3>1. diff \in SUBSET Nat
        OBVIOUS
      <3> QED
        BY <1>4, <3>1, LeastFacts
    <2>2. s[Least(diff)] \in Nat /\ t[Least(diff)] \in Nat
      <3>1. diff \subseteq DOMAIN s /\ diff \subseteq DOMAIN t
        BY DEF Shorter
      <3>2. Least(diff) \in DOMAIN s /\ Least(diff) \in DOMAIN t
        BY <2>1, <3>1
      <3> HIDE DEF diff
      <3> QED
        BY <3>2
    <2>3. Strncmp(s, t, n) = Order(s[Least(diff)], t[Least(diff)])
      BY <1>4 DEF Strncmp
    <2>4. Strncmp(t, s, n) = Order(t[Least(diff)], s[Least(diff)])
      BY <1>2, <1>4 DEF Strncmp
    <2> QED
      BY <2>2, <2>3, <2>4, OrderFacts
  <1> QED
    BY <1>3, <1>4

-----------------------------------------------------------------------------
(* Versions.                                                               *)

\* What strtoll makes of the components of a version.
Numbered(v) == v \in Version /\ \A k \in DOMAIN v.num : Strtoll[v.num[k]] \in Nat

LEMMA CallFacts ==
  ASSUME NEW c \in Call
  PROVE  /\ c[1] \in Atoms /\ c[2] \in Atoms
         /\ c[1].ver # None => Numbered(c[1].ver) /\ c[1].pn # None
         /\ c[2].ver # None => Numbered(c[2].ver) /\ c[2].pn # None
  <1>1. c[1] \in Atoms /\ c[2] \in Atoms /\ c[1] \in Data /\ c[2] \in Query
    BY AtomAssumption DEF Data, Query
  <1> QED
    BY <1>1, StrtollAssumption DEF Atoms, Numbered

LEMMA TextFacts ==
  ASSUME NEW v \in Version, NEW k \in DOMAIN v.num
  PROVE  Text(v, k) \in Text_ /\ Append(Text(v, k), After(v, k)) \in Seq(Nat)
  <1>0. v.num \in Seq(Component) /\ v.letter \in {0} \cup Letter
    BY DEF Version
  <1>1. v.num[k] \in Seq(Nat) /\ v.num[k] # <<>>
    <2>1. v.num[k] \in Component
      BY <1>0
    <2>2. \A t \in Seq(Digit) : t \in Seq(Nat)
      BY DEF Digit
    <2> QED
      BY <2>1, <2>2 DEF Component
  <1>2. v.letter \in Nat
    <2>1. \A n \in {0} \cup Letter : n \in Nat
      BY DEF Letter
    <2> QED
      BY <1>0, <2>1
  <1>3. Text(v, k) \in Seq(Nat) /\ Text(v, k) # <<>>
    BY <1>1, <1>2 DEF Text
  <1>4. After(v, k) \in Nat
    BY DEF After
  <1> QED
    BY <1>3, <1>4 DEF Text_

LEMMA ComponentFlips ==
  ASSUME NEW v, NEW w, Numbered(v), Numbered(w),
         NEW k \in DOMAIN v.num, k \in DOMAIN w.num
  PROVE  /\ ComponentOrder(v, w, k) \in Sign
         /\ ComponentOrder(w, v, k) = -ComponentOrder(v, w, k)
  <1> DEFINE s == Text(v, k)
             t == Text(w, k)
             n == Larger(Trimmed(s), Trimmed(t)) - 1
  <1>0. v \in Version /\ w \in Version
    BY DEF Numbered
  <1>1. s \in Text_ /\ t \in Text_
    BY <1>0, TextFacts
  <1>2. Trimmed(s) \in Nat /\ Trimmed(t) \in Nat
    BY <1>1, TrimmedFacts DEF Text_
  <1>3. n \in Int /\ n = Larger(Trimmed(t), Trimmed(s)) - 1
    BY <1>2 DEF Larger
  <1>4. StringWise(s, t) <=> StringWise(t, s)
    BY DEF StringWise
  <1>5. CASE k > 1 /\ StringWise(s, t)
    <2> DEFINE a == Append(s, After(v, k))
               b == Append(t, After(w, k))
    <2>1. a \in Seq(Nat) /\ b \in Seq(Nat)
      BY <1>0, TextFacts
    <2>2. ComponentOrder(v, w, k) = Strncmp(a, b, n)
      BY <1>5 DEF ComponentOrder
    <2>3. ComponentOrder(w, v, k) = Strncmp(b, a, n)
      BY <1>3, <1>4, <1>5 DEF ComponentOrder
    <2> HIDE DEF a, b, n
    <2> QED
      BY <1>3, <2>1, <2>2, <2>3, StrncmpFlips
  <1>6. CASE ~ (k > 1 /\ StringWise(s, t))
    <2>1. Strtoll[v.num[k]] \in Int /\ Strtoll[w.num[k]] \in Int
      BY DEF Numbered
    <2>2. ComponentOrder(v, w, k) = Order(Strtoll[v.num[k]], Strtoll[w.num[k]])
      BY <1>6 DEF ComponentOrder
    <2>3. ComponentOrder(w, v, k) = Order(Strtoll[w.num[k]], Strtoll[v.num[k]])
      BY <1>4, <1>6 DEF ComponentOrder
    <2> QED
      BY <2>1, <2>2, <2>3, OrderFacts
  <1> QED
    BY <1>5, <1>6
\* The first component that differs is the same in both directions.
LEMMA NumericFlips ==
  ASSUME NEW d, NEW q, Numbered(d.ver), Numbered(q.ver), ~ d.star, ~ q.star
  PROVE  Opposite(NumericStep(d, q), NumericStep(q, d))
  <1> DEFINE v == d.ver
             w == q.ver
             diff == Differing(v, w)
  <1>0. Len(v.num) \in Nat /\ Len(w.num) \in Nat
        /\ DOMAIN v.num = 1 .. Len(v.num) /\ DOMAIN w.num = 1 .. Len(w.num)
    <2>1. v.num \in Seq(Component) /\ w.num \in Seq(Component)
      BY DEF Numbered, Version
    <2> QED
      BY <2>1
  <1>1. Shorter(v.num, w.num) = Shorter(w.num, v.num)
        /\ 1 .. Shorter(v.num, w.num) \subseteq DOMAIN v.num
        /\ 1 .. Shorter(v.num, w.num) \subseteq DOMAIN w.num
    BY <1>0 DEF Shorter
  <1>2. \A k \in 1 .. Shorter(v.num, w.num) :
           /\ ComponentOrder(v, w, k) \in Sign
           /\ ComponentOrder(w, v, k) = -ComponentOrder(v, w, k)
    BY <1>1, ComponentFlips
  <1>3. \A m \in Sign : m # 0 <=> -m # 0
    BY DEF Sign
  <1>4. diff = Differing(w, v)
    BY <1>1, <1>2, <1>3 DEF Differing
  <1>5. CASE diff # {}
    <2>1. Least(diff) \in diff
      <3>1. diff \in SUBSET Nat
        BY DEF Differing
      <3> QED
        BY <1>5, <3>1, LeastFacts
    <2>2. Least(diff) \in 1 .. Shorter(v.num, w.num)
      BY <2>1 DEF Differing
    <2>3. NumericStep(d, q) = ComponentOrder(v, w, Least(diff))
      BY <1>5 DEF NumericStep
    <2>4. NumericStep(q, d) = ComponentOrder(w, v, Least(diff))
      BY <1>4, <1>5 DEF NumericStep
    <2>5. \A m \in Sign : Opposite(m, -m)
      BY DEF Sign, Opposite
    <2> QED
      BY <1>2, <2>2, <2>3, <2>4, <2>5
  <1>6. CASE diff = {}
    <2>1. NumericStep(d, q) = Decide(Order(Len(v.num), Len(w.num)))
      BY <1>6 DEF NumericStep
    <2>2. NumericStep(q, d) = Decide(Order(Len(w.num), Len(v.num)))
      BY <1>4, <1>6 DEF NumericStep
    <2> QED
      BY <1>0, <2>1, <2>2, DecideFacts
  <1> QED
    BY <1>5, <1>6

LEMMA LetterFlips ==
  ASSUME NEW d, NEW q, Numbered(d.ver), Numbered(q.ver), ~ d.star, ~ q.star
  PROVE  Opposite(LetterStep(d, q), LetterStep(q, d))
  <1>1. d.ver.letter \in {0} \cup Letter /\ q.ver.letter \in {0} \cup Letter
    BY DEF Numbered, Version
  <1>2. \A n \in {0} \cup Letter : n \in Int
    BY DEF Letter
  <1> QED
    BY <1>1, <1>2, DecideFacts DEF LetterStep

\* Every element of the array of suffixes is a pair of numbers.
LEMMA SuffixFacts ==
  ASSUME NEW v \in Version, NEW k \in Nat \ {0}
  PROVE  Suffix(v, k).suffix \in Int /\ Suffix(v, k).sint \in Int
  <1>1. v.suf \in Seq(WrittenSuffix)
    BY DEF Version
  <1>2. \A name \in {"alpha", "beta", "pre", "rc", "p"} :
           \E i \in DOMAIN SuffixNames : SuffixNames[i] = name
    <2>1. /\ DOMAIN SuffixNames = 1 .. 6
          /\ SuffixNames[1] = "alpha" /\ SuffixNames[2] = "beta" /\ SuffixNames[3] = "pre"
          /\ SuffixNames[4] = "rc" /\ SuffixNames[6] = "p"
      BY DEF SuffixNames
    <2>2. 1 \in 1 .. 6 /\ 2 \in 1 .. 6 /\ 3 \in 1 .. 6 /\ 4 \in 1 .. 6 /\ 6 \in 1 .. 6
      OBVIOUS
    <2> QED
      BY <2>1, <2>2
  <1>3. DOMAIN SuffixNames \subseteq Int
    BY DEF SuffixNames
  <1>4. \A name \in {"alpha", "beta", "pre", "rc", "p"} : Index(name) \in Int
    BY <1>2, <1>3 DEF Index
  <1>5. CASE k <= Len(v.suf)
    <2>1. v.suf[k] \in WrittenSuffix
      BY <1>1, <1>5
    <2>2. v.suf[k].name \in {"alpha", "beta", "pre", "rc", "p"} /\ v.suf[k].n \in Nat
      BY <2>1 DEF WrittenSuffix
    <2> QED
      BY <1>4, <1>5, <2>2 DEF Suffix
  <1>6. CASE ~ (k <= Len(v.suf))
    BY <1>6 DEF Suffix, VER_NORM
  <1> QED
    BY <1>5, <1>6

\* The walk along two arrays of suffixes stops at the same place in both directions.
LEMMA StopFacts ==
  ASSUME NEW v \in Version, NEW w \in Version
  PROVE  SuffixStop(v, w) \in Nat \ {0} /\ SuffixStop(v, w) = SuffixStop(w, v)
  <1> DEFINE S == {k \in 1 .. Len(v.suf) + Len(w.suf) + 1 :
                     Suffix(v, k) # Suffix(w, k) \/ Suffix(v, k).suffix = VER_NORM}
             T == {k \in 1 .. Len(w.suf) + Len(v.suf) + 1 :
                     Suffix(w, k) # Suffix(v, k) \/ Suffix(w, k).suffix = VER_NORM}
             last == Len(v.suf) + Len(w.suf) + 1
  <1>1. Len(v.suf) \in Nat /\ Len(w.suf) \in Nat
    <2>1. v.suf \in Seq(WrittenSuffix) /\ w.suf \in Seq(WrittenSuffix)
      BY DEF Version
    <2> QED
      BY <2>1
  <1>2. /\ 1 .. last = 1 .. Len(w.suf) + Len(v.suf) + 1
        /\ 1 .. last \subseteq Nat \ {0}
        /\ last \in 1 .. last /\ ~ (last <= Len(v.suf))
    <2>1. \A m, n \in Nat : /\ 1 .. m + n + 1 = 1 .. n + m + 1
                             /\ 1 .. m + n + 1 \subseteq Nat \ {0}
                             /\ m + n + 1 \in 1 .. m + n + 1 /\ ~ (m + n + 1 <= m)
      OBVIOUS
    <2> QED
      BY <1>1, <2>1, Zenon
  <1>3. S = T /\ last \in S
    <2>1. Suffix(v, last).suffix = VER_NORM
      BY <1>2 DEF Suffix
    <2> HIDE DEF last
    <2>2. S = T
      BY <1>2, Zenon DEF last
    <2> QED
      BY <1>2, <2>1, <2>2, Zenon DEF last
  <1>4. S \in SUBSET Nat /\ 0 \notin S
    BY <1>2, Zenon
  <1>5. Least(S) \in S
    BY <1>3, <1>4, LeastFacts
  <1>6. SuffixStop(v, w) = Least(S) /\ SuffixStop(w, v) = Least(T)
    BY DEF SuffixStop
  <1> QED
    BY <1>3, <1>4, <1>5, <1>6

LEMMA SuffixFlips ==
  ASSUME NEW d, NEW q, Numbered(d.ver), Numbered(q.ver), ~ d.star, ~ q.star
  PROVE  Opposite(SuffixStep(d, q), SuffixStep(q, d))
  <1> DEFINE k == SuffixStop(d.ver, q.ver)
             s == Suffix(d.ver, k)
             t == Suffix(q.ver, k)
  <1>1. k \in Nat \ {0} /\ SuffixStop(q.ver, d.ver) = k
    BY StopFacts DEF Numbered
  <1>2. s.suffix \in Int /\ t.suffix \in Int /\ s.sint \in Int /\ t.sint \in Int
    BY <1>1, SuffixFacts DEF Numbered
  <1>3. SuffixStep(d, q) = IF s.suffix # t.suffix THEN Order(s.suffix, t.suffix)
                           ELSE Decide(Order(s.sint, t.sint))
    BY DEF SuffixStep
  <1>4. SuffixStep(q, d) = IF t.suffix # s.suffix THEN Order(t.suffix, s.suffix)
                           ELSE Decide(Order(t.sint, s.sint))
    BY <1>1 DEF SuffixStep
  <1> HIDE DEF k, s, t
  <1>5. CASE s.suffix = t.suffix
    BY <1>2, <1>3, <1>4, <1>5, DecideFacts
  <1>6. CASE s.suffix # t.suffix
    <2>1. \A m, n \in Int : m # n => Opposite(Order(m, n), Order(n, m))
      BY DEF Order, Opposite, Sign
    <2> QED
      BY <1>2, <1>3, <1>4, <1>6, <2>1
  <1> QED
    BY <1>5, <1>6
LEMMA RevisionFlips ==
  ASSUME NEW d \in Atoms, NEW q \in Atoms, NEW f, ~ d.star, ~ q.star
  PROVE  Opposite(RevisionStep(d, q, "none", f), RevisionStep(q, d, "none", f))
  <1>1. \A v \in Version : v.rev \in Nat
    BY DEF Version
  <1>2. \A a \in Atoms : a.ver = None \/ a.ver \in Version
    BY DEF Atoms
  <1>3. Revision(d) \in Int /\ Revision(q) \in Int
    BY <1>1, <1>2 DEF Revision
  <1>4. CASE "NOREV" \in f
    BY <1>4, ZeroOpposite, Zenon DEF RevisionStep
  <1>5. CASE "NOREV" \notin f
    <2>1. RevisionStep(d, q, "none", f) = Decide(Order(Revision(d), Revision(q)))
      BY <1>5 DEF RevisionStep
    <2>2. RevisionStep(q, d, "none", f) = Decide(Order(Revision(q), Revision(d)))
      BY <1>5 DEF RevisionStep
    <2> QED
      BY <1>3, <2>1, <2>2, DecideFacts
  <1> QED
    BY <1>4, <1>5

LEMMA BuildFlips ==
  ASSUME NEW d \in Atoms, NEW q \in Atoms
  PROVE  Opposite(BuildStep(d, q), BuildStep(q, d))
  <1>1. d.build \in Int /\ q.build \in Int
    BY DEF Atoms
  <1>2. CASE d.build > 0 /\ q.build > 0
    BY <1>1, <1>2, DecideFacts DEF BuildStep
  <1>3. CASE ~ (d.build > 0 /\ q.build > 0)
    BY <1>3 DEF BuildStep, Opposite
  <1> QED
    BY <1>2, <1>3

-----------------------------------------------------------------------------
(* The whole comparison.                                                   *)

\* The step that decides a list of answers whose last one is 0.
LEMMA FirstFlips ==
  ASSUME NEW n \in Nat \ {0}, NEW s, NEW t, DOMAIN s = 1 .. n, DOMAIN t = 1 .. n,
         \A i \in 1 .. n : Opposite(s[i], t[i]), s[n] = 0
  PROVE  LET i == Least({k \in DOMAIN s : s[k] # Undecided})
             j == Least({k \in DOMAIN t : t[k] # Undecided})
         IN s[i] \in Sign /\ t[j] = -s[i]
  <1> DEFINE S == {k \in DOMAIN s : s[k] # Undecided}
             T == {k \in DOMAIN t : t[k] # Undecided}
  <1>1. n \in 1 .. n /\ 1 .. n \in SUBSET Nat
    OBVIOUS
  <1>2. n \in S /\ S \in SUBSET Nat
    BY <1>1 DEF Undecided
  <1>3. Least(S) \in S
    BY <1>2, LeastFacts
  <1>4. S = T
    <2>1. \A k \in 1 .. n : s[k] = Undecided <=> t[k] = Undecided
      BY DEF Opposite, Sign, Undecided
    <2> QED
      BY <2>1
  <1>5. s[Least(S)] \in Sign /\ t[Least(S)] = -s[Least(S)]
    <2>1. Opposite(s[Least(S)], t[Least(S)]) /\ s[Least(S)] # Undecided
      BY <1>3
    <2>2. \A x, y : Opposite(x, y) /\ x # Undecided => x \in Sign /\ y = -x
      BY DEF Opposite, Sign, Undecided
    <2> HIDE DEF S
    <2> QED
      BY <2>1, <2>2
  <1> QED
    BY <1>4, <1>5, Zenon

LEMMA VersionFlips ==
  ASSUME NEW d \in Atoms, NEW q \in Atoms, NEW f, ~ d.star, ~ q.star,
         (d.ver = None) <=> (q.ver = None),
         d.ver # None => Numbered(d.ver) /\ Numbered(q.ver)
  PROVE  /\ VersionOrder(d, q, "none", f) \in Sign
         /\ VersionOrder(q, d, "none", f) = -VersionOrder(d, q, "none", f)
  <1> DEFINE s == Steps(d, q, "none", f)
             t == Steps(q, d, "none", f)
  <1>1. Opposite(0, 0)
    BY ZeroOpposite
  <1>2. \E n \in Nat \ {0} :
          /\ DOMAIN s = 1 .. n /\ DOMAIN t = 1 .. n /\ s[n] = 0
          /\ \A i \in 1 .. n : Opposite(s[i], t[i])
    <2>1. CASE d.ver = None
      <3>1. s = <<RevisionStep(d, q, "none", f), BuildStep(d, q), 0>>
            /\ t = <<RevisionStep(q, d, "none", f), BuildStep(q, d), 0>>
        BY <2>1, Zenon DEF Steps
      <3>2. DOMAIN s = 1 .. 3 /\ DOMAIN t = 1 .. 3 /\ s[3] = 0
        BY <3>1
      <3>3. \A i \in 1 .. 3 : Opposite(s[i], t[i])
        <4>1. Opposite(s[1], t[1]) /\ Opposite(s[2], t[2]) /\ Opposite(s[3], t[3])
          BY <1>1, <3>1, RevisionFlips, BuildFlips
        <4>2. \A i \in 1 .. 3 : i = 1 \/ i = 2 \/ i = 3
          OBVIOUS
        <4> QED
          BY <4>1, <4>2, Zenon
      <3> HIDE DEF s, t
      <3> QED
        BY <3>2, <3>3
    <2>2. CASE d.ver # None
      <3>1. s = <<NumericStep(d, q), LetterStep(d, q), SuffixStep(d, q),
                  RevisionStep(d, q, "none", f), BuildStep(d, q), 0>>
            /\ t = <<NumericStep(q, d), LetterStep(q, d), SuffixStep(q, d),
                     RevisionStep(q, d, "none", f), BuildStep(q, d), 0>>
        BY <2>2, Zenon DEF Steps
      <3>2. DOMAIN s = 1 .. 6 /\ DOMAIN t = 1 .. 6 /\ s[6] = 0
        BY <3>1
      <3>3. \A i \in 1 .. 6 : Opposite(s[i], t[i])
        <4>1. Opposite(s[1], t[1]) /\ Opposite(s[2], t[2]) /\ Opposite(s[3], t[3])
          BY <2>2, <3>1, NumericFlips, LetterFlips, SuffixFlips
        <4>2. Opposite(s[4], t[4]) /\ Opposite(s[5], t[5]) /\ Opposite(s[6], t[6])
          BY <1>1, <3>1, RevisionFlips, BuildFlips
        <4>3. \A i \in 1 .. 6 : i = 1 \/ i = 2 \/ i = 3 \/ i = 4 \/ i = 5 \/ i = 6
          OBVIOUS
        <4> QED
          BY <4>1, <4>2, <4>3, Zenon
      <3> HIDE DEF s, t
      <3> QED
        BY <3>2, <3>3
    <2> QED
      BY <2>1, <2>2
  <1> HIDE DEF s, t
  <1>3. LET i == Least({k \in DOMAIN s : s[k] # Undecided})
            j == Least({k \in DOMAIN t : t[k] # Undecided})
        IN s[i] \in Sign /\ t[j] = -s[i]
    BY ZenonT(30), <1>2, FirstFlips
  <1> QED
    BY <1>3, Zenon DEF VersionOrder, s, t
\* Two plain atoms of one name, slot and repository are compared by version alone.
LEMMA PlainCompare ==
  ASSUME NEW d \in Atoms, NEW q \in Atoms, NEW f, Bare(d), Bare(q), SameName(d, q)
  PROVE  AtomCompare(d, q, f) =
           IF (d.ver = None) # (q.ver = None) THEN "EQUAL"
           ELSE Match(VersionOrder(d, q, "none", f), "none")
  <1>1. ~ Rejects(d, q, f)
    BY DEF Rejects, SlotRejects, Bare, SameName
  <1>2. ~ BlocksAll(d, q) /\ Operator(q) = "none"
    BY DEF BlocksAll, Operator, Bare
  <1> QED
    BY <1>1, <1>2, Zenon DEF AtomCompare

\* Both directions of a comparison agree.
LEMMA CompareFlips ==
  ASSUME NEW d \in Atoms, NEW q \in Atoms, NEW f, Bare(d), Bare(q), SameName(d, q),
         d.ver # None => Numbered(d.ver), q.ver # None => Numbered(q.ver)
  PROVE  AtomCompare(q, d, f) = Flip(AtomCompare(d, q, f))
  <1>1. SameName(q, d)
    BY DEF SameName
  <1>2. CASE (d.ver = None) # (q.ver = None)
    <2>1. AtomCompare(d, q, f) = "EQUAL" /\ AtomCompare(q, d, f) = "EQUAL"
      BY <1>1, <1>2, PlainCompare
    <2> QED
      BY <2>1 DEF Flip
  <1>3. CASE (d.ver = None) <=> (q.ver = None)
    <2> DEFINE m == VersionOrder(d, q, "none", f)
               n == VersionOrder(q, d, "none", f)
    <2>1. m \in Sign /\ n = -m
      BY <1>3, VersionFlips DEF Bare
    <2>2. AtomCompare(d, q, f) = Match(m, "none") /\ AtomCompare(q, d, f) = Match(n, "none")
      BY <1>1, <1>3, PlainCompare
    <2> HIDE DEF m, n
    <2>3. \A k \in Sign : Match(-k, "none") = Flip(Match(k, "none"))
      BY DEF Match, Flip, Sign
    <2> QED
      BY <2>1, <2>2, <2>3
  <1> QED
    BY <1>2, <1>3

\* _atom_compare_match answers one of the four equalities.
LEMMA MatchType ==
  ASSUME NEW m, NEW op \in PrefixOps \cup {"neq"}
  PROVE  Match(m, op) \in Equality
  BY DEF Match, Equality, PrefixOps

LEMMA CompareType ==
  ASSUME NEW d \in Atoms, NEW q \in Atoms, NEW f
  PROVE  AtomCompare(d, q, f) \in Equality
  <1>1. Operator(q) \in PrefixOps \cup {"neq"}
    BY DEF Operator, PrefixOps, Atoms
  <1>2. Match(VersionOrder(d, q, Operator(q), f), Operator(q)) \in Equality
    BY <1>1, MatchType
  <1> QED
    BY <1>2 DEF AtomCompare, Equality

-----------------------------------------------------------------------------
(* Blockers.  With or without the blocker, the steps are the same.         *)

LEMMA StepsSame ==
  ASSUME NEW d \in Atoms, NEW q \in Atoms, NEW r \in Atoms, NEW f,
         NEW op, NEW op2, op # "~", op2 # "~",
         q.ver = r.ver, q.star = r.star, q.build = r.build
  PROVE  VersionOrder(d, q, op, f) = VersionOrder(d, r, op2, f)
  <1>1. Bits(q) = Bits(r)
    BY DEF Bits
  <1>2. NumericStep(d, q) = NumericStep(d, r)
    BY <1>1, Zenon DEF NumericStep
  <1>3. LetterStep(d, q) = LetterStep(d, r)
    BY <1>1, Zenon DEF LetterStep
  <1>4. SuffixStep(d, q) = SuffixStep(d, r)
    BY <1>1, Zenon DEF SuffixStep
  <1>5. Revision(q) = Revision(r)
    BY Zenon DEF Revision
  <1>6. RevisionStep(d, q, op, f) = RevisionStep(d, r, op2, f)
    BY <1>5 DEF RevisionStep
  <1>7. BuildStep(d, q) = BuildStep(d, r)
    BY Zenon DEF BuildStep
  <1>8. Steps(d, q, op, f) = Steps(d, r, op2, f)
    BY <1>2, <1>3, <1>4, <1>6, <1>7, Zenon DEF Steps
  <1> QED
    BY <1>8, Zenon DEF VersionOrder

Answers == Sign \cup {Undecided}

LEMMA DecideType ==
  ASSUME NEW m \in Int, NEW n \in Int
  PROVE  Order(m, n) \in Answers /\ Decide(Order(m, n)) \in Answers
  BY DEF Order, Decide, Answers, Sign, Undecided

LEMMA AnswerFacts == 0 \in Answers /\ Undecided \in Answers
  BY DEF Answers, Sign

\* A glob lets a step decide for 0, and changes nothing else.
LEMMA StepTypes ==
  ASSUME NEW d \in Atoms, NEW q \in Atoms, NEW op, NEW f, Numbered(d.ver), Numbered(q.ver)
  PROVE  /\ NumericStep(d, q) \in Answers
         /\ LetterStep(d, q) \in Answers
         /\ SuffixStep(d, q) \in Answers
         /\ RevisionStep(d, q, op, f) \in Answers
         /\ BuildStep(d, q) \in Answers
  <1> DEFINE v == d.ver
             w == q.ver
  <1>1. NumericStep(d, q) \in Answers
    <2>1. Len(v.num) \in Int /\ Len(w.num) \in Int
          /\ DOMAIN v.num = 1 .. Len(v.num) /\ DOMAIN w.num = 1 .. Len(w.num)
      <3>1. v.num \in Seq(Component) /\ w.num \in Seq(Component)
        BY DEF Numbered, Version
      <3> QED
        BY <3>1
    <2>2. CASE Differing(v, w) # {}
      <3>1. Differing(v, w) \in SUBSET Nat
        BY DEF Differing
      <3>2. Least(Differing(v, w)) \in Differing(v, w)
        BY <2>2, <3>1, LeastFacts
      <3>3. Differing(v, w) \subseteq DOMAIN v.num /\ Differing(v, w) \subseteq DOMAIN w.num
        BY <2>1 DEF Differing, Shorter
      <3>4. ComponentOrder(v, w, Least(Differing(v, w))) \in Sign
        BY <3>2, <3>3, ComponentFlips
      <3>5. NumericStep(d, q) = ComponentOrder(v, w, Least(Differing(v, w)))
        BY <2>2 DEF NumericStep
      <3> QED
        BY <3>4, <3>5 DEF Answers
    <2>3. CASE Differing(v, w) = {}
      <3>1. NumericStep(d, q) = 0 \/ NumericStep(d, q) = Decide(Order(Len(v.num), Len(w.num)))
        BY <2>3, Zenon DEF NumericStep
      <3> QED
        BY <2>1, <3>1, DecideType, AnswerFacts
    <2> QED
      BY <2>2, <2>3
  <1>2. LetterStep(d, q) \in Answers
    <2>1. v.letter \in {0} \cup Letter /\ w.letter \in {0} \cup Letter
      BY DEF Numbered, Version
    <2>2. \A n \in {0} \cup Letter : n \in Int
      BY DEF Letter
    <2>3. LetterStep(d, q) = 0 \/ LetterStep(d, q) = Decide(Order(v.letter, w.letter))
      BY Zenon DEF LetterStep
    <2> QED
      BY <2>1, <2>2, <2>3, DecideType, AnswerFacts
  <1>3. SuffixStep(d, q) \in Answers
    <2> DEFINE k == SuffixStop(v, w)
               s == Suffix(v, k)
               t == Suffix(w, k)
    <2>1. s.suffix \in Int /\ t.suffix \in Int /\ s.sint \in Int /\ t.sint \in Int
      BY StopFacts, SuffixFacts DEF Numbered
    <2>2. \/ SuffixStep(d, q) = 0
          \/ SuffixStep(d, q) = Order(s.suffix, t.suffix)
          \/ SuffixStep(d, q) = Decide(Order(s.sint, t.sint))
      BY Zenon DEF SuffixStep
    <2> HIDE DEF k, s, t
    <2> QED
      BY <2>1, <2>2, DecideType, AnswerFacts
  <1>4. RevisionStep(d, q, op, f) \in Answers
    <2>1. d.ver \in Version /\ q.ver \in Version
      BY DEF Numbered
    <2>2. Revision(d) \in Int /\ Revision(q) \in Int
      BY <2>1 DEF Revision, Version
    <2>3. \/ RevisionStep(d, q, op, f) = 0
          \/ RevisionStep(d, q, op, f) = Decide(Order(Revision(d), Revision(q)))
      BY Zenon DEF RevisionStep
    <2> QED
      BY <2>2, <2>3, DecideType, AnswerFacts
  <1>5. BuildStep(d, q) \in Answers
    <2>1. d.build \in Int /\ q.build \in Int
      BY DEF Atoms
    <2>2. BuildStep(d, q) = Decide(Order(d.build, q.build)) \/ BuildStep(d, q) = Undecided
      BY Zenon DEF BuildStep
    <2> QED
      BY <2>1, <2>2, DecideType, AnswerFacts
  <1> QED
    BY <1>1, <1>2, <1>3, <1>4, <1>5

LEMMA VersionType ==
  ASSUME NEW d \in Atoms, NEW q \in Atoms, NEW op, NEW f, Numbered(d.ver), Numbered(q.ver)
  PROVE  VersionOrder(d, q, op, f) \in Sign
  <1> DEFINE s == Steps(d, q, op, f)
             S == {i \in DOMAIN s : s[i] # Undecided}
  <1>1. s = <<NumericStep(d, q), LetterStep(d, q), SuffixStep(d, q),
              RevisionStep(d, q, op, f), BuildStep(d, q), 0>>
    <2>1. d.ver # None
      BY NoneAssumption DEF Numbered
    <2> QED
      BY <2>1, Zenon DEF Steps
  <1>2. /\ DOMAIN s = 1 .. 6 /\ s[6] = 0 /\ 6 \in 1 .. 6 /\ 1 .. 6 \in SUBSET Nat
        /\ \A i \in 1 .. 6 : i = 1 \/ i = 2 \/ i = 3 \/ i = 4 \/ i = 5 \/ i = 6
    BY <1>1
  <1>3. /\ s[1] \in Answers /\ s[2] \in Answers /\ s[3] \in Answers
        /\ s[4] \in Answers /\ s[5] \in Answers /\ s[6] \in Answers
    BY <1>1, StepTypes, AnswerFacts
  <1> HIDE DEF s
  <1>4. \A i \in 1 .. 6 : s[i] \in Answers
    BY <1>2, <1>3, Zenon
  <1>5. 6 \in S /\ S \in SUBSET Nat
    BY <1>2 DEF Undecided
  <1>6. Least(S) \in S
    BY <1>5, LeastFacts
  <1>7. s[Least(S)] \in Sign
    BY <1>2, <1>4, <1>6 DEF Answers
  <1> QED
    BY <1>7, Zenon DEF VersionOrder, s

-----------------------------------------------------------------------------
(* The order of PMS.  Each step of the comparison is the part of PMS it    *)
(* stands for.                                                             *)

\* What strtoll makes of the components: 0 of zeros, and of nothing else.
Read(v) ==
  /\ Numbered(v)
  /\ \A k \in DOMAIN v.num :
       Strtoll[v.num[k]] = 0 <=> \A i \in DOMAIN v.num[k] : v.num[k][i] = 48

LEMMA LeastIs ==
  ASSUME NEW S \in SUBSET Nat, NEW i \in S, \A j \in S : i <= j
  PROVE  Least(S) = i
  <1>1. Least(S) \in S /\ Least(S) <= i
    BY LeastFacts
  <1>2. i <= Least(S) /\ i \in Nat /\ Least(S) \in Nat
    BY <1>1
  <1> HIDE DEF Least
  <1> QED
    BY <1>1, <1>2

LEMMA ComponentFacts ==
  ASSUME NEW v \in Version, NEW k \in DOMAIN v.num
  PROVE  /\ v.num[k] \in Seq(Digit) /\ Len(v.num[k]) \in Nat /\ Len(v.num[k]) > 0
         /\ v.num[k][1] \in Digit
         /\ Text(v, k)[1] = v.num[k][1]
         /\ Len(Text(v, k)) = Len(v.num[k])
            \/ (Len(Text(v, k)) = Len(v.num[k]) + 1 /\ v.letter # 0
                /\ Text(v, k) = Append(v.num[k], v.letter))
         /\ Len(Text(v, k)) = Len(v.num[k]) => Text(v, k) = v.num[k]
  <1>1. v.num[k] \in Component
    BY DEF Version
  <1> DEFINE c == v.num[k]
  <1>2. c \in Seq(Digit) /\ c # <<>>
    BY <1>1 DEF Component
  <1> HIDE DEF c
  <1>3. Len(c) \in Nat /\ Len(c) > 0 /\ c[1] \in Digit
    BY <1>2
  <1>4. Len(Append(c, v.letter)) = Len(c) + 1 /\ Append(c, v.letter)[1] = c[1]
    BY <1>2, <1>3
  <1>5. Text(v, k) = c \/ (Text(v, k) = Append(c, v.letter) /\ v.letter # 0)
    BY DEF Text, c
  <1>6. Text(v, k)[1] = c[1]
    BY <1>4, <1>5
  <1>7. Len(Text(v, k)) = Len(c)
            \/ (Len(Text(v, k)) = Len(c) + 1 /\ v.letter # 0
                /\ Text(v, k) = Append(c, v.letter))
    BY <1>4, <1>5
  <1>8. Len(Text(v, k)) = Len(c) => Text(v, k) = c
    <2>1. Len(c) + 1 # Len(c)
      BY <1>3
    <2> QED
      BY <1>4, <1>5, <2>1
  <1> QED
    BY <1>2, <1>3, <1>6, <1>7, <1>8 DEF c

\* Strings that differ in the first character are ordered by it.
LEMMA StrncmpFirst ==
  ASSUME NEW s \in Text_, NEW t \in Text_, NEW n \in Nat \ {0}, s[1] < t[1]
  PROVE  Strncmp(s, t, n) = -1
  <1> DEFINE diff == {i \in 1 .. n : i <= Shorter(s, t) /\ s[i] # t[i]}
  <1>1. /\ 1 \in 1 .. n /\ Len(s) \in Nat /\ Len(t) \in Nat /\ 1 <= Len(s) /\ 1 <= Len(t)
        /\ s[1] \in Nat /\ t[1] \in Nat
    BY DEF Text_
  <1>2. 1 <= Shorter(s, t) /\ s[1] # t[1]
    BY <1>1 DEF Shorter
  <1>3. 1 \in diff /\ diff \in SUBSET Nat /\ \A j \in diff : 1 <= j
    BY <1>1, <1>2
  <1>4. Least(diff) = 1
    BY <1>3, LeastIs
  <1>5. Strncmp(s, t, n) = Order(s[Least(diff)], t[Least(diff)])
    BY <1>3, Zenon DEF Strncmp
  <1>6. Order(s[1], t[1]) = -1
    BY <1>1 DEF Order
  <1> QED
    BY <1>4, <1>5, <1>6

\* What is left of a component without its zeros at the end.
LEMMA NoTailZero == NoTail(<< 48 >>) = <<>>
  <1> DEFINE t == << 48 >>
             S == {n \in 0 .. Len(t) : \A j \in n + 1 .. Len(t) : t[j] = 48}
  <1>1. Len(t) = 1 /\ t[1] = 48 /\ t \in Seq(Nat)
    OBVIOUS
  <1>2. 0 \in S /\ S \in SUBSET Nat
    <2>1. \A j \in 0 + 1 .. 1 : j = 1
      OBVIOUS
    <2> HIDE DEF t
    <2>2. \A j \in 0 + 1 .. Len(t) : t[j] = 48
      BY <1>1, <2>1
    <2>3. 0 \in 0 .. Len(t)
      BY <1>1
    <2> QED
      BY <1>1, <2>2, <2>3
  <1>3. Least(S) = 0
    <2>1. \A j \in S : 0 <= j
      BY <1>2
    <2> HIDE DEF S
    <2> QED
      BY <1>2, <2>1, LeastIs
  <1>4. NoTail(t) = SubSeq(t, 1, Least(S))
    BY DEF NoTail
  <1> HIDE DEF t, S
  <1>5. SubSeq(t, 1, 0) = <<>>
    BY <1>1
  <1> QED
    BY <1>3, <1>4, <1>5 DEF t

LEMMA NoTailNonZero ==
  ASSUME NEW t \in Seq(Digit), t # <<>>, t[1] # 48
  PROVE  NoTail(t) \in Seq(Digit) /\ Len(NoTail(t)) > 0
  <1> DEFINE S == {n \in 0 .. Len(t) : \A j \in n + 1 .. Len(t) : t[j] = 48}
  <1>1. Len(t) \in Nat /\ Len(t) >= 1
    OBVIOUS
  <1>2. Len(t) \in S /\ S \in SUBSET Nat /\ 0 \notin S
    <2>1. \A j \in Len(t) + 1 .. Len(t) : FALSE
      BY <1>1
    <2>2. 1 \in 0 + 1 .. Len(t)
      BY <1>1
    <2> QED
      BY <1>1, <2>1, <2>2
  <1>3. Least(S) \in S
    BY <1>2, LeastFacts
  <1>4. Least(S) \in 1 .. Len(t)
    <2>1. Least(S) \in 0 .. Len(t) /\ Least(S) # 0
      BY <1>2, <1>3
    <2> QED
      BY <1>1, <2>1
  <1>5. NoTail(t) = SubSeq(t, 1, Least(S))
    BY DEF NoTail
  <1> HIDE DEF S
  <1> QED
    BY <1>1, <1>4, <1>5

\* A component 0 comes before a component without a zero at the start, unless the
\* digit of the other one is lost.
LEMMA ZeroFirst ==
  ASSUME NEW v, NEW w, Read(v), Read(w), NEW k \in DOMAIN v.num, k \in DOMAIN w.num, k > 1,
         v.num[k] = << 48 >>, w.num[k][1] # 48,
         Text(v, k) = << 48 >> /\ Len(Text(w, k)) > 2 => Trimmed(Text(w, k)) # 1
  PROVE  /\ ComponentOrder(v, w, k) = -1
         /\ PMSComponent(v.num[k], w.num[k]) = -1 /\ PMSComponent(w.num[k], v.num[k]) = 1
  <1> DEFINE a == v.num[k]
             b == w.num[k]
             s == Text(v, k)
             t == Text(w, k)
  <1>1. v \in Version /\ w \in Version /\ Numbered(v) /\ Numbered(w)
    BY DEF Read, Numbered
  <1>2. s \in Text_ /\ t \in Text_
    BY <1>1, TextFacts
  <1>3. b \in Seq(Digit) /\ b # <<>> /\ b[1] \in Digit /\ b[1] > 48
    <2>1. b \in Seq(Digit) /\ Len(b) > 0 /\ b[1] \in Digit
      BY <1>1, ComponentFacts
    <2> HIDE DEF b
    <2>2. b # <<>>
      BY <2>1
    <2>3. b[1] # 48
      BY DEF b
    <2> QED
      BY <2>1, <2>2, <2>3 DEF Digit
  <1>4. s[1] = 48 /\ t[1] = b[1] /\ Len(a) = 1
    <2>1. s[1] = a[1] /\ t[1] = b[1]
      BY <1>1, ComponentFacts
    <2> QED
      BY <2>1
  <1>5. ComponentOrder(v, w, k) = -1
    <2>1. CASE StringWise(s, t)
      <3> DEFINE n == Larger(Trimmed(s), Trimmed(t)) - 1
                 x == Append(s, After(v, k))
                 y == Append(t, After(w, k))
      <3>1. Trimmed(s) \in DOMAIN s /\ Trimmed(t) \in DOMAIN t
        BY <1>2, TrimmedFacts
      <3>2. Trimmed(s) \in Nat \ {0} /\ Trimmed(t) \in Nat \ {0}
        BY <1>2, <3>1 DEF Text_
      <3>3. Trimmed(s) # 1 \/ Trimmed(t) # 1
        <4>1. CASE s = << 48 >>
          <5>1. Len(t) > 2
            BY <2>1, <4>1 DEF StringWise
          <5> QED
            BY <4>1, <5>1
        <4>2. CASE s # << 48 >>
          <5>1. s = Append(a, v.letter) /\ v.letter # 0 /\ Len(s) = 2
            <6>1. Len(s) = Len(a) \/ (Len(s) = Len(a) + 1 /\ v.letter # 0 /\ s = Append(a, v.letter))
              BY <1>1, ComponentFacts
            <6>2. Len(s) = Len(a) => s = a
              BY <1>1, ComponentFacts
            <6> QED
              BY <1>4, <4>2, <6>1, <6>2
          <5>2. s[2] # 48 /\ 2 \in DOMAIN s
            <6>1. v.letter \in {0} \cup Letter
              BY <1>1 DEF Version
            <6>2. v.letter # 48
              <7>1. \A l \in {0} \cup Letter : l # 0 => l # 48
                BY DEF Letter
              <7> QED
                BY <5>1, <6>1, <7>1, Zenon
            <6>3. s[2] = v.letter
              BY <5>1
            <6>4. 2 \in DOMAIN s
              BY <1>2, <5>1 DEF Text_
            <6> QED
              BY <6>2, <6>3, <6>4
          <5>3. Trimmed(s) # 1
            <6> DEFINE S == {i \in DOMAIN s : \A j \in DOMAIN s : j > i => s[j] = 48}
            <6>1. 1 \notin S
              BY <5>2
            <6>2. S \in SUBSET Nat /\ S # {}
              <7>1. DOMAIN s = 1 .. 2
                BY <1>2, <5>1 DEF Text_
              <7>2. 2 \in S
                BY <7>1
              <7> QED
                BY SMTT(30), <7>1, <7>2
            <6>3. Least(S) \in S
              BY <6>2, LeastFacts
            <6> QED
              BY <6>1, <6>3 DEF Trimmed
          <5> QED
            BY <5>3
        <4> QED
          BY <4>1, <4>2
      <3>4. n \in Nat \ {0}
        BY <3>2, <3>3 DEF Larger
      <3>5. x \in Text_ /\ y \in Text_ /\ x[1] = s[1] /\ y[1] = t[1]
        <4>1. x \in Seq(Nat) /\ y \in Seq(Nat)
          BY <1>1, TextFacts
        <4>2. s \in Seq(Nat) /\ t \in Seq(Nat) /\ Len(s) > 0 /\ Len(t) > 0
          BY <1>2 DEF Text_
        <4>3. \A u \in Seq(Nat), c \in Nat :
                 Len(u) > 0 => Append(u, c) # <<>> /\ Append(u, c)[1] = u[1]
          OBVIOUS
        <4>4. After(v, k) \in Nat /\ After(w, k) \in Nat
          BY DEF After
        <4>5. x # <<>> /\ y # <<>> /\ x[1] = s[1] /\ y[1] = t[1]
          BY <4>2, <4>3, <4>4, Zenon
        <4> HIDE DEF s, t, x, y
        <4> QED
          BY <4>1, <4>5 DEF Text_
      <3>6. ComponentOrder(v, w, k) = Strncmp(x, y, n)
        BY <2>1 DEF ComponentOrder
      <3>7. x[1] < y[1]
        BY <1>3, <1>4, <3>5
      <3> HIDE DEF x, y, n
      <3> QED
        BY <3>4, <3>5, <3>6, <3>7, StrncmpFirst
    <2>2. CASE ~ StringWise(s, t)
      <3>1. ComponentOrder(v, w, k) = Order(Strtoll[a], Strtoll[b])
        BY <2>2 DEF ComponentOrder
      <3>2. Strtoll[a] = 0
        <4>1. \A i \in DOMAIN a : a[i] = 48
          OBVIOUS
        <4>2. Strtoll[a] = 0 <=> \A i \in DOMAIN a : a[i] = 48
          BY DEF Read
        <4> QED
          BY <4>1, <4>2
      <3>3. Strtoll[b] \in Nat \ {0}
        <4>1. 1 \in DOMAIN b /\ b[1] # 48
          <5> HIDE DEF b
          <5>1. 1 \in DOMAIN b
            BY <1>3
          <5> QED
            BY <1>3, <5>1 DEF Digit
        <4>2. Strtoll[b] = 0 <=> \A i \in DOMAIN b : b[i] = 48
          BY DEF Read
        <4>3. Strtoll[b] \in Nat
          BY DEF Read, Numbered
        <4> QED
          BY <4>1, <4>2, <4>3
      <3> HIDE DEF a, b
      <3> QED
        BY <3>1, <3>2, <3>3 DEF Order
    <2> QED
      BY <2>1, <2>2
  <1>6. PMSComponent(a, b) = -1 /\ PMSComponent(b, a) = 1
    <2> DEFINE e == NoTail(b)
               none == NoTail(a)
    <2>1. none = <<>> /\ e \in Seq(Digit) /\ Len(e) > 0
      BY <1>3, NoTailZero, NoTailNonZero
    <2>2. a[1] = 48
      OBVIOUS
    <2>3. PMSComponent(a, b) = StringOrder(none, e) /\ PMSComponent(b, a) = StringOrder(e, none)
      BY <2>2 DEF PMSComponent
    <2> HIDE DEF e, none, a, b
    <2>4. Len(none) = 0 /\ Len(e) \in Nat
      BY <2>1
    <2>5. Shorter(none, e) = 0 /\ Shorter(e, none) = 0
      BY <2>1, <2>4 DEF Shorter
    <2>6. Strncmp(none, e, 0) = 0 /\ Strncmp(e, none, 0) = 0
      BY DEF Strncmp
    <2>7. StringOrder(none, e) = Order(0, Len(e)) /\ StringOrder(e, none) = Order(Len(e), 0)
      BY <2>4, <2>5, <2>6 DEF StringOrder
    <2> QED
      BY <2>1, <2>3, <2>4, <2>7 DEF Order
  <1> QED
    BY <1>5, <1>6

LEMMA MinusMinus == \A m \in Sign : m = -1 => -m = 1
  <1>1. \A m \in Int : -m \in Int /\ m + (-m) = 0
    OBVIOUS
  <1>2. \A m, n \in Int : m + n = 0 /\ m = -1 => n = 1
    OBVIOUS
  <1>3. \A m \in Sign : m \in Int
    BY DEF Sign
  <1> QED
    BY <1>1, <1>2, <1>3, Zenon

\* The digit of component k is lost neither way.
Kept(v, w, k) ==
  /\ Text(v, k) = << 48 >> /\ Len(Text(w, k)) > 2 => Trimmed(Text(w, k)) # 1
  /\ Text(w, k) = << 48 >> /\ Len(Text(v, k)) > 2 => Trimmed(Text(v, k)) # 1

LEMMA ZeroComponent ==
  ASSUME NEW v, NEW k \in DOMAIN v.num, k > 1, Read(v), NoLeadingZero(v), v.num[k][1] = 48
  PROVE  v.num[k] = << 48 >>
  <1>1. v \in Version /\ v.num \in Seq(Component)
    BY DEF Read, Numbered, Version
  <1>2. v.num[k] \in Seq(Digit)
    BY <1>1, ComponentFacts
  <1>3. k \in 2 .. Len(v.num)
    BY <1>1
  <1>4. Len(v.num[k]) = 1
    BY <1>3 DEF NoLeadingZero
  <1> DEFINE c == v.num[k]
  <1> HIDE DEF c
  <1>5. c \in Seq(Digit) /\ Len(c) = 1 /\ c[1] = 48 => c = << 48 >>
    OBVIOUS
  <1> QED
    BY <1>2, <1>4, <1>5 DEF c

\* Two components 0 are equal, whatever letter follows.
LEMMA BothZero ==
  ASSUME NEW v, NEW w, Numbered(v), Numbered(w), NEW k \in DOMAIN v.num, k \in DOMAIN w.num,
         v.num[k] = << 48 >>, w.num[k] = << 48 >>
  PROVE  ComponentOrder(v, w, k) = 0
  <1>0. v \in Version /\ w \in Version
    BY DEF Numbered
  <1>2. Len(Text(v, k)) <= 2 /\ Len(Text(w, k)) <= 2
    <2>1. \A c : c = << 48 >> => Len(c) = 1
      OBVIOUS
    <2>2. /\ Len(Text(v, k)) = Len(v.num[k]) \/ Len(Text(v, k)) = Len(v.num[k]) + 1
          /\ Len(Text(w, k)) = Len(w.num[k]) \/ Len(Text(w, k)) = Len(w.num[k]) + 1
      BY <1>0, ComponentFacts
    <2>3. Len(v.num[k]) = 1 /\ Len(w.num[k]) = 1
      BY <2>1, Zenon
    <2>4. \A m, n : n = 1 /\ (m = n \/ m = n + 1) => m <= 2
      OBVIOUS
    <2> QED
      BY <2>2, <2>3, <2>4, Zenon
  <1>3. ~ StringWise(Text(v, k), Text(w, k))
    BY <1>2 DEF StringWise
  <1>4. Strtoll[v.num[k]] \in Int
    BY <1>0 DEF Numbered
  <1> QED
    BY <1>3, <1>4 DEF ComponentOrder, Order

\* A component but the first is compared as PMS has it.
LEMMA LaterComponent ==
  ASSUME NEW v, NEW w, Read(v), Read(w), NoLeadingZero(v), NoLeadingZero(w),
         NEW k \in DOMAIN v.num, k \in DOMAIN w.num, k > 1, Kept(v, w, k)
  PROVE  ComponentOrder(v, w, k) = PMSComponent(v.num[k], w.num[k])
  <1>1. v \in Version /\ w \in Version /\ Numbered(v) /\ Numbered(w)
    BY DEF Read, Numbered
  <1>2. Text(v, k)[1] = v.num[k][1] /\ Text(w, k)[1] = w.num[k][1]
    BY <1>1, ComponentFacts
  <1>3. CASE v.num[k][1] # 48 /\ w.num[k][1] # 48
    BY <1>2, <1>3 DEF ComponentOrder, StringWise, PMSComponent
  <1>4. CASE v.num[k][1] = 48 /\ w.num[k][1] # 48
    <2>1. v.num[k] = << 48 >>
      BY <1>4, ZeroComponent
    <2> QED
      BY <1>4, <2>1, ZeroFirst DEF Kept
  <1>5. CASE v.num[k][1] # 48 /\ w.num[k][1] = 48
    <2>1. w.num[k] = << 48 >>
      BY <1>5, ZeroComponent
    <2>2. ComponentOrder(w, v, k) = -1 /\ PMSComponent(v.num[k], w.num[k]) = 1
      BY <1>5, <2>1, ZeroFirst DEF Kept
    <2>3. ComponentOrder(v, w, k) = -ComponentOrder(w, v, k) /\ ComponentOrder(w, v, k) \in Sign
      BY <1>1, ComponentFlips
    <2>4. \A m \in Sign : m = -1 => -m = 1
      BY MinusMinus
    <2> QED
      BY <2>2, <2>3, <2>4, Zenon
  <1>6. CASE v.num[k][1] = 48 /\ w.num[k][1] = 48
    <2>1. v.num[k] = << 48 >> /\ w.num[k] = << 48 >>
      BY <1>6, ZeroComponent
    <2>5. ComponentOrder(v, w, k) = 0
      BY <1>1, <2>1, BothZero
    <2>6. PMSComponent(v.num[k], w.num[k]) = 0
      <3> DEFINE z == << 48 >>
                 none == <<>>
      <3>1. z[1] = 48 /\ Len(none) = 0
        OBVIOUS
      <3>2. NoTail(z) = none
        BY NoTailZero
      <3> HIDE DEF z, none
      <3>3. Shorter(none, none) = 0
        BY <3>1 DEF Shorter
      <3>4. Strncmp(none, none, 0) = 0
        BY DEF Strncmp
      <3>5. StringOrder(none, none) = 0
        BY <3>1, <3>3, <3>4 DEF StringOrder, Order
      <3>6. PMSComponent(z, z) = 0
        BY <3>1, <3>2, <3>5 DEF PMSComponent
      <3> QED
        BY <2>1, <3>6 DEF z
    <2> QED
      BY <2>5, <2>6
  <1> QED
    BY <1>3, <1>4, <1>5, <1>6

LEMMA NumericIsPMS ==
  ASSUME NEW d, NEW q, ~ q.star, Read(d.ver), Read(q.ver),
         NoLeadingZero(d.ver), NoLeadingZero(q.ver),
         ~ DigitLost(d.ver, q.ver), ~ DigitLost(q.ver, d.ver)
  PROVE  /\ PMSNumeric(d.ver, q.ver) \in Sign
         /\ NumericStep(d, q) = Decide(PMSNumeric(d.ver, q.ver))
  <1> DEFINE v == d.ver
             w == q.ver
             at(k) == IF k = 1 THEN Order(Strtoll[v.num[1]], Strtoll[w.num[1]])
                      ELSE PMSComponent(v.num[k], w.num[k])
             n == Shorter(v.num, w.num)
             diff == {k \in 1 .. n : at(k) # 0}
  <1>1. Numbered(v) /\ Numbered(w)
    BY DEF Read
  <1>2. Len(v.num) \in Nat /\ Len(w.num) \in Nat
        /\ DOMAIN v.num = 1 .. Len(v.num) /\ DOMAIN w.num = 1 .. Len(w.num)
    <2>1. v.num \in Seq(Component) /\ w.num \in Seq(Component)
      BY <1>1 DEF Numbered, Version
    <2> QED
      BY <2>1
  <1>3. /\ n \in Nat /\ 1 .. n \subseteq DOMAIN v.num /\ 1 .. n \subseteq DOMAIN w.num
        /\ Shorter(w.num, v.num) = n
    BY <1>2 DEF Shorter
  <1>4. ASSUME NEW k \in 1 .. n
        PROVE  ComponentOrder(v, w, k) = at(k) /\ ComponentOrder(v, w, k) \in Sign
    <2>1. k \in DOMAIN v.num /\ k \in DOMAIN w.num
      BY <1>3
    <2>2. ComponentOrder(v, w, k) \in Sign
      BY <1>1, <2>1, ComponentFlips
    <2>3. CASE k = 1
      <3>1. ComponentOrder(v, w, 1) = Order(Strtoll[v.num[1]], Strtoll[w.num[1]])
        BY DEF ComponentOrder
      <3> QED
        BY <2>2, <2>3, <3>1
    <2>4. CASE k # 1
      <3>1. k > 1 /\ k \in 2 .. Shorter(v.num, w.num) /\ k \in 2 .. Shorter(w.num, v.num)
        BY <1>3, <2>4
      <3>2. Kept(v, w, k)
        BY <3>1 DEF Kept, DigitLost
      <3>3. ComponentOrder(v, w, k) = PMSComponent(v.num[k], w.num[k])
        BY <2>1, <3>1, <3>2, LaterComponent
      <3> QED
        BY <2>2, <2>4, <3>3
    <2> QED
      BY <2>3, <2>4
  <1>5. Differing(v, w) = diff
    BY <1>4 DEF Differing
  <1>6. PMSNumeric(v, w) = IF diff # {} THEN at(Least(diff)) ELSE Order(Len(v.num), Len(w.num))
    BY Zenon DEF PMSNumeric
  <1>7. \A m \in Sign : m # 0 => Decide(m) = m
    BY DEF Decide
  <1> HIDE DEF at, n
  <1>8. CASE diff # {}
    <2>1. Least(diff) \in diff
      <3>1. diff \in SUBSET Nat
        BY <1>3
      <3> HIDE DEF diff
      <3> QED
        BY <1>8, <3>1, LeastFacts
    <2>2. Least(diff) \in 1 .. n /\ at(Least(diff)) # 0
      BY <2>1, Zenon
    <2>3. NumericStep(d, q) = ComponentOrder(v, w, Least(diff))
      BY <1>5, <1>8, Zenon DEF NumericStep
    <2> HIDE DEF at, diff, n
    <2>4. ComponentOrder(v, w, Least(diff)) = at(Least(diff)) /\ at(Least(diff)) \in Sign
      BY <1>4, <2>2
    <2>5. PMSNumeric(v, w) = at(Least(diff))
      BY <1>6, <1>8
    <2>6. Decide(at(Least(diff))) = at(Least(diff))
      BY <1>7, <2>2, <2>4
    <2> QED
      BY <2>3, <2>4, <2>5, <2>6, Zenon
  <1>9. CASE diff = {}
    <2> HIDE DEF diff
    <2>1. NumericStep(d, q) = Decide(Order(Len(v.num), Len(w.num)))
      BY <1>5, <1>9, Zenon DEF NumericStep
    <2>2. PMSNumeric(v, w) = Order(Len(v.num), Len(w.num))
      BY <1>6, <1>9
    <2>3. Order(Len(v.num), Len(w.num)) \in Sign
      BY <1>2, OrderFacts
    <2> QED
      BY <2>1, <2>2, <2>3, Zenon
  <1> QED
    BY <1>8, <1>9

LEMMA LetterIsPMS ==
  ASSUME NEW d, NEW q, ~ q.star, Numbered(d.ver), Numbered(q.ver)
  PROVE  /\ Order(d.ver.letter, q.ver.letter) \in Sign
         /\ LetterStep(d, q) = Decide(Order(d.ver.letter, q.ver.letter))
  <1>1. d.ver.letter \in {0} \cup Letter /\ q.ver.letter \in {0} \cup Letter
    BY DEF Numbered, Version
  <1>2. \A n \in {0} \cup Letter : n \in Int
    BY DEF Letter
  <1> QED
    BY <1>1, <1>2, OrderFacts DEF LetterStep

\* The indices of the names in the table are in the order PMS has the suffixes in,
\* and _p's is the end of the array.
LEMMA IndexFacts ==
  /\ \A x \in {"alpha", "beta", "pre", "rc", "p"} :
       Index(x) \in Nat /\ (Index(x) = VER_NORM <=> x = "p") /\ Index(x) <= VER_NORM
  /\ \A x, y \in {"alpha", "beta", "pre", "rc", "p"} : Index(x) = Index(y) => x = y
  <1>1. /\ DOMAIN SuffixNames = 1 .. 6
        /\ SuffixNames[1] = "alpha" /\ SuffixNames[2] = "beta" /\ SuffixNames[3] = "pre"
        /\ SuffixNames[4] = "rc" /\ SuffixNames[5] = "bogus" /\ SuffixNames[6] = "p"
    BY DEF SuffixNames
  <1>2. \A i \in 1 .. 6 : i = 1 \/ i = 2 \/ i = 3 \/ i = 4 \/ i = 5 \/ i = 6
    OBVIOUS
  <1>3. /\ 1 \in 1 .. 6 /\ 2 \in 1 .. 6 /\ 3 \in 1 .. 6 /\ 4 \in 1 .. 6 /\ 6 \in 1 .. 6
    OBVIOUS
  <1> DEFINE at(x) == CHOOSE i \in DOMAIN SuffixNames : SuffixNames[i] = x
  <1>4. ASSUME NEW x, \E i \in DOMAIN SuffixNames : SuffixNames[i] = x
        PROVE  at(x) \in 1 .. 6 /\ SuffixNames[at(x)] = x
    BY <1>1, <1>4, Zenon
  <1>5. \A x : Index(x) = at(x) - 1
    BY DEF Index
  <1>6. at("alpha") = 1 /\ at("beta") = 2 /\ at("pre") = 3 /\ at("rc") = 4 /\ at("p") = 6
    <2> HIDE DEF at
    <2>1. /\ at("alpha") \in 1 .. 6 /\ SuffixNames[at("alpha")] = "alpha"
          /\ at("beta") \in 1 .. 6 /\ SuffixNames[at("beta")] = "beta"
          /\ at("pre") \in 1 .. 6 /\ SuffixNames[at("pre")] = "pre"
          /\ at("rc") \in 1 .. 6 /\ SuffixNames[at("rc")] = "rc"
          /\ at("p") \in 1 .. 6 /\ SuffixNames[at("p")] = "p"
      BY <1>1, <1>3, <1>4
    <2>2. "alpha" # "beta" /\ "alpha" # "pre" /\ "alpha" # "rc" /\ "alpha" # "p"
          /\ "beta" # "pre" /\ "beta" # "rc" /\ "beta" # "p" /\ "pre" # "rc" /\ "pre" # "p"
          /\ "rc" # "p" /\ "bogus" # "alpha" /\ "bogus" # "beta" /\ "bogus" # "pre"
          /\ "bogus" # "rc" /\ "bogus" # "p"
      OBVIOUS
    <2>3. at("alpha") = 1
      BY <1>1, <1>2, <2>1, <2>2
    <2>4. at("beta") = 2
      BY <1>1, <1>2, <2>1, <2>2
    <2>5. at("pre") = 3
      BY <1>1, <1>2, <2>1, <2>2
    <2>6. at("rc") = 4
      BY <1>1, <1>2, <2>1, <2>2
    <2>7. at("p") = 6
      BY <1>1, <1>2, <2>1, <2>2
    <2> QED
      BY <2>3, <2>4, <2>5, <2>6, <2>7
  <1> HIDE DEF at
  <1>7. /\ Index("alpha") = 0 /\ Index("beta") = 1 /\ Index("pre") = 2
        /\ Index("rc") = 3 /\ Index("p") = 5
    BY <1>5, <1>6
  <1> QED
    BY <1>7 DEF VER_NORM

WrittenName == {"alpha", "beta", "pre", "rc", "p"}

LEMMA SuffixIs ==
  ASSUME NEW v \in Version, NEW k \in Nat \ {0}
  PROVE  /\ Len(v.suf) \in Nat /\ DOMAIN v.suf = 1 .. Len(v.suf)
         /\ k <= Len(v.suf)
              => /\ v.suf[k] \in WrittenSuffix
                 /\ v.suf[k].name \in WrittenName /\ v.suf[k].n \in Nat
                 /\ Suffix(v, k).suffix = Index(v.suf[k].name) /\ Suffix(v, k).sint = v.suf[k].n
         /\ ~ (k <= Len(v.suf)) => Suffix(v, k).suffix = VER_NORM /\ Suffix(v, k).sint = 0
  <1>1. v.suf \in Seq(WrittenSuffix)
    BY DEF Version
  <1>2. Len(v.suf) \in Nat /\ DOMAIN v.suf = 1 .. Len(v.suf)
    BY <1>1
  <1>3. ASSUME k <= Len(v.suf)
        PROVE  /\ v.suf[k] \in WrittenSuffix
               /\ v.suf[k].name \in WrittenName /\ v.suf[k].n \in Nat
               /\ Suffix(v, k).suffix = Index(v.suf[k].name) /\ Suffix(v, k).sint = v.suf[k].n
    <2>1. v.suf[k] \in WrittenSuffix
      BY <1>1, <1>3
    <2>2. v.suf[k].name \in WrittenName /\ v.suf[k].n \in Nat
      BY <2>1 DEF WrittenSuffix, WrittenName
    <2> QED
      BY <1>3, <2>1, <2>2 DEF Suffix
  <1>4. ~ (k <= Len(v.suf)) => Suffix(v, k).suffix = VER_NORM /\ Suffix(v, k).sint = 0
    BY DEF Suffix
  <1> QED
    BY <1>2, <1>3, <1>4

\* Every element of the array is a pair, so two of them are equal by their parts.
LEMMA SuffixPair ==
  ASSUME NEW v \in Version, NEW w \in Version, NEW k \in Nat \ {0}
  PROVE  Suffix(v, k) = Suffix(w, k)
           <=> /\ Suffix(v, k).suffix = Suffix(w, k).suffix
               /\ Suffix(v, k).sint = Suffix(w, k).sint
  BY DEF Suffix

\* Where both have a suffix, the elements are equal where the suffixes are.
LEMMA SuffixSame ==
  ASSUME NEW v \in Version, NEW w \in Version, NEW k \in Nat \ {0},
         k <= Len(v.suf), k <= Len(w.suf)
  PROVE  Suffix(v, k) = Suffix(w, k) <=> v.suf[k] = w.suf[k]
  <1> DEFINE s == v.suf[k]
             t == w.suf[k]
  <1>1. /\ s \in WrittenSuffix /\ s.name \in WrittenName
        /\ Suffix(v, k).suffix = Index(s.name) /\ Suffix(v, k).sint = s.n
    BY SuffixIs
  <1>2. /\ t \in WrittenSuffix /\ t.name \in WrittenName
        /\ Suffix(w, k).suffix = Index(t.name) /\ Suffix(w, k).sint = t.n
    BY SuffixIs
  <1> HIDE DEF s, t
  <1>3. s = t <=> s.name = t.name /\ s.n = t.n
    BY <1>1, <1>2 DEF WrittenSuffix
  <1>4. Index(s.name) = Index(t.name) <=> s.name = t.name
    BY <1>1, <1>2, IndexFacts DEF WrittenName
  <1> QED
    BY <1>1, <1>2, <1>3, <1>4, SuffixPair DEF s, t

LEMMA StopIs ==
  ASSUME NEW v \in Version, NEW w \in Version, NEW k \in Nat \ {0},
         k <= Len(v.suf) + Len(w.suf) + 1,
         Suffix(v, k) # Suffix(w, k) \/ Suffix(v, k).suffix = VER_NORM,
         \A j \in Nat \ {0} : j < k => Suffix(v, j) = Suffix(w, j) /\ Suffix(v, j).suffix # VER_NORM
  PROVE  SuffixStop(v, w) = k
  <1> DEFINE S == {j \in 1 .. Len(v.suf) + Len(w.suf) + 1 :
                     Suffix(v, j) # Suffix(w, j) \/ Suffix(v, j).suffix = VER_NORM}
             last == Len(v.suf) + Len(w.suf) + 1
  <1>1. Len(v.suf) \in Nat /\ Len(w.suf) \in Nat
    BY SuffixIs
  <1>2. last \in Nat
    <2>1. \A m, n \in Nat : m + n + 1 \in Nat
      OBVIOUS
    <2> QED
      BY <1>1, <2>1, Zenon
  <1> HIDE DEF last
  <1>3. k \in S
    <2>1. k <= last
      BY Zenon DEF last
    <2>2. k \in 1 .. last
      BY <1>2, <2>1
    <2> QED
      BY <2>2, Zenon DEF last
  <1>4. \A j \in S : j \in Nat \ {0} /\ k <= j
    <2>1. \A j \in S : j \in 1 .. last /\ (Suffix(v, j) # Suffix(w, j) \/ Suffix(v, j).suffix = VER_NORM)
      BY Zenon DEF last
    <2>2. \A j \in 1 .. last : j \in Nat \ {0} /\ (~ (j < k) => k <= j)
      BY <1>2
    <2> QED
      BY <2>1, <2>2, Zenon
  <1>5. S \in SUBSET Nat /\ \A j \in S : k <= j
    <2>1. \A j \in Nat \ {0} : j \in Nat
      OBVIOUS
    <2> QED
      BY <1>4, <2>1, Zenon
  <1>6. SuffixStop(v, w) = Least(S)
    BY DEF SuffixStop, last
  <1> HIDE DEF S
  <1> QED
    BY <1>3, <1>5, <1>6, LeastIs

\* A suffix before one that follows is not _p.
LEMMA NotPatch ==
  ASSUME NEW v \in Version, PatchedLast(v), NEW k \in Nat \ {0}, k < Len(v.suf)
  PROVE  Suffix(v, k).suffix # VER_NORM
  <1>1. k \in DOMAIN v.suf /\ k # Len(v.suf) /\ k <= Len(v.suf)
    BY SuffixIs
  <1>2. v.suf[k].name # "p"
    BY <1>1 DEF PatchedLast
  <1>3. v.suf[k].name \in WrittenName /\ Suffix(v, k).suffix = Index(v.suf[k].name)
    BY <1>1, SuffixIs
  <1> QED
    BY <1>2, <1>3, IndexFacts DEF WrittenName

\* What SuffixStep decides by where the walk has stopped.
SuffixAnswer(s, t) ==
  IF s.suffix # t.suffix THEN Order(s.suffix, t.suffix) ELSE Decide(Order(s.sint, t.sint))

LEMMA SuffixStepIs ==
  ASSUME NEW d, NEW q, ~ q.star
  PROVE  SuffixStep(d, q)
           = SuffixAnswer(Suffix(d.ver, SuffixStop(d.ver, q.ver)),
                          Suffix(q.ver, SuffixStop(d.ver, q.ver)))
  BY Zenon DEF SuffixStep, SuffixAnswer

\* One has the suffixes of the other and more.
LEMMA LongerSuffixes ==
  ASSUME NEW d, NEW q, ~ q.star, Numbered(d.ver), Numbered(q.ver),
         PatchedLast(d.ver), Len(d.ver.suf) > Len(q.ver.suf),
         \A k \in 1 .. Len(q.ver.suf) : d.ver.suf[k] = q.ver.suf[k]
  PROVE  SuffixStep(d, q) = IF d.ver.suf[Len(q.ver.suf) + 1].name = "p" THEN 1 ELSE -1
  <1> DEFINE v == d.ver
             w == q.ver
             k == Len(w.suf) + 1
             c == v.suf[k]
  <1>1. v \in Version /\ w \in Version
    BY DEF Numbered
  <1>2. Len(v.suf) \in Nat /\ Len(w.suf) \in Nat
    BY <1>1, SuffixIs
  <1>3. k \in Nat \ {0} /\ k <= Len(v.suf) /\ ~ (k <= Len(w.suf)) /\ k <= Len(v.suf) + Len(w.suf) + 1
    <2> DEFINE m == Len(v.suf)
               n == Len(w.suf)
    <2>1. m \in Nat /\ n \in Nat /\ m > n
      BY <1>2
    <2> HIDE DEF m, n
    <2>2. n + 1 \in Nat \ {0} /\ n + 1 <= m /\ ~ (n + 1 <= n) /\ n + 1 <= m + n + 1
      BY <2>1
    <2> QED
      BY <2>2, Zenon DEF m, n
  <1>4. ASSUME NEW j \in Nat \ {0}, j < k
        PROVE  Suffix(v, j) = Suffix(w, j) /\ Suffix(v, j).suffix # VER_NORM
    <2>1. j \in 1 .. Len(w.suf) /\ j <= Len(v.suf) /\ j <= Len(w.suf) /\ j < Len(v.suf)
      BY <1>2, <1>3, <1>4
    <2>2. v.suf[j] = w.suf[j]
      BY <2>1
    <2> QED
      BY <1>1, <2>1, <2>2, SuffixSame, NotPatch
  <1>5. /\ c.name \in WrittenName /\ c.n \in Nat
        /\ Suffix(v, k).suffix = Index(c.name) /\ Suffix(v, k).sint = c.n
    BY <1>1, <1>3, SuffixIs
  <1>6. Suffix(w, k).suffix = VER_NORM /\ Suffix(w, k).sint = 0
    BY <1>1, <1>3, SuffixIs
  <1>7. c.name = "p" => c.n > 0
    <2>1. k \in DOMAIN v.suf
      BY <1>1, <1>3, SuffixIs
    <2> QED
      BY <2>1 DEF PatchedLast
  <1>8. Index(c.name) \in Nat /\ (Index(c.name) = VER_NORM <=> c.name = "p") /\ Index(c.name) <= VER_NORM
    BY <1>5, IndexFacts DEF WrittenName
  <1> HIDE DEF c, k
  <1>9. Suffix(v, k) # Suffix(w, k) \/ Suffix(v, k).suffix = VER_NORM
    BY <1>6
  <1>10. SuffixStop(v, w) = k
    BY <1>1, <1>3, <1>4, <1>9, StopIs
  <1>11. SuffixStep(d, q) = SuffixAnswer(Suffix(v, k), Suffix(w, k))
    BY <1>10, SuffixStepIs
  <1>12. SuffixAnswer(Suffix(v, k), Suffix(w, k)) = IF c.name = "p" THEN 1 ELSE -1
    <2>1. CASE c.name = "p"
      <3>1. SuffixAnswer(Suffix(v, k), Suffix(w, k)) = Decide(Order(c.n, 0))
        BY <1>5, <1>6, <1>8, <2>1 DEF SuffixAnswer
      <3> QED
        BY <1>5, <1>7, <2>1, <3>1 DEF Decide, Order
    <2>2. CASE c.name # "p"
      <3>1. SuffixAnswer(Suffix(v, k), Suffix(w, k)) = Order(Index(c.name), VER_NORM)
        BY <1>5, <1>6, <1>8, <2>2 DEF SuffixAnswer
      <3> QED
        BY <1>8, <2>2, <3>1 DEF Order, VER_NORM
    <2> QED
      BY <2>1, <2>2
  <1> QED
    BY <1>11, <1>12 DEF c, k

LEMMA SuffixIsPMS ==
  ASSUME NEW d, NEW q, ~ d.star, ~ q.star, Numbered(d.ver), Numbered(q.ver),
         PatchedLast(d.ver), PatchedLast(q.ver)
  PROVE  /\ PMSSuffixes(d.ver, q.ver) \in Sign
         /\ SuffixStep(d, q) = Decide(PMSSuffixes(d.ver, q.ver))
  <1> DEFINE v == d.ver
             w == q.ver
             n == Shorter(v.suf, w.suf)
             diff == {k \in 1 .. n : v.suf[k] # w.suf[k]}
             m == Least(diff)
  <1>1. v \in Version /\ w \in Version
    BY DEF Numbered
  <1>2. Len(v.suf) \in Nat /\ Len(w.suf) \in Nat
    BY <1>1, SuffixIs
  <1>3. n \in Nat /\ n <= Len(v.suf) /\ n <= Len(w.suf) /\ (n = Len(v.suf) \/ n = Len(w.suf))
    BY SMTT(30), <1>2 DEF Shorter
  <1>4. PMSSuffixes(v, w) =
          CASE diff # {} -> IF v.suf[m].name = w.suf[m].name THEN Order(v.suf[m].n, w.suf[m].n)
                            ELSE Order(Index(v.suf[m].name), Index(w.suf[m].name))
            [] diff = {} /\ Len(v.suf) > n -> IF v.suf[n + 1].name = "p" THEN 1 ELSE -1
            [] diff = {} /\ Len(w.suf) > n -> IF w.suf[n + 1].name = "p" THEN -1 ELSE 1
            [] OTHER -> 0
    BY DEF PMSSuffixes
  <1>5. \A i \in Sign : i # 0 => Decide(i) = i
    BY DEF Decide
  <1>6. 1 \in Sign /\ -1 \in Sign /\ 0 \in Sign /\ Decide(1) = 1 /\ Decide(-1) = -1
    BY DEF Sign, Decide
  <1>7. CASE diff # {}
    <2> DEFINE s == v.suf[m]
               t == w.suf[m]
    <2>1. m \in diff /\ \A j \in diff : m <= j
      <3>1. diff \in SUBSET Nat
        OBVIOUS
      <3> HIDE DEF diff
      <3> QED
        BY <1>7, <3>1, LeastFacts
    <2>2. m \in 1 .. n /\ s # t
      BY <2>1
    <2>3. \A j \in 1 .. n : v.suf[j] # w.suf[j] => m <= j
      BY <2>1
    <2> HIDE DEF diff, m, n
    <2>4. m \in Nat \ {0} /\ m <= Len(v.suf) /\ m <= Len(w.suf)
      BY <1>2, <1>3, <2>2
    <2>5. ASSUME NEW j \in Nat \ {0}, j < m
          PROVE  Suffix(v, j) = Suffix(w, j) /\ Suffix(v, j).suffix # VER_NORM
      <3>1. j \in 1 .. n /\ ~ (m <= j) /\ j <= Len(v.suf) /\ j <= Len(w.suf) /\ j < Len(v.suf)
        BY <1>2, <1>3, <2>2, <2>4, <2>5
      <3>2. v.suf[j] = w.suf[j]
        BY <2>3, <3>1
      <3> QED
        BY <1>1, <3>1, <3>2, SuffixSame, NotPatch
    <2>6. Suffix(v, m) # Suffix(w, m)
      BY <1>1, <2>2, <2>4, SuffixSame
    <2>7. m <= Len(v.suf) + Len(w.suf) + 1
      <3> DEFINE a == Len(v.suf)
                 b == Len(w.suf)
      <3>1. a \in Nat /\ b \in Nat /\ m \in Nat /\ m <= a
        BY <1>2, <2>4
      <3> HIDE DEF a, b
      <3>2. m <= a + b + 1
        BY <3>1
      <3> QED
        BY <3>2, Zenon DEF a, b
    <2>8. SuffixStop(v, w) = m
      BY <1>1, <2>4, <2>5, <2>6, <2>7, StopIs
    <2>9. SuffixStep(d, q) = SuffixAnswer(Suffix(v, m), Suffix(w, m))
      BY <2>8, SuffixStepIs
    <2>10. /\ s \in WrittenSuffix /\ s.name \in WrittenName /\ s.n \in Nat
           /\ Suffix(v, m).suffix = Index(s.name) /\ Suffix(v, m).sint = s.n
      BY <1>1, <2>4, SuffixIs
    <2>11. /\ t \in WrittenSuffix /\ t.name \in WrittenName /\ t.n \in Nat
           /\ Suffix(w, m).suffix = Index(t.name) /\ Suffix(w, m).sint = t.n
      BY <1>1, <2>4, SuffixIs
    <2>12. PMSSuffixes(v, w) = IF s.name = t.name THEN Order(s.n, t.n)
                               ELSE Order(Index(s.name), Index(t.name))
      BY <1>4, <1>7
    <2> HIDE DEF s, t
    <2>13. /\ Index(s.name) \in Int /\ Index(t.name) \in Int
           /\ Index(s.name) = Index(t.name) <=> s.name = t.name
      BY <2>10, <2>11, IndexFacts DEF WrittenName
    <2>14. CASE s.name = t.name
      <3>1. SuffixAnswer(Suffix(v, m), Suffix(w, m)) = Decide(Order(s.n, t.n))
        BY <2>10, <2>11, <2>14 DEF SuffixAnswer
      <3>2. Order(s.n, t.n) \in Sign
        BY <2>10, <2>11, OrderFacts
      <3> QED
        BY <2>9, <2>12, <2>14, <3>1, <3>2, Zenon
    <2>15. CASE s.name # t.name
      <3>1. SuffixAnswer(Suffix(v, m), Suffix(w, m)) = Order(Index(s.name), Index(t.name))
        BY <2>10, <2>11, <2>13, <2>15 DEF SuffixAnswer
      <3>2. Order(Index(s.name), Index(t.name)) \in Sign /\ Order(Index(s.name), Index(t.name)) # 0
        BY <2>13, <2>15, OrderFacts
      <3>3. Decide(Order(Index(s.name), Index(t.name))) = Order(Index(s.name), Index(t.name))
        BY <1>5, <3>2
      <3> QED
        BY <2>9, <2>12, <2>15, <3>1, <3>2, <3>3, Zenon
    <2> QED
      BY <2>14, <2>15
  <1>8. CASE diff = {} /\ Len(v.suf) > n
    <2>1. n = Len(w.suf) /\ Len(v.suf) > Len(w.suf)
      BY <1>2, <1>3, <1>8
    <2>2. \A k \in 1 .. Len(w.suf) : v.suf[k] = w.suf[k]
      BY <1>8, <2>1
    <2>3. SuffixStep(d, q) = IF v.suf[Len(w.suf) + 1].name = "p" THEN 1 ELSE -1
      BY <2>1, <2>2, LongerSuffixes
    <2>4. PMSSuffixes(v, w) = IF v.suf[n + 1].name = "p" THEN 1 ELSE -1
      <3>1. ~ (Len(w.suf) > n)
        BY <1>2, <2>1
      <3> HIDE DEF n, diff
      <3> QED
        BY <1>4, <1>8, <3>1
    <2> HIDE DEF n
    <2> QED
      BY <1>6, <2>1, <2>3, <2>4
  <1>9. CASE diff = {} /\ Len(w.suf) > n
    <2>1. n = Len(v.suf) /\ Len(w.suf) > Len(v.suf)
      BY <1>2, <1>3, <1>9
    <2>2. \A k \in 1 .. Len(v.suf) : w.suf[k] = v.suf[k]
      BY <1>9, <2>1
    <2>3. SuffixStep(q, d) = IF w.suf[Len(v.suf) + 1].name = "p" THEN 1 ELSE -1
      BY <2>1, <2>2, LongerSuffixes
    <2>4. PMSSuffixes(v, w) = IF w.suf[n + 1].name = "p" THEN -1 ELSE 1
      <3>1. ~ (Len(v.suf) > n)
        BY <1>2, <2>1
      <3> HIDE DEF n, diff
      <3> QED
        BY <1>4, <1>9, <3>1
    <2>5. Opposite(SuffixStep(d, q), SuffixStep(q, d))
      BY SuffixFlips
    <2> HIDE DEF n
    <2>6. \A x, y : Opposite(x, y) /\ y = 1 => x = -1
      BY DEF Opposite, Undecided, Sign
    <2>7. \A x, y : Opposite(x, y) /\ y = -1 => x = 1
      BY DEF Opposite, Undecided, Sign
    <2> QED
      BY <1>6, <2>1, <2>3, <2>4, <2>5, <2>6, <2>7
  <1>10. CASE diff = {} /\ ~ (Len(v.suf) > n) /\ ~ (Len(w.suf) > n)
    <2> DEFINE k == SuffixStop(v, w)
    <2>1. k \in Nat \ {0}
      BY <1>1, StopFacts
    <2>2. Len(v.suf) = n /\ Len(w.suf) = n
      BY <1>2, <1>3, <1>10
    <2> HIDE DEF k
    <2>3. /\ Suffix(v, k).suffix = Suffix(w, k).suffix
          /\ Suffix(v, k).sint = Suffix(w, k).sint /\ Suffix(v, k).sint \in Int
      <3>1. CASE k <= n
        <4>1. v.suf[k] = w.suf[k]
          BY <1>3, <1>10, <2>1, <3>1
        <4> HIDE DEF n
        <4>2. Suffix(v, k) = Suffix(w, k)
          BY <1>1, <2>1, <2>2, <3>1, <4>1, SuffixSame
        <4> QED
          BY <1>1, <2>1, <4>2, SuffixFacts
      <3>2. CASE ~ (k <= n)
        <4> HIDE DEF n
        <4> QED
          BY <1>1, <2>1, <2>2, <3>2, SuffixIs
      <3> QED
        BY <3>1, <3>2
    <2>4. SuffixStep(d, q) = SuffixAnswer(Suffix(v, k), Suffix(w, k))
      BY SuffixStepIs DEF k
    <2>5. SuffixAnswer(Suffix(v, k), Suffix(w, k)) = Decide(0)
      BY <2>3 DEF SuffixAnswer, Order
    <2> HIDE DEF n, diff
    <2>6. PMSSuffixes(v, w) = 0
      BY <1>4, <1>10
    <2> QED
      BY <1>6, <2>4, <2>5, <2>6
  <1> QED
    BY <1>7, <1>8, <1>9, <1>10

\* The first of the parts that is not 0 decides, and all of them 0 leave it to the end.
LEMMA FirstPart ==
  ASSUME NEW p, DOMAIN p = 1 .. 5, p[5] = 0, \A i \in 1 .. 4 : p[i] \in Sign,
         NEW s, DOMAIN s = 1 .. 6, s[5] = Undecided, s[6] = 0,
         \A i \in 1 .. 4 : s[i] = Decide(p[i])
  PROVE  s[Least({i \in DOMAIN s : s[i] # Undecided})] = p[Least({i \in DOMAIN p : p[i] # 0 \/ i = 5})]
  <1> DEFINE S == {i \in DOMAIN s : s[i] # Undecided}
             P == {i \in DOMAIN p : p[i] # 0 \/ i = 5}
  <1>1. \A i \in 1 .. 4 : (s[i] # Undecided <=> p[i] # 0) /\ (p[i] # 0 => s[i] = p[i])
    <2>1. \A x \in Sign : (Decide(x) # Undecided <=> x # 0) /\ (x # 0 => Decide(x) = x)
      BY DEF Decide, Undecided, Sign
    <2> QED
      BY <2>1
  <1>2. P \in SUBSET Nat /\ S \in SUBSET Nat /\ 5 \in P /\ 6 \in S /\ 5 \notin S
    BY DEF Undecided
  <1>3. \A i \in 1 .. 4 : i \in S <=> i \in P
    BY <1>1
  <1>4. \A i \in P : i \in 1 .. 4 \/ i = 5
    OBVIOUS
  <1>5. \A i \in S : i \in 1 .. 4 \/ i = 6
    BY <1>2
  <1>6. Least(P) \in P /\ \A j \in P : Least(P) <= j
    BY <1>2, LeastFacts
  <1>7. CASE Least(P) \in 1 .. 4
    <2>1. Least(P) \in S
      BY <1>3, <1>6, <1>7
    <2>2. \A j \in S : Least(P) <= j
      <3> HIDE DEF P, S
      <3> QED
        BY <1>3, <1>5, <1>6, <1>7
    <2>3. Least(S) = Least(P)
      BY <1>2, <2>1, <2>2, LeastIs
    <2>4. s[Least(P)] = p[Least(P)]
      <3>1. p[Least(P)] # 0
        BY <1>1, <1>7, <2>1
      <3> HIDE DEF P
      <3> QED
        BY <1>1, <1>7, <3>1
    <2> QED
      BY <2>3, <2>4, Zenon
  <1>8. CASE Least(P) = 5
    <2>1. \A i \in 1 .. 4 : i \notin S
      <3>1. \A i \in 1 .. 4 : ~ (5 <= i)
        OBVIOUS
      <3> HIDE DEF P, S
      <3> QED
        BY <1>3, <1>6, <1>8, <3>1
    <2>2. \A j \in S : 6 <= j
      <3> HIDE DEF S
      <3> QED
        BY <1>5, <2>1
    <2>3. Least(S) = 6
      BY <1>2, <2>2, LeastIs
    <2> QED
      BY <1>8, <2>3, Zenon
  <1> QED
    BY <1>4, <1>6, <1>7, <1>8

\* The comparison of two regular versions is the order of PMS.
LEMMA VersionIsPMS ==
  ASSUME NEW d \in Atoms, NEW q \in Atoms, ~ d.star, ~ q.star,
         Read(d.ver), Read(q.ver), d.build = q.build,
         Regular(d.ver), Regular(q.ver), ~ DigitLost(d.ver, q.ver), ~ DigitLost(q.ver, d.ver)
  PROVE  VersionOrder(d, q, "none", {}) = PMSOrder(d.ver, q.ver)
  <1> DEFINE v == d.ver
             w == q.ver
             p == <<PMSNumeric(v, w), Order(v.letter, w.letter), PMSSuffixes(v, w),
                    Order(v.rev, w.rev), 0>>
             s == Steps(d, q, "none", {})
  <1>1. Numbered(v) /\ Numbered(w) /\ v # None /\ w # None
    BY NoneAssumption DEF Read, Numbered
  <1>2. s = <<NumericStep(d, q), LetterStep(d, q), SuffixStep(d, q),
              RevisionStep(d, q, "none", {}), BuildStep(d, q), 0>>
    BY <1>1, Zenon DEF Steps
  <1>3. PMSNumeric(v, w) \in Sign /\ NumericStep(d, q) = Decide(PMSNumeric(v, w))
    BY NumericIsPMS DEF Regular
  <1>4. Order(v.letter, w.letter) \in Sign /\ LetterStep(d, q) = Decide(Order(v.letter, w.letter))
    BY <1>1, LetterIsPMS
  <1>5. PMSSuffixes(v, w) \in Sign /\ SuffixStep(d, q) = Decide(PMSSuffixes(v, w))
    BY <1>1, SuffixIsPMS DEF Regular
  <1>6. /\ Order(v.rev, w.rev) \in Sign
        /\ RevisionStep(d, q, "none", {}) = Decide(Order(v.rev, w.rev))
    <2>1. v.rev \in Int /\ w.rev \in Int
      BY <1>1 DEF Numbered, Version
    <2>2. RevisionStep(d, q, "none", {}) = Decide(Order(v.rev, w.rev))
      BY <1>1 DEF RevisionStep, Revision
    <2> QED
      BY <2>1, <2>2, OrderFacts
  <1>7. BuildStep(d, q) = Undecided
    <2>1. d.build \in Int
      BY DEF Atoms
    <2>2. Decide(Order(d.build, d.build)) = Undecided
      BY <2>1 DEF Decide, Order
    <2> QED
      BY <2>2 DEF BuildStep
  <1>8. DOMAIN p = 1 .. 5 /\ p[5] = 0 /\ DOMAIN s = 1 .. 6 /\ s[5] = Undecided /\ s[6] = 0
    BY <1>2, <1>7
  <1>9. /\ p[1] \in Sign /\ p[2] \in Sign /\ p[3] \in Sign /\ p[4] \in Sign
        /\ s[1] = Decide(p[1]) /\ s[2] = Decide(p[2]) /\ s[3] = Decide(p[3]) /\ s[4] = Decide(p[4])
    BY <1>2, <1>3, <1>4, <1>5, <1>6
  <1>10. VersionOrder(d, q, "none", {}) = s[Least({i \in DOMAIN s : s[i] # Undecided})]
    BY Zenon DEF VersionOrder
  <1>11. PMSOrder(v, w) = p[Least({i \in DOMAIN p : p[i] # 0 \/ i = 5})]
    <2>1. PMSOrder(v, w) = p[Least({i \in DOMAIN p : p[i] # 0 \/ i = Len(p)})]
      BY Zenon DEF PMSOrder
    <2>2. Len(p) = 5
      OBVIOUS
    <2> HIDE DEF p
    <2> QED
      BY <2>1, <2>2
  <1> HIDE DEF p, s
  <1>12. \A i \in 1 .. 4 : p[i] \in Sign /\ s[i] = Decide(p[i])
    <2>1. \A i \in 1 .. 4 : i = 1 \/ i = 2 \/ i = 3 \/ i = 4
      OBVIOUS
    <2> QED
      BY <1>9, <2>1, Zenon
  <1>13. s[Least({i \in DOMAIN s : s[i] # Undecided})] = p[Least({i \in DOMAIN p : p[i] # 0 \/ i = 5})]
    BY <1>8, <1>12, FirstPart
  <1> QED
    BY <1>10, <1>11, <1>13, Zenon

\* The versions of a call are read as strtoll reads them.
LEMMA StateRead ==
  ASSUME TypeOK, data.ver # None, query.ver # None
  PROVE  Read(data.ver) /\ Read(query.ver)
  <1> DEFINE c == <<data, query, flags>>
  <1>1. c \in Call /\ c[1] = data /\ c[2] = query
    BY DEF TypeOK
  <1>2. data \in Data /\ query \in Query
    BY <1>1, Zenon DEF Data, Query
  <1>3. Numbered(data.ver) /\ Numbered(query.ver)
    <2> HIDE DEF c
    <2> QED
      BY <1>1, CallFacts
  <1> QED
    BY <1>2, <1>3, StrtollAssumption DEF Read

-----------------------------------------------------------------------------
(* The order is a strict weak one.  It is the lexicographic order of four  *)
(* keys, and lexicographic orders of integers are strict and weak.         *)

Then(m, n) == IF m # 0 THEN m ELSE n

\* How the orders of a pair, of the next pair and of the outer two go together.
Chain(x, y, z) == (x = 0 => z = y) /\ (y = 0 => z = x) /\ (x = y => z = x)

LEMMA OrderChain ==
  ASSUME NEW l \in Int, NEW m \in Int, NEW n \in Int
  PROVE  Chain(Order(l, m), Order(m, n), Order(l, n))
  BY DEF Chain, Order

LEMMA ThenChain ==
  ASSUME NEW x1 \in Sign, NEW y1 \in Sign, NEW z1 \in Sign, Chain(x1, y1, z1),
         NEW x2 \in Sign, NEW y2 \in Sign, NEW z2 \in Sign, Chain(x2, y2, z2)
  PROVE  /\ Chain(Then(x1, x2), Then(y1, y2), Then(z1, z2))
         /\ Then(x1, x2) \in Sign /\ Then(y1, y2) \in Sign /\ Then(z1, z2) \in Sign
  BY DEF Chain, Then, Sign

Pair == Int \X Int
PairOrder(p, r) == Then(Order(p[1], r[1]), Order(p[2], r[2]))

LEMMA PairFacts ==
  ASSUME NEW p \in Pair, NEW r \in Pair
  PROVE  PairOrder(p, r) \in Sign /\ (PairOrder(p, r) = 0 <=> p = r)
  <1>1. p[1] \in Int /\ p[2] \in Int /\ r[1] \in Int /\ r[2] \in Int
    BY DEF Pair
  <1>2. p = r <=> p[1] = r[1] /\ p[2] = r[2]
    BY DEF Pair
  <1>3. /\ Order(p[1], r[1]) \in Sign /\ (Order(p[1], r[1]) = 0 <=> p[1] = r[1])
        /\ Order(p[2], r[2]) \in Sign /\ (Order(p[2], r[2]) = 0 <=> p[2] = r[2])
    BY <1>1, OrderFacts
  <1> QED
    BY <1>2, <1>3 DEF PairOrder, Then

LEMMA PairChain ==
  ASSUME NEW p \in Pair, NEW r \in Pair, NEW u \in Pair
  PROVE  Chain(PairOrder(p, r), PairOrder(r, u), PairOrder(p, u))
  <1>1. /\ p[1] \in Int /\ p[2] \in Int /\ r[1] \in Int /\ r[2] \in Int
        /\ u[1] \in Int /\ u[2] \in Int
    BY DEF Pair
  <1>2. /\ Chain(Order(p[1], r[1]), Order(r[1], u[1]), Order(p[1], u[1]))
        /\ Chain(Order(p[2], r[2]), Order(r[2], u[2]), Order(p[2], u[2]))
    BY <1>1, OrderChain
  <1>3. /\ Order(p[1], r[1]) \in Sign /\ Order(r[1], u[1]) \in Sign /\ Order(p[1], u[1]) \in Sign
        /\ Order(p[2], r[2]) \in Sign /\ Order(r[2], u[2]) \in Sign /\ Order(p[2], u[2]) \in Sign
    BY <1>1, OrderFacts
  <1> QED
    BY <1>2, <1>3, ThenChain DEF PairOrder

\* Keys are infinite sequences of pairs.
Place == Nat \ {0}
Key == [Place -> Pair]
Lex(f, g) ==
  IF f = g THEN 0
  ELSE LET k == Least({i \in Place : f[i] # g[i]}) IN PairOrder(f[k], g[k])

\* k is the first place where f and g differ.
First(f, g, k) == k \in Place /\ f[k] # g[k] /\ \A j \in Place : j < k => f[j] = g[j]

LEMMA FirstExists ==
  ASSUME NEW f \in Key, NEW g \in Key, f # g
  PROVE  \E k : First(f, g, k)
  <1> DEFINE S == {i \in Place : f[i] # g[i]}
  <1>1. \E i \in Place : f[i] # g[i]
    BY DEF Key
  <1>2. S \in SUBSET Nat /\ S # {}
    BY <1>1 DEF Place
  <1>3. Least(S) \in S /\ \A j \in S : Least(S) <= j
    BY <1>2, LeastFacts
  <1>4. Least(S) \in Place /\ f[Least(S)] # g[Least(S)]
    BY <1>3
  <1>5. \A j \in Place : j < Least(S) => f[j] = g[j]
    <2>1. \A j \in Place : f[j] # g[j] => Least(S) <= j
      BY <1>3
    <2>2. \A i, j \in Place : i <= j => ~ (j < i)
      BY DEF Place
    <2> HIDE DEF S
    <2> QED
      BY <1>4, <2>1, <2>2
  <1> QED
    BY <1>4, <1>5, Zenon DEF First

LEMMA LexIs ==
  ASSUME NEW f \in Key, NEW g \in Key, NEW k, First(f, g, k)
  PROVE  Lex(f, g) = PairOrder(f[k], g[k])
  <1> DEFINE S == {i \in Place : f[i] # g[i]}
  <1>1. k \in S /\ S \in SUBSET Nat
    BY DEF First, Place
  <1>2. \A j \in S : k <= j
    <2>1. \A j \in S : j \in Place /\ ~ (j < k)
      BY DEF First
    <2>2. \A i, j \in Place : ~ (j < i) => i <= j
      BY DEF Place
    <2> QED
      BY <2>1, <2>2, Zenon DEF First
  <1>3. Least(S) = k
    <2> HIDE DEF S
    <2> QED
      BY <1>1, <1>2, LeastIs
  <1>4. f # g
    BY DEF First
  <1>5. Lex(f, g) = PairOrder(f[Least(S)], g[Least(S)])
    BY <1>4, Zenon DEF Lex
  <1> QED
    BY <1>3, <1>5, Zenon

LEMMA KeyPair ==
  ASSUME NEW f \in Key, NEW k \in Place
  PROVE  f[k] \in Pair
  BY DEF Key

LEMMA LexType ==
  ASSUME NEW f \in Key, NEW g \in Key
  PROVE  Lex(f, g) \in Sign
  <1>1. CASE f = g
    BY <1>1 DEF Lex, Sign
  <1>2. CASE f # g
    <2>1. PICK k : First(f, g, k)
      BY <1>2, FirstExists
    <2>2. f[k] \in Pair /\ g[k] \in Pair
      BY <2>1, KeyPair DEF First
    <2> QED
      BY <2>1, <2>2, LexIs, PairFacts
  <1> QED
    BY <1>1, <1>2

LEMMA LexChain ==
  ASSUME NEW f \in Key, NEW g \in Key, NEW h \in Key
  PROVE  Chain(Lex(f, g), Lex(g, h), Lex(f, h))
  <1>1. \A x, y \in Sign : /\ y # 0 => Chain(0, y, y)
                           /\ x # 0 => Chain(x, 0, x)
                           /\ Chain(0, 0, 0)
    BY DEF Chain, Sign
  <1>2. CASE f = g
    <2>1. Lex(f, g) = 0 /\ Lex(g, h) = Lex(f, h) /\ Lex(f, h) \in Sign
      BY <1>2, LexType DEF Lex
    <2> QED
      BY <1>1, <2>1
  <1>3. CASE g = h
    <2>1. Lex(g, h) = 0 /\ Lex(f, g) = Lex(f, h) /\ Lex(f, h) \in Sign
      BY <1>3, LexType DEF Lex
    <2> QED
      BY <1>1, <2>1
  <1>4. CASE f # g /\ g # h
    <2>1. PICK i : First(f, g, i)
      BY <1>4, FirstExists
    <2>2. PICK j : First(g, h, j)
      BY <1>4, FirstExists
    <2>3. i \in Place /\ j \in Place
      BY <2>1, <2>2 DEF First
    <2>4. /\ f[i] \in Pair /\ g[i] \in Pair /\ h[i] \in Pair
          /\ f[j] \in Pair /\ g[j] \in Pair /\ h[j] \in Pair
      BY <2>3, KeyPair
    <2>5. Lex(f, g) = PairOrder(f[i], g[i]) /\ Lex(g, h) = PairOrder(g[j], h[j])
      BY <2>1, <2>2, LexIs
    <2>6. /\ Lex(f, g) \in Sign /\ Lex(f, g) # 0 /\ Lex(g, h) \in Sign /\ Lex(g, h) # 0
      BY <2>1, <2>2, <2>4, <2>5, PairFacts DEF First
    <2>7. CASE i < j
      <3>1. g[i] = h[i]
        BY <2>2, <2>3, <2>7 DEF First
      <3>2. \A k \in Place : k < i => f[k] = g[k] /\ g[k] = h[k]
        <4>1. \A k \in Place : k < i => k < j
          BY <2>3, <2>7 DEF Place
        <4> QED
          BY <2>1, <2>2, <4>1 DEF First
      <3>3. First(f, h, i)
        BY <2>1, <3>1, <3>2 DEF First
      <3>4. Lex(f, h) = Lex(f, g)
        BY <2>5, <3>1, <3>3, LexIs
      <3> QED
        BY <2>6, <3>4 DEF Chain
    <2>8. CASE j < i
      <3>1. f[j] = g[j]
        BY <2>1, <2>3, <2>8 DEF First
      <3>2. \A k \in Place : k < j => f[k] = g[k] /\ g[k] = h[k]
        <4>1. \A k \in Place : k < j => k < i
          BY <2>3, <2>8 DEF Place
        <4> QED
          BY <2>1, <2>2, <4>1 DEF First
      <3>3. First(f, h, j)
        BY <2>2, <3>1, <3>2 DEF First
      <3>4. Lex(f, h) = Lex(g, h)
        BY <2>5, <3>1, <3>3, LexIs
      <3> QED
        BY <2>6, <3>4 DEF Chain
    <2>9. CASE i = j
      <3>1. Chain(PairOrder(f[i], g[i]), PairOrder(g[i], h[i]), PairOrder(f[i], h[i]))
        BY <2>4, PairChain
      <3>2. CASE f[i] = h[i]
        <4>1. PairOrder(f[i], h[i]) = 0
          BY <2>4, <3>2, PairFacts
        <4>2. Lex(f, g) # Lex(g, h)
          BY <2>5, <2>6, <2>9, <3>1, <4>1 DEF Chain
        <4> QED
          BY <2>6, <4>2 DEF Chain
      <3>3. CASE f[i] # h[i]
        <4>1. \A k \in Place : k < i => f[k] = h[k]
          BY <2>1, <2>2, <2>9 DEF First
        <4>2. First(f, h, i)
          BY <2>3, <3>3, <4>1 DEF First
        <4>3. Lex(f, h) = PairOrder(f[i], h[i])
          BY <4>2, LexIs
        <4> QED
          BY <2>5, <2>9, <3>1, <4>3
      <3> QED
        BY <3>2, <3>3
    <2>10. i < j \/ j < i \/ i = j
      BY <2>3 DEF Place
    <2> QED
      BY <2>7, <2>8, <2>9, <2>10
  <1> QED
    BY <1>2, <1>3, <1>4

\* The numbers of a version, and -1 past the last of them.
NumKey(v) ==
  [k \in Place |-> IF k <= Len(v.num) THEN <<Strtoll[v.num[k]], 0>> ELSE <<-1, 0>>]

LEMMA NumFacts ==
  ASSUME NEW v, Numbered(v)
  PROVE  /\ Len(v.num) \in Nat /\ DOMAIN v.num = 1 .. Len(v.num)
         /\ NumKey(v) \in Key
         /\ \A k \in Place : k <= Len(v.num) => /\ k \in DOMAIN v.num /\ Strtoll[v.num[k]] \in Nat
                                               /\ NumKey(v)[k] = <<Strtoll[v.num[k]], 0>>
         /\ \A k \in Place : ~ (k <= Len(v.num)) => NumKey(v)[k] = <<-1, 0>>
  <1>1. v.num \in Seq(Component)
    BY DEF Numbered, Version
  <1>2. Len(v.num) \in Nat /\ DOMAIN v.num = 1 .. Len(v.num)
    BY <1>1
  <1>3. ASSUME NEW k \in Place, k <= Len(v.num)
        PROVE  k \in DOMAIN v.num /\ Strtoll[v.num[k]] \in Nat
    <2>1. k \in DOMAIN v.num
      BY <1>2, <1>3 DEF Place
    <2> QED
      BY <2>1 DEF Numbered
  <1>4. \A m \in Int : <<m, 0>> \in Pair
    BY DEF Pair
  <1>5. <<-1, 0>> \in Pair /\ \A k \in Place : k <= Len(v.num) => <<Strtoll[v.num[k]], 0>> \in Pair
    BY <1>3, <1>4
  <1> QED
    BY <1>2, <1>3, <1>5 DEF NumKey, Key

\* Without leading zeros every component is compared as a number.
LEMMA ComponentIsNumber ==
  ASSUME NEW v, NEW w, Read(v), Read(w), NoLeadingZero(v), NoLeadingZero(w),
         NEW k \in DOMAIN v.num, k \in DOMAIN w.num, k \in Nat, k > 1 => Kept(v, w, k)
  PROVE  ComponentOrder(v, w, k) = Order(Strtoll[v.num[k]], Strtoll[w.num[k]])
  <1>1. v \in Version /\ w \in Version /\ Numbered(v) /\ Numbered(w)
    BY DEF Read, Numbered
  <1>2. Text(v, k)[1] = v.num[k][1] /\ Text(w, k)[1] = w.num[k][1]
    BY <1>1, ComponentFacts
  <1>3. Strtoll[v.num[k]] \in Nat /\ Strtoll[w.num[k]] \in Nat
    BY <1>1 DEF Numbered
  <1>4. CASE ~ (k > 1)
    BY <1>4 DEF ComponentOrder
  <1>5. CASE k > 1 /\ v.num[k][1] # 48 /\ w.num[k][1] # 48
    BY <1>2, <1>5 DEF ComponentOrder, StringWise
  <1>6. ASSUME NEW c, c[1] # 48, \E i \in DOMAIN c : i = 1, Strtoll[c] \in Nat,
               Strtoll[c] = 0 <=> \A i \in DOMAIN c : c[i] = 48
        PROVE  Order(0, Strtoll[c]) = -1 /\ Order(Strtoll[c], 0) = 1
    <2>1. Strtoll[c] # 0
      BY <1>6
    <2> QED
      BY <1>6, <2>1 DEF Order
  <1>7. Strtoll[v.num[k]] = 0 <=> \A i \in DOMAIN v.num[k] : v.num[k][i] = 48
    BY DEF Read
  <1>8. Strtoll[w.num[k]] = 0 <=> \A i \in DOMAIN w.num[k] : w.num[k][i] = 48
    BY DEF Read
  <1>9. \A c : c = << 48 >> => \A i \in DOMAIN c : c[i] = 48
    OBVIOUS
  <1>10. \A c \in Seq(Digit) : Len(c) > 0 => \E i \in DOMAIN c : i = 1
    OBVIOUS
  <1>11. (\E i \in DOMAIN v.num[k] : i = 1) /\ (\E i \in DOMAIN w.num[k] : i = 1)
    BY <1>1, <1>10, ComponentFacts
  <1>12. CASE k > 1 /\ v.num[k][1] = 48 /\ w.num[k][1] # 48
    <2>1. v.num[k] = << 48 >>
      BY <1>12, ZeroComponent
    <2>2. ComponentOrder(v, w, k) = -1
      BY <1>12, <2>1, ZeroFirst DEF Kept
    <2>3. Strtoll[v.num[k]] = 0
      BY <1>7, <1>9, <2>1, ZenonT(30)
    <2>4. Order(0, Strtoll[w.num[k]]) = -1
      BY <1>3, <1>6, <1>8, <1>11, <1>12, Zenon
    <2> QED
      BY <2>2, <2>3, <2>4, Zenon
  <1>13. CASE k > 1 /\ v.num[k][1] # 48 /\ w.num[k][1] = 48
    <2>1. w.num[k] = << 48 >>
      BY <1>13, ZeroComponent
    <2>2. ComponentOrder(w, v, k) = -1
      BY <1>13, <2>1, ZeroFirst DEF Kept
    <2>3. ComponentOrder(v, w, k) = -ComponentOrder(w, v, k) /\ ComponentOrder(w, v, k) \in Sign
      BY <1>1, ComponentFlips
    <2>4. Strtoll[w.num[k]] = 0
      BY <1>8, <1>9, <2>1, ZenonT(30)
    <2>5. Order(Strtoll[v.num[k]], 0) = 1
      BY <1>3, <1>6, <1>7, <1>11, <1>13, Zenon
    <2> QED
      BY <2>2, <2>3, <2>4, <2>5, MinusMinus, Zenon
  <1>14. CASE k > 1 /\ v.num[k][1] = 48 /\ w.num[k][1] = 48
    <2>1. v.num[k] = << 48 >> /\ w.num[k] = << 48 >>
      BY <1>14, ZeroComponent
    <2>2. ComponentOrder(v, w, k) = 0
      BY <1>1, <2>1, BothZero
    <2>3. \A m \in Nat : Order(m, m) = 0
      BY DEF Order
    <2> QED
      BY <1>3, <2>1, <2>2, <2>3, Zenon
  <1> QED
    BY <1>4, <1>5, <1>12, <1>13, <1>14

LEMMA NumericIsLex ==
  ASSUME NEW d, NEW q, ~ q.star, Read(d.ver), Read(q.ver),
         NoLeadingZero(d.ver), NoLeadingZero(q.ver),
         ~ DigitLost(d.ver, q.ver), ~ DigitLost(q.ver, d.ver)
  PROVE  NumericStep(d, q) = Decide(Lex(NumKey(d.ver), NumKey(q.ver)))
  <1> DEFINE v == d.ver
             w == q.ver
             f == NumKey(v)
             g == NumKey(w)
             x(k) == Strtoll[v.num[k]]
             y(k) == Strtoll[w.num[k]]
             n == Shorter(v.num, w.num)
             diff == Differing(v, w)
             a == Len(v.num)
             b == Len(w.num)
  <1>1. Numbered(v) /\ Numbered(w)
    BY DEF Read
  <1>2. a \in Nat /\ b \in Nat /\ f \in Key /\ g \in Key
    BY <1>1, NumFacts
  <1>3. /\ n \in Nat /\ n <= a /\ n <= b /\ (n = a \/ n = b)
        /\ Shorter(w.num, v.num) = n
    BY <1>2 DEF Shorter
  <1>4. ASSUME NEW k \in 1 .. n
        PROVE  /\ ComponentOrder(v, w, k) = Order(x(k), y(k)) /\ x(k) \in Nat /\ y(k) \in Nat
               /\ f[k] = <<x(k), 0>> /\ g[k] = <<y(k), 0>> /\ k \in Place
    <2>1. k \in Place /\ k <= a /\ k <= b
      BY <1>2, <1>3 DEF Place
    <2>2. /\ k \in DOMAIN v.num /\ x(k) \in Nat /\ f[k] = <<x(k), 0>>
          /\ k \in DOMAIN w.num /\ y(k) \in Nat /\ g[k] = <<y(k), 0>>
      BY <1>1, <2>1, NumFacts
    <2>3. k > 1 => Kept(v, w, k)
      <3>1. k > 1 => k \in 2 .. Shorter(v.num, w.num) /\ k \in 2 .. Shorter(w.num, v.num)
        BY <1>3
      <3> QED
        BY <3>1 DEF Kept, DigitLost
    <2>4. ComponentOrder(v, w, k) = Order(x(k), y(k))
      BY <2>1, <2>2, <2>3, ComponentIsNumber DEF Place
    <2> QED
      BY <2>1, <2>2, <2>4
  <1>5. \A k \in 1 .. n : ComponentOrder(v, w, k) # 0 <=> f[k] # g[k]
    <2>1. \A i, j \in Nat : Order(i, j) # 0 <=> <<i, 0>> # <<j, 0>>
      BY DEF Order
    <2> HIDE DEF f, g, n, x, y
    <2> QED
      BY <1>4, <2>1
  <1>6. \A i, j \in Int : PairOrder(<<i, 0>>, <<j, 0>>) = Order(i, j)
    BY DEF PairOrder, Then, Order
  <1>7. \A i \in Place : i <= n => i \in 1 .. n
    BY <1>3 DEF Place
  <1>8. diff = {k \in 1 .. n : ComponentOrder(v, w, k) # 0}
    BY DEF Differing
  <1>9. CASE diff # {}
    <2> DEFINE k == Least(diff)
    <2> HIDE DEF f, g, n, x, y
    <2>1. k \in diff /\ \A j \in diff : k <= j
      <3>1. diff \in SUBSET Nat
        BY <1>3, <1>8
      <3> HIDE DEF diff
      <3> QED
        BY <1>9, <3>1, LeastFacts
    <2>2. NumericStep(d, q) = ComponentOrder(v, w, k)
      BY <1>9, Zenon DEF NumericStep
    <2> HIDE DEF diff, k
    <2>3. k \in 1 .. n /\ ComponentOrder(v, w, k) # 0
      BY <1>8, <2>1
    <2>4. \A j \in Place : j < k => f[j] = g[j]
      <3>1. \A j \in Place : j < k => j \in 1 .. n /\ ~ (k <= j)
        BY <1>3, <2>3 DEF Place
      <3> QED
        BY <1>5, <1>8, <2>1, <3>1
    <2>5. First(f, g, k)
      BY <1>4, <1>5, <2>3, <2>4 DEF First
    <2>6. Lex(f, g) = PairOrder(f[k], g[k])
      BY <1>2, <2>5, LexIs
    <2>7. PairOrder(f[k], g[k]) = ComponentOrder(v, w, k)
      <3>1. /\ ComponentOrder(v, w, k) = Order(x(k), y(k)) /\ x(k) \in Nat /\ y(k) \in Nat
            /\ f[k] = <<x(k), 0>> /\ g[k] = <<y(k), 0>>
        BY <1>4, <2>3
      <3> QED
        BY <1>6, <3>1
    <2>8. Decide(ComponentOrder(v, w, k)) = ComponentOrder(v, w, k)
      BY <2>3 DEF Decide
    <2> QED
      BY <2>2, <2>6, <2>7, <2>8, Zenon DEF f, g
  <1>10. CASE diff = {}
    <2>1. NumericStep(d, q) = Decide(Order(a, b))
      BY <1>10, Zenon DEF NumericStep
    <2>2. \A k \in Place : k <= n => f[k] = g[k]
      BY <1>5, <1>7, <1>8, <1>10
    <2>3. /\ \A k \in Place : k <= a => x(k) \in Nat /\ f[k] = <<x(k), 0>>
          /\ \A k \in Place : ~ (k <= a) => f[k] = <<-1, 0>>
      BY <1>1, NumFacts
    <2>4. /\ \A k \in Place : k <= b => y(k) \in Nat /\ g[k] = <<y(k), 0>>
          /\ \A k \in Place : ~ (k <= b) => g[k] = <<-1, 0>>
      BY <1>1, NumFacts
    <2> HIDE DEF f, g, n, x, y, a, b, diff
    <2>5. \A m \in Nat : /\ Order(-1, m) = -1 /\ Order(m, -1) = 1
                         /\ <<m, 0>> # <<-1, 0>> /\ <<-1, 0>> # <<m, 0>>
      BY DEF Order
    <2>6. \A i, j \in Place : i < j + 1 => i <= j
      BY DEF Place
    <2>7. CASE a = b
      <3>1. \A k \in Place : f[k] = g[k]
        <4>1. n = a
          BY <1>3, <2>7
        <4> QED
          BY <2>2, <2>3, <2>4, <2>7, <4>1
      <3>2. f = g
        BY <1>2, <3>1 DEF Key
      <3> QED
        BY <1>2, <2>1, <2>7, <3>2 DEF Lex, Order, f, g
    <2>8. CASE a < b
      <3>1. n = a /\ a + 1 \in Place /\ ~ (a + 1 <= a) /\ a + 1 <= b
        BY <1>2, <1>3, <2>8 DEF Place
      <3>2. f[a + 1] = <<-1, 0>> /\ g[a + 1] = <<y(a + 1), 0>> /\ y(a + 1) \in Nat
        BY <2>3, <2>4, <3>1
      <3>3. \A j \in Place : j < a + 1 => f[j] = g[j]
        <4>1. \A j \in Place : j < a + 1 => j <= n
          BY <1>2, <3>1 DEF Place
        <4> QED
          BY <2>2, <4>1
      <3>4. First(f, g, a + 1)
        BY <2>5, <3>1, <3>2, <3>3 DEF First
      <3>5. Lex(f, g) = PairOrder(<<-1, 0>>, <<y(a + 1), 0>>)
        BY <1>2, <3>2, <3>4, LexIs
      <3>6. PairOrder(<<-1, 0>>, <<y(a + 1), 0>>) = -1
        <4>1. -1 \in Int /\ \A m \in Nat : m \in Int
          OBVIOUS
        <4> QED
          BY <1>6, <2>5, <3>2, <4>1, Zenon
      <3>7. Order(a, b) = -1
        BY <1>2, <2>8 DEF Order
      <3> QED
        BY <2>1, <3>5, <3>6, <3>7, Zenon DEF f, g
    <2>9. CASE b < a
      <3>1. n = b /\ b + 1 \in Place /\ ~ (b + 1 <= b) /\ b + 1 <= a
        BY <1>2, <1>3, <2>9 DEF Place
      <3>2. g[b + 1] = <<-1, 0>> /\ f[b + 1] = <<x(b + 1), 0>> /\ x(b + 1) \in Nat
        BY <2>3, <2>4, <3>1
      <3>3. \A j \in Place : j < b + 1 => f[j] = g[j]
        <4>1. \A j \in Place : j < b + 1 => j <= n
          BY <1>2, <3>1 DEF Place
        <4> QED
          BY <2>2, <4>1
      <3>4. First(f, g, b + 1)
        BY <2>5, <3>1, <3>2, <3>3 DEF First
      <3>5. Lex(f, g) = PairOrder(<<x(b + 1), 0>>, <<-1, 0>>)
        BY <1>2, <3>2, <3>4, LexIs
      <3>6. PairOrder(<<x(b + 1), 0>>, <<-1, 0>>) = 1
        <4>1. -1 \in Int /\ \A m \in Nat : m \in Int
          OBVIOUS
        <4> QED
          BY <1>6, <2>5, <3>2, <4>1, Zenon
      <3>7. Order(a, b) = 1
        BY <1>2, <2>9 DEF Order
      <3> QED
        BY <2>1, <3>5, <3>6, <3>7, Zenon DEF f, g
    <2>10. a = b \/ a < b \/ b < a
      BY <1>2
    <2> QED
      BY <2>7, <2>8, <2>9, <2>10
  <1> QED
    BY <1>9, <1>10

\* The suffixes of a version as far as its first _p, or its end.
Ended(v, k) == \E j \in Place : j < k /\ Suffix(v, j).suffix = VER_NORM
SufKey(v) ==
  [k \in Place |-> IF Ended(v, k) THEN <<VER_NORM, 0>> ELSE <<Suffix(v, k).suffix, Suffix(v, k).sint>>]

LEMMA SufKeyType ==
  ASSUME NEW v \in Version
  PROVE  SufKey(v) \in Key
  <1>1. \A k \in Place : <<Suffix(v, k).suffix, Suffix(v, k).sint>> \in Pair
    BY SuffixFacts DEF Place, Pair
  <1>2. <<VER_NORM, 0>> \in Pair
    BY DEF Pair, VER_NORM
  <1> QED
    BY <1>1, <1>2 DEF SufKey, Key

\* Up to where the walk stops the arrays are equal and have not ended.
LEMMA StopMeans ==
  ASSUME NEW v \in Version, NEW w \in Version
  PROVE  LET k == SuffixStop(v, w)
         IN /\ k \in Place
            /\ Suffix(v, k) # Suffix(w, k) \/ Suffix(v, k).suffix = VER_NORM
            /\ \A j \in Place : j < k => Suffix(v, j) = Suffix(w, j) /\ Suffix(v, j).suffix # VER_NORM
  <1> DEFINE last == Len(v.suf) + Len(w.suf) + 1
             S == {j \in 1 .. last : Suffix(v, j) # Suffix(w, j) \/ Suffix(v, j).suffix = VER_NORM}
             k == SuffixStop(v, w)
  <1>1. last \in Nat /\ last \in 1 .. last /\ ~ (last <= Len(v.suf))
    <2>1. \A m, n \in Nat : /\ m + n + 1 \in Nat /\ m + n + 1 \in 1 .. m + n + 1
                             /\ ~ (m + n + 1 <= m)
      OBVIOUS
    <2>2. Len(v.suf) \in Nat /\ Len(w.suf) \in Nat
      <3>1. 1 \in Nat \ {0}
        OBVIOUS
      <3> QED
        BY <3>1, SuffixIs
    <2> QED
      BY <2>1, <2>2, Zenon
  <1>2. k = Least(S)
    BY DEF SuffixStop
  <1> HIDE DEF last, k
  <1>3. last \in S
    <2>1. last \in Nat \ {0}
      BY <1>1
    <2>2. Suffix(v, last).suffix = VER_NORM
      BY <1>1, <2>1, SuffixIs
    <2> QED
      BY <1>1, <2>2
  <1>4. S \in SUBSET Nat
    BY <1>1
  <1>5. k \in S /\ \A j \in S : k <= j
    <2> HIDE DEF S
    <2> QED
      BY <1>2, <1>3, <1>4, LeastFacts
  <1>6. k \in Place /\ k <= last
    BY <1>1, <1>5 DEF Place
  <1>7. ASSUME NEW j \in Place, j < k
        PROVE  Suffix(v, j) = Suffix(w, j) /\ Suffix(v, j).suffix # VER_NORM
    <2>1. j \in 1 .. last /\ ~ (k <= j)
      BY <1>1, <1>6, <1>7 DEF Place
    <2>2. j \notin S
      <3> HIDE DEF S
      <3> QED
        BY <1>5, <2>1
    <2> QED
      BY <2>1, <2>2
  <1> QED
    BY <1>5, <1>6, <1>7 DEF k

LEMMA SuffixIsLex ==
  ASSUME NEW d, NEW q, ~ q.star, Numbered(d.ver), Numbered(q.ver)
  PROVE  SuffixStep(d, q) = Decide(Lex(SufKey(d.ver), SufKey(q.ver)))
  <1> DEFINE v == d.ver
             w == q.ver
             f == SufKey(v)
             g == SufKey(w)
             k == SuffixStop(v, w)
  <1>1. v \in Version /\ w \in Version
    BY DEF Numbered
  <1>2. f \in Key /\ g \in Key
    BY <1>1, SufKeyType
  <1>3. /\ k \in Place
        /\ Suffix(v, k) # Suffix(w, k) \/ Suffix(v, k).suffix = VER_NORM
        /\ \A j \in Place : j < k => Suffix(v, j) = Suffix(w, j) /\ Suffix(v, j).suffix # VER_NORM
    BY <1>1, StopMeans
  <1>4. SuffixStep(d, q) = SuffixAnswer(Suffix(v, k), Suffix(w, k))
    BY SuffixStepIs
  <1> HIDE DEF k
  <1>5. \A i, j \in Place : i < j /\ (j < k \/ j = k) => i < k
    BY <1>3 DEF Place
  <1>6. ASSUME NEW j \in Place, j < k \/ j = k
        PROVE  /\ f[j] = <<Suffix(v, j).suffix, Suffix(v, j).sint>>
               /\ g[j] = <<Suffix(w, j).suffix, Suffix(w, j).sint>>
    <2>1. ~ Ended(v, j) /\ ~ Ended(w, j)
      <3>1. \A i \in Place : i < j => Suffix(v, i).suffix # VER_NORM /\ Suffix(w, i).suffix # VER_NORM
        BY <1>3, <1>5, <1>6
      <3> QED
        BY <3>1 DEF Ended
    <2> QED
      BY <2>1 DEF SufKey
  <1>7. \A j \in Place : j < k => f[j] = g[j]
    <2> HIDE DEF f, g
    <2> QED
      BY <1>3, <1>6
  <1> DEFINE s == Suffix(v, k)
             t == Suffix(w, k)
  <1>8. s.suffix \in Int /\ t.suffix \in Int /\ s.sint \in Int /\ t.sint \in Int
    BY <1>1, <1>3, SuffixFacts DEF Place
  <1>9. s = t <=> s.suffix = t.suffix /\ s.sint = t.sint
    BY <1>1, <1>3, SuffixPair DEF Place
  <1>10. f[k] = <<s.suffix, s.sint>> /\ g[k] = <<t.suffix, t.sint>>
    BY <1>3, <1>6
  <1>11. CASE s # t
    <2> HIDE DEF f, g, s, t
    <2>1. f[k] # g[k]
      BY <1>9, <1>10, <1>11
    <2>2. First(f, g, k)
      BY <1>3, <1>7, <2>1 DEF First
    <2>3. Lex(f, g) = PairOrder(f[k], g[k])
      BY <1>2, <2>2, LexIs
    <2>4. PairOrder(f[k], g[k]) = Then(Order(s.suffix, t.suffix), Order(s.sint, t.sint))
      BY <1>10 DEF PairOrder
    <2>5. SuffixAnswer(s, t) = Decide(Then(Order(s.suffix, t.suffix), Order(s.sint, t.sint)))
      <3>1. /\ Order(s.suffix, t.suffix) \in Sign /\ (Order(s.suffix, t.suffix) = 0 <=> s.suffix = t.suffix)
            /\ Order(s.sint, t.sint) \in Sign
        BY <1>8, OrderFacts
      <3>2. \A m, n \in Sign : (m # 0 => Decide(Then(m, n)) = m) /\ (m = 0 => Decide(Then(m, n)) = Decide(n))
        BY DEF Decide, Then
      <3> QED
        BY <3>1, <3>2 DEF SuffixAnswer
    <2> QED
      BY <1>4, <2>3, <2>4, <2>5, Zenon DEF f, g, s, t
  <1>12. CASE s = t
    <2>1. s.suffix = VER_NORM /\ t.suffix = VER_NORM
      BY <1>3, <1>12
    <2>2. ASSUME NEW j \in Place, k < j
          PROVE  f[j] = <<VER_NORM, 0>> /\ g[j] = <<VER_NORM, 0>>
      <3>1. Ended(v, j) /\ Ended(w, j)
        BY <1>3, <2>1, <2>2 DEF Ended
      <3> QED
        BY <3>1 DEF SufKey
    <2> HIDE DEF f, g, s, t
    <2>3. f[k] = g[k]
      BY <1>10, <1>12
    <2>4. \A j \in Place : j < k \/ j = k \/ k < j
      BY <1>3 DEF Place
    <2>5. \A j \in Place : f[j] = g[j]
      BY <1>7, <2>2, <2>3, <2>4
    <2>6. f = g
      BY <1>2, <2>5 DEF Key
    <2>7. Lex(f, g) = 0
      BY <2>6 DEF Lex
    <2>8. SuffixAnswer(s, t) = Decide(0)
      BY <1>8, <1>12 DEF SuffixAnswer, Order
    <2> QED
      BY <1>4, <2>7, <2>8, Zenon DEF f, g, s, t
  <1> QED
    BY <1>11, <1>12

LEMMA FirstThen ==
  ASSUME NEW p, DOMAIN p = 1 .. 5, p[5] = 0
  PROVE  p[Least({i \in DOMAIN p : p[i] # 0 \/ i = 5})]
           = Then(p[1], Then(p[2], Then(p[3], p[4])))
  <1> DEFINE P == {i \in DOMAIN p : p[i] # 0 \/ i = 5}
             k == Least(P)
  <1>1. P \in SUBSET Nat /\ 5 \in P
    OBVIOUS
  <1>2. k \in P /\ \A j \in P : k <= j
    BY <1>1, LeastFacts
  <1>3. k = 1 \/ k = 2 \/ k = 3 \/ k = 4 \/ k = 5
    BY <1>2
  <1>4. p[k] # 0 \/ k = 5
    BY <1>2
  <1>5. \A j \in 1 .. 4 : ~ (k <= j) => p[j] = 0
    BY <1>2
  <1> HIDE DEF k, P
  <1>6. /\ k # 1 => p[1] = 0
        /\ k # 1 /\ k # 2 => p[2] = 0
        /\ k # 1 /\ k # 2 /\ k # 3 => p[3] = 0
        /\ k # 1 /\ k # 2 /\ k # 3 /\ k # 4 => p[4] = 0
    BY <1>3, <1>5
  <1>7. p[k] = Then(p[1], Then(p[2], Then(p[3], p[4])))
    BY <1>3, <1>4, <1>6 DEF Then
  <1> QED
    BY <1>7, Zenon DEF k, P

\* Without flags and globs a comparison is the lexicographic order of numbers, letter,
\* suffixes and revision.
Parts(v, w) ==
  Then(Lex(NumKey(v), NumKey(w)),
       Then(Order(v.letter, w.letter),
            Then(Lex(SufKey(v), SufKey(w)), Order(v.rev, w.rev))))

Comparable(v, w) ==
  /\ Read(v) /\ Read(w) /\ NoLeadingZero(v) /\ NoLeadingZero(w)
  /\ ~ DigitLost(v, w) /\ ~ DigitLost(w, v)

LEMMA PartTypes ==
  ASSUME NEW v, NEW w, Numbered(v), Numbered(w)
  PROVE  /\ v.letter \in Int /\ w.letter \in Int /\ v.rev \in Int /\ w.rev \in Int
         /\ NumKey(v) \in Key /\ NumKey(w) \in Key /\ SufKey(v) \in Key /\ SufKey(w) \in Key
         /\ Lex(NumKey(v), NumKey(w)) \in Sign /\ Order(v.letter, w.letter) \in Sign
         /\ Lex(SufKey(v), SufKey(w)) \in Sign /\ Order(v.rev, w.rev) \in Sign
  <1>1. v \in Version /\ w \in Version
    BY DEF Numbered
  <1>2. v.letter \in Int /\ w.letter \in Int /\ v.rev \in Int /\ w.rev \in Int
    <2>1. \A n \in {0} \cup Letter : n \in Int
      BY DEF Letter
    <2>2. v.letter \in {0} \cup Letter /\ w.letter \in {0} \cup Letter
      BY <1>1 DEF Version
    <2>3. v.rev \in Int /\ w.rev \in Int
      BY <1>1 DEF Version
    <2> QED
      BY <2>1, <2>2, <2>3, Zenon
  <1>3. NumKey(v) \in Key /\ NumKey(w) \in Key /\ SufKey(v) \in Key /\ SufKey(w) \in Key
    BY <1>1, NumFacts, SufKeyType
  <1> QED
    BY <1>2, <1>3, LexType, OrderFacts

LEMMA PartsChain ==
  ASSUME NEW u, NEW v, NEW w, Numbered(u), Numbered(v), Numbered(w)
  PROVE  /\ Chain(Parts(u, v), Parts(v, w), Parts(u, w))
         /\ Parts(u, v) \in Sign /\ Parts(v, w) \in Sign /\ Parts(u, w) \in Sign
  <1>1. Chain(Lex(NumKey(u), NumKey(v)), Lex(NumKey(v), NumKey(w)), Lex(NumKey(u), NumKey(w)))
    BY PartTypes, LexChain
  <1>2. Chain(Order(u.letter, v.letter), Order(v.letter, w.letter), Order(u.letter, w.letter))
    BY PartTypes, OrderChain
  <1>3. Chain(Lex(SufKey(u), SufKey(v)), Lex(SufKey(v), SufKey(w)), Lex(SufKey(u), SufKey(w)))
    BY PartTypes, LexChain
  <1>4. Chain(Order(u.rev, v.rev), Order(v.rev, w.rev), Order(u.rev, w.rev))
    BY PartTypes, OrderChain
  <1> DEFINE c(x, y) == Then(Lex(SufKey(x), SufKey(y)), Order(x.rev, y.rev))
             b(x, y) == Then(Order(x.letter, y.letter), c(x, y))
  <1>5. /\ Chain(c(u, v), c(v, w), c(u, w))
        /\ c(u, v) \in Sign /\ c(v, w) \in Sign /\ c(u, w) \in Sign
    BY <1>3, <1>4, PartTypes, ThenChain
  <1> HIDE DEF c
  <1>6. /\ Chain(b(u, v), b(v, w), b(u, w))
        /\ b(u, v) \in Sign /\ b(v, w) \in Sign /\ b(u, w) \in Sign
    BY <1>2, <1>5, PartTypes, ThenChain
  <1> HIDE DEF b
  <1> DEFINE a(x, y) == Then(Lex(NumKey(x), NumKey(y)), b(x, y))
  <1>7. /\ Chain(a(u, v), a(v, w), a(u, w))
        /\ a(u, v) \in Sign /\ a(v, w) \in Sign /\ a(u, w) \in Sign
    BY <1>1, <1>6, PartTypes, ThenChain
  <1>8. Parts(u, v) = a(u, v) /\ Parts(v, w) = a(v, w) /\ Parts(u, w) = a(u, w)
    BY Zenon DEF Parts, b, c
  <1> QED
    BY <1>7, <1>8, Zenon

LEMMA VersionIsParts ==
  ASSUME NEW d \in Atoms, NEW q \in Atoms, ~ q.star, Comparable(d.ver, q.ver),
         d.build = q.build
  PROVE  VersionOrder(d, q, "none", {}) = Parts(d.ver, q.ver)
  <1> DEFINE v == d.ver
             w == q.ver
             p == <<Lex(NumKey(v), NumKey(w)), Order(v.letter, w.letter), Lex(SufKey(v), SufKey(w)),
                    Order(v.rev, w.rev), 0>>
             s == Steps(d, q, "none", {})
  <1>1. Numbered(v) /\ Numbered(w) /\ v # None /\ w # None
    BY NoneAssumption DEF Comparable, Read, Numbered
  <1>2. s = <<NumericStep(d, q), LetterStep(d, q), SuffixStep(d, q),
              RevisionStep(d, q, "none", {}), BuildStep(d, q), 0>>
    BY <1>1, Zenon DEF Steps
  <1>3. NumericStep(d, q) = Decide(p[1])
    <2>1. NumericStep(d, q) = Decide(Lex(NumKey(v), NumKey(w)))
      BY NumericIsLex DEF Comparable
    <2> QED
      BY <2>1
  <1>4. LetterStep(d, q) = Decide(Order(v.letter, w.letter))
    BY <1>1, LetterIsPMS
  <1>5. SuffixStep(d, q) = Decide(Lex(SufKey(v), SufKey(w)))
    BY <1>1, SuffixIsLex
  <1>6. RevisionStep(d, q, "none", {}) = Decide(Order(v.rev, w.rev))
    BY <1>1 DEF RevisionStep, Revision
  <1>7. BuildStep(d, q) = Undecided
    <2>1. d.build \in Int
      BY DEF Atoms
    <2>2. Decide(Order(d.build, d.build)) = Undecided
      BY <2>1 DEF Decide, Order
    <2> QED
      BY <2>2 DEF BuildStep
  <1>8. DOMAIN p = 1 .. 5 /\ p[5] = 0 /\ DOMAIN s = 1 .. 6 /\ s[5] = Undecided /\ s[6] = 0
    BY <1>2, <1>7
  <1>9. /\ p[1] = Lex(NumKey(v), NumKey(w)) /\ p[2] = Order(v.letter, w.letter)
        /\ p[3] = Lex(SufKey(v), SufKey(w)) /\ p[4] = Order(v.rev, w.rev)
    OBVIOUS
  <1>10. s[1] = Decide(p[1]) /\ s[2] = Decide(p[2]) /\ s[3] = Decide(p[3]) /\ s[4] = Decide(p[4])
    BY <1>2, <1>3, <1>4, <1>5, <1>6
  <1> HIDE DEF p
  <1>11. p[1] \in Sign /\ p[2] \in Sign /\ p[3] \in Sign /\ p[4] \in Sign
    BY <1>1, <1>9, PartTypes
  <1> HIDE DEF s
  <1>12. \A i \in 1 .. 4 : p[i] \in Sign /\ s[i] = Decide(p[i])
    <2>1. \A i \in 1 .. 4 : i = 1 \/ i = 2 \/ i = 3 \/ i = 4
      OBVIOUS
    <2> QED
      BY <1>10, <1>11, <2>1, Zenon
  <1>13. s[Least({i \in DOMAIN s : s[i] # Undecided})] = p[Least({i \in DOMAIN p : p[i] # 0 \/ i = 5})]
    BY <1>8, <1>12, FirstPart
  <1>14. VersionOrder(d, q, "none", {}) = s[Least({i \in DOMAIN s : s[i] # Undecided})]
    BY Zenon DEF VersionOrder, s
  <1>15. p[Least({i \in DOMAIN p : p[i] # 0 \/ i = 5})] = Then(p[1], Then(p[2], Then(p[3], p[4])))
    BY <1>8, FirstThen
  <1> QED
    BY <1>9, <1>13, <1>14, <1>15, Zenon DEF Parts

-----------------------------------------------------------------------------
(* The order atoms are sorted by.                                          *)

\* Atoms as arrays hold them, of one slot, repository and build.
Plain(a) ==
  /\ a \in Atoms /\ a \in Data \cup Query
  /\ Bare(a) /\ a.ver # None /\ NoLeadingZero(a.ver) /\ a.cat # None /\ Read(a.ver) /\ a.pn # None
Alike(a, b) ==
  /\ a.slot = b.slot /\ a.sub = b.sub /\ a.repo = b.repo /\ a.build = b.build
  /\ ~ DigitLost(a.ver, b.ver) /\ ~ DigitLost(b.ver, a.ver)

\* By category, by name, and then the newest first.
SortParts(a, b) ==
  Then(Order(NameRank[a.cat], NameRank[b.cat]),
       Then(Order(NameRank[a.pn], NameRank[b.pn]), Parts(b.ver, a.ver)))

LEMMA RankFacts ==
  ASSUME NEW a, NEW b, Plain(a), Plain(b)
  PROVE  /\ NameRank[a.cat] \in Int /\ NameRank[b.cat] \in Int
         /\ NameRank[a.pn] \in Int /\ NameRank[b.pn] \in Int
         /\ NameRank[a.cat] = NameRank[b.cat] <=> a.cat = b.cat
         /\ NameRank[a.pn] = NameRank[b.pn] <=> a.pn = b.pn
  <1>1. a.cat \in Categories /\ b.cat \in Categories /\ a.pn \in PackageNames /\ b.pn \in PackageNames
    BY DEF Plain, Categories, PackageNames
  <1>2. /\ \A m, n \in Categories : NameRank[m] \in Int /\ (NameRank[m] = NameRank[n] => m = n)
        /\ \A m, n \in PackageNames : NameRank[m] \in Int /\ (NameRank[m] = NameRank[n] => m = n)
    BY NameRankAssumption, Zenon
  <1> QED
    BY <1>1, <1>2, Zenon

LEMMA SortIs ==
  ASSUME NEW a, NEW b, Plain(a), Plain(b), Alike(a, b)
  PROVE  SortOrder(a, b) = SortParts(a, b)
  <1> DEFINE c == AtomCompare(a, b, {})
             cats == Order(NameRank[a.cat], NameRank[b.cat])
             names == Order(NameRank[a.pn], NameRank[b.pn])
             byName(m, n) == IF m = n THEN 0 ELSE IF m = None THEN -1 ELSE IF n = None THEN 1
                             ELSE Order(NameRank[m], NameRank[n])
  <1>1. /\ cats \in Sign /\ (cats = 0 <=> a.cat = b.cat)
        /\ names \in Sign /\ (names = 0 <=> a.pn = b.pn)
    BY RankFacts, OrderFacts
  <1>2. SortOrder(a, b) =
          CASE c = "EQUAL" -> 0 [] c = "NEWER" -> -1 [] c = "OLDER" -> 1
            [] OTHER -> IF a.cat # b.cat THEN byName(a.cat, b.cat) ELSE byName(a.pn, b.pn)
    BY Zenon DEF SortOrder
  <1>3. a.cat # None /\ b.cat # None /\ a.pn # None /\ b.pn # None /\ Bare(b)
    BY DEF Plain
  <1>4. a.cat # b.cat => byName(a.cat, b.cat) = cats
    BY <1>3, Zenon
  <1>5. a.pn # b.pn => byName(a.pn, b.pn) = names
    BY <1>3, Zenon
  <1> HIDE DEF cats, names, byName
  <1>6. CASE a.cat # b.cat
    <2>1. Rejects(a, b, {})
      BY <1>3, <1>6 DEF Rejects, Bare
    <2>2. c = "NOT_EQUAL"
      BY <2>1, Zenon DEF AtomCompare
    <2>3. SortOrder(a, b) = cats
      BY <1>2, <1>4, <1>6, <2>2
    <2>4. SortParts(a, b) = cats
      BY <1>1, <1>6 DEF SortParts, Then, cats
    <2> QED
      BY <2>3, <2>4
  <1>7. CASE a.cat = b.cat /\ a.pn # b.pn
    <2>1. Rejects(a, b, {})
      BY <1>3, <1>7 DEF Rejects, Bare
    <2>2. c = "NOT_EQUAL"
      BY <2>1, Zenon DEF AtomCompare
    <2>3. SortOrder(a, b) = names
      BY <1>2, <1>5, <1>7, <2>2
    <2>4. SortParts(a, b) = names
      BY <1>1, <1>7 DEF SortParts, Then, cats, names
    <2> QED
      BY <2>3, <2>4
  <1>8. CASE a.cat = b.cat /\ a.pn = b.pn
    <2> DEFINE m == Parts(a.ver, b.ver)
               n == Parts(b.ver, a.ver)
    <2>1. c = Match(VersionOrder(a, b, "none", {}), "none")
      <3>1. /\ a \in Atoms /\ b \in Atoms /\ Bare(a) /\ Bare(b) /\ SameName(a, b)
            /\ a.ver # None /\ b.ver # None
        BY <1>8 DEF Plain, Alike, SameName
      <3> QED
        BY <3>1, PlainCompare
    <2>2. VersionOrder(a, b, "none", {}) = m /\ VersionOrder(b, a, "none", {}) = n
      <3>1. Comparable(a.ver, b.ver) /\ Comparable(b.ver, a.ver)
        BY DEF Plain, Alike, Comparable
      <3>2. a \in Atoms /\ b \in Atoms /\ ~ a.star /\ ~ b.star /\ a.build = b.build
        BY DEF Plain, Alike, Bare
      <3> QED
        BY <3>1, <3>2, VersionIsParts
    <2>3. m \in Sign /\ n = -m
      <3>1. /\ a \in Atoms /\ b \in Atoms /\ ~ a.star /\ ~ b.star /\ a.ver # None /\ b.ver # None
            /\ Numbered(a.ver) /\ Numbered(b.ver)
        BY DEF Plain, Bare, Read
      <3> QED
        BY <2>2, <3>1, VersionFlips
    <2> HIDE DEF m, n
    <2>4. SortOrder(a, b) = n
      <3>1. c = Match(m, "none")
        BY <2>1, <2>2
      <3> HIDE DEF c
      <3>2. \A i \in Sign : /\ i = 0 => Match(i, "none") = "EQUAL" /\ -i = 0
                            /\ i = 1 => Match(i, "none") = "NEWER"
                            /\ i = -1 => Match(i, "none") = "OLDER"
        BY DEF Match, Sign
      <3>3. \A i \in Sign : i = 1 => -i = -1
        BY DEF Sign
      <3>4. m = 0 \/ m = 1 \/ m = -1
        BY <2>3 DEF Sign
      <3>5. CASE m = 0
        BY <1>2, <2>3, <3>1, <3>2, <3>5
      <3>6. CASE m = 1
        <4>1. n = -1 /\ c = "NEWER"
          BY <2>3, <3>1, <3>2, <3>3, <3>6, Zenon
        <4> QED
          BY <1>2, <4>1
      <3>7. CASE m = -1
        <4>1. n = 1 /\ c = "OLDER"
          BY <2>3, <3>1, <3>2, <3>7, MinusMinus, Zenon
        <4> QED
          BY <1>2, <4>1
      <3> QED
        BY <3>4, <3>5, <3>6, <3>7
    <2>5. SortParts(a, b) = n
      BY <1>1, <1>8 DEF SortParts, Then, cats, names, n
    <2> QED
      BY <2>4, <2>5
  <1> QED
    BY <1>6, <1>7, <1>8

LEMMA SortFlips ==
  ASSUME NEW a, NEW b, Plain(a), Plain(b), Alike(a, b)
  PROVE  SortOrder(b, a) = -SortOrder(a, b)
  <1> DEFINE m == Parts(a.ver, b.ver)
             n == Parts(b.ver, a.ver)
  <1>1. SortOrder(a, b) = SortParts(a, b) /\ SortOrder(b, a) = SortParts(b, a)
    <2>1. Alike(b, a)
      BY DEF Alike
    <2> QED
      BY <2>1, SortIs
  <1>2. m \in Sign /\ n = -m
    <2>1. VersionOrder(a, b, "none", {}) = m /\ VersionOrder(b, a, "none", {}) = n
      <3>1. Comparable(a.ver, b.ver) /\ Comparable(b.ver, a.ver)
        BY DEF Plain, Alike, Comparable
      <3>2. a \in Atoms /\ b \in Atoms /\ ~ a.star /\ ~ b.star /\ a.build = b.build
        BY DEF Plain, Alike, Bare
      <3> QED
        BY <3>1, <3>2, VersionIsParts
    <2>2. /\ a \in Atoms /\ b \in Atoms /\ ~ a.star /\ ~ b.star /\ a.ver # None /\ b.ver # None
          /\ Numbered(a.ver) /\ Numbered(b.ver)
      BY DEF Plain, Bare, Read
    <2> QED
      BY <2>1, <2>2, VersionFlips
  <1>3. \A i \in Sign : -i \in Sign /\ (-i = 0 <=> i = 0) /\ -(-i) = i
    <2>1. \A i \in Int : -i + i = 0 /\ -i \in Int /\ -(-i) = i
      OBVIOUS
    <2>2. \A i, j \in Int : j + i = 0 /\ i \in Sign => j \in Sign /\ (j = 0 <=> i = 0)
      BY DEF Sign
    <2>3. \A i \in Sign : i \in Int
      BY DEF Sign
    <2> QED
      BY <2>1, <2>2, <2>3, Zenon
  <1> DEFINE c == Order(NameRank[a.cat], NameRank[b.cat])
             e == Order(NameRank[a.pn], NameRank[b.pn])
  <1>4. /\ c \in Sign /\ Order(NameRank[b.cat], NameRank[a.cat]) = -c
        /\ e \in Sign /\ Order(NameRank[b.pn], NameRank[a.pn]) = -e
    BY RankFacts, OrderFacts
  <1>5. SortParts(a, b) = Then(c, Then(e, n)) /\ SortParts(b, a) = Then(-c, Then(-e, m))
    BY <1>4, Zenon DEF SortParts
  <1>6. m = -n
    BY <1>2, <1>3, Zenon
  <1> HIDE DEF c, e, m, n
  <1>7. Then(-c, Then(-e, m)) = -Then(c, Then(e, n))
    BY <1>3, <1>4, <1>6, Zenon DEF Then
  <1> QED
    BY <1>1, <1>5, <1>7, Zenon

LEMMA SortChain ==
  ASSUME NEW a, NEW b, NEW c, Plain(a), Plain(b), Plain(c), Alike(a, b), Alike(b, c), Alike(a, c),
         SortOrder(a, b) <= 0, SortOrder(b, c) <= 0
  PROVE  SortOrder(a, c) <= 0
  <1>1. /\ SortOrder(a, b) = SortParts(a, b) /\ SortOrder(b, c) = SortParts(b, c)
        /\ SortOrder(a, c) = SortParts(a, c)
    BY SortIs
  <1> DEFINE cats(x, y) == Order(NameRank[x.cat], NameRank[y.cat])
             names(x, y) == Order(NameRank[x.pn], NameRank[y.pn])
             vers(x, y) == Parts(y.ver, x.ver)
  <1>2. /\ Chain(cats(a, b), cats(b, c), cats(a, c))
        /\ cats(a, b) \in Sign /\ cats(b, c) \in Sign /\ cats(a, c) \in Sign
    BY RankFacts, OrderChain, OrderFacts
  <1>3. /\ Chain(names(a, b), names(b, c), names(a, c))
        /\ names(a, b) \in Sign /\ names(b, c) \in Sign /\ names(a, c) \in Sign
    BY RankFacts, OrderChain, OrderFacts
  <1>4. /\ Chain(vers(a, b), vers(b, c), vers(a, c))
        /\ vers(a, b) \in Sign /\ vers(b, c) \in Sign /\ vers(a, c) \in Sign
    <2>1. Numbered(a.ver) /\ Numbered(b.ver) /\ Numbered(c.ver)
      BY DEF Plain, Read
    <2>2. /\ Chain(Parts(c.ver, b.ver), Parts(b.ver, a.ver), Parts(c.ver, a.ver))
          /\ Parts(c.ver, b.ver) \in Sign /\ Parts(b.ver, a.ver) \in Sign /\ Parts(c.ver, a.ver) \in Sign
      BY <2>1, PartsChain
    <2>3. \A x, y, z : Chain(x, y, z) => Chain(y, x, z)
      BY DEF Chain
    <2> QED
      BY <2>2, <2>3
  <1> HIDE DEF cats, names, vers
  <1> DEFINE rest(x, y) == Then(names(x, y), vers(x, y))
  <1>5. /\ Chain(rest(a, b), rest(b, c), rest(a, c))
        /\ rest(a, b) \in Sign /\ rest(b, c) \in Sign /\ rest(a, c) \in Sign
    BY <1>3, <1>4, ThenChain
  <1> HIDE DEF rest
  <1> DEFINE all(x, y) == Then(cats(x, y), rest(x, y))
  <1>6. /\ Chain(all(a, b), all(b, c), all(a, c))
        /\ all(a, b) \in Sign /\ all(b, c) \in Sign /\ all(a, c) \in Sign
    BY <1>2, <1>5, ThenChain
  <1>7. SortParts(a, b) = all(a, b) /\ SortParts(b, c) = all(b, c) /\ SortParts(a, c) = all(a, c)
    BY Zenon DEF SortParts, cats, names, vers, rest
  <1> HIDE DEF all
  <1>8. \A x, y, z \in Sign : Chain(x, y, z) /\ x <= 0 /\ y <= 0 => z <= 0
    BY DEF Chain, Sign
  <1> QED
    BY <1>1, <1>6, <1>7, <1>8

-----------------------------------------------------------------------------
(* The theorems.                                                           *)

LEMMA StateFacts ==
  ASSUME TypeOK
  PROVE  /\ data \in Atoms /\ query \in Atoms
         /\ data.ver # None => Numbered(data.ver) /\ data.pn # None
         /\ query.ver # None => Numbered(query.ver) /\ query.pn # None
  <1> DEFINE c == <<data, query, flags>>
  <1>1. c \in Call
    BY DEF TypeOK
  <1>2. c[1] = data /\ c[2] = query
    OBVIOUS
  <1> HIDE DEF c
  <1> QED
    BY <1>1, <1>2, CallFacts

LEMMA Invariance == Spec => []IInv
  <1>1. Init => IInv
    <2>1. \A c \in Call : c = <<c[1], c[2], c[3]>>
      BY AtomAssumption
    <2> QED
      BY <2>1 DEF Init, IInv, TypeOK, Compared
  <1>2. IInv /\ [Next]_vars => IInv'
    <2> SUFFICES ASSUME IInv, [Next]_vars
                 PROVE  IInv'
      OBVIOUS
    <2>1. CASE Compare
      <3>1. result' \in Equality
        BY <2>1, StateFacts, CompareType DEF Compare, IInv
      <3>2. UNCHANGED <<data, query, flags>> /\ result' = AtomCompare(data, query, flags)
        BY <2>1 DEF Compare
      <3>3. TypeOK'
        BY <3>1, <3>2 DEF IInv, TypeOK
      <3>4. result' = AtomCompare(data', query', flags')
        BY <3>2
      <3> QED
        BY <3>3, <3>4 DEF IInv
    <2>2. CASE UNCHANGED vars
      BY <2>2 DEF vars, IInv, TypeOK, Compared
    <2> QED
      BY <2>1, <2>2 DEF Next
  <1> QED
    BY <1>1, <1>2, PTL DEF Spec

\* atom_compare_flg() answers one of the four equalities for every call.
THEOREM TypeCorrect == Spec => []TypeOK
  <1>1. IInv => TypeOK
    BY DEF IInv
  <1> QED
    BY <1>1, Invariance, PTL

\* Whatever the versions are, comparing either way round agrees: what an applet
\* decides does not depend on which of two atoms it passes first.
THEOREM DirectionsAgree == Spec => []Antisymmetric
  <1>1. IInv => Antisymmetric
    <2> SUFFICES ASSUME IInv, Compared, Bare(data), Bare(query), SameName(data, query)
                 PROVE  AtomCompare(query, data, flags) = Flip(result)
      BY DEF Antisymmetric
    <2>1. result = AtomCompare(data, query, flags) /\ TypeOK
      BY DEF IInv
    <2> QED
      BY <2>1, StateFacts, CompareFlips
  <1> QED
    BY <1>1, Invariance, PTL

\* A blocker with an order operator takes the versions of the package which the
\* atom without the blocker does not take, and only those.
THEOREM BlockersComplement == Spec => []BlockersInvert
  <1>1. IInv => BlockersInvert
    <2> DEFINE plain == [query EXCEPT !.blocker = "none"]
               op == Operator(query)
    <2> SUFFICES ASSUME IInv, Compared, query.blocker = "block",
                        query.pfx \in {">", ">=", "<", "<="},
                        SameName(data, query), data.ver # None, query.ver # None
                 PROVE  (result = "EQUAL") # (AtomCompare(data, plain, flags) = "EQUAL")
      BY DEF BlockersInvert
    <2>1. /\ result = AtomCompare(data, query, flags)
          /\ data \in Atoms /\ query \in Atoms
          /\ Numbered(data.ver) /\ Numbered(query.ver) /\ query.pn # None
      BY StateFacts DEF IInv
    <2>2. /\ plain \in Atoms /\ plain.blocker = "none" /\ plain.pfx = query.pfx
          /\ plain.ver = query.ver /\ plain.star = query.star /\ plain.build = query.build
          /\ plain.pn = query.pn /\ SameName(data, plain)
      BY <2>1 DEF Atoms, Blockers, SameName
    <2>3. ~ Rejects(data, query, flags) /\ ~ BlocksAll(data, query)
      BY <2>1 DEF Rejects, BlocksAll, SameName
    <2> HIDE DEF plain
    <2>4. ~ Rejects(data, plain, flags) /\ ~ BlocksAll(data, plain)
      BY <2>2 DEF Rejects, SlotRejects, BlocksAll, SameName
    <2>5. Operator(plain) = query.pfx
      BY <2>2 DEF Operator
    <2>6. result = Match(VersionOrder(data, query, op, flags), op)
      BY <2>1, <2>3, Zenon DEF AtomCompare
    <2>7. AtomCompare(data, plain, flags)
            = Match(VersionOrder(data, plain, query.pfx, flags), query.pfx)
      BY <2>2, <2>4, <2>5, Zenon DEF AtomCompare
    <2>8. op # "~" /\ query.pfx # "~"
      BY DEF Operator
    <2>9. /\ VersionOrder(data, plain, query.pfx, flags) = VersionOrder(data, query, op, flags)
          /\ VersionOrder(data, query, op, flags) \in Sign
      BY <2>1, <2>2, <2>8, StepsSame, VersionType
    <2>10. \A m \in Sign : (Match(m, op) = "EQUAL") # (Match(m, query.pfx) = "EQUAL")
      BY DEF Match, Operator, Sign
    <2> QED
      BY <2>6, <2>7, <2>9, <2>10
  <1> QED
    BY <1>1, Invariance, PTL

\* For all regular versions of any length, the answer is the order of PMS: the walk over
\* the characters in atom_compare_flg() decides at the part that decides there.
THEOREM OrderOfPMS == Spec => []VersionsOrdered
  <1>1. IInv => VersionsOrdered
    <2> SUFFICES ASSUME IInv, Compared, Bare(query), flags = {}, SamePackage(data, query),
                        Regular(data.ver), Regular(query.ver),
                        ~ DigitLost(data.ver, query.ver), ~ DigitLost(query.ver, data.ver)
                 PROVE  result = Match(PMSOrder(data.ver, query.ver), "none")
      BY DEF VersionsOrdered
    <2> DEFINE d == [data EXCEPT !.star = FALSE]
    <2>1. /\ result = AtomCompare(data, query, flags) /\ TypeOK
          /\ data \in Atoms /\ query \in Atoms /\ data.ver # None /\ query.ver # None
      BY StateFacts DEF IInv, SamePackage
    <2>2. Read(data.ver) /\ Read(query.ver)
      BY <2>1, StateRead
    <2>3. ~ Rejects(data, query, flags) /\ ~ BlocksAll(data, query) /\ Operator(query) = "none"
      BY DEF Rejects, SlotRejects, BlocksAll, Operator, Bare, SamePackage, SameName
    <2>4. result = Match(VersionOrder(data, query, "none", {}), "none")
      BY <2>1, <2>3, Zenon DEF AtomCompare
    <2>5. /\ d \in Atoms /\ ~ d.star /\ d.ver = data.ver /\ d.build = data.build
      BY <2>1 DEF Atoms
    <2> HIDE DEF d
    <2>6. VersionOrder(data, query, "none", {}) = VersionOrder(d, query, "none", {})
      <3>1. /\ NumericStep(data, query) = NumericStep(d, query)
            /\ LetterStep(data, query) = LetterStep(d, query)
            /\ SuffixStep(data, query) = SuffixStep(d, query)
            /\ RevisionStep(data, query, "none", {}) = RevisionStep(d, query, "none", {})
            /\ BuildStep(data, query) = BuildStep(d, query)
        BY <2>5, Zenon DEF NumericStep, LetterStep, SuffixStep, RevisionStep, Revision, BuildStep
      <3>2. Steps(data, query, "none", {}) = Steps(d, query, "none", {})
        BY <2>5, <3>1, Zenon DEF Steps
      <3> QED
        BY <3>2, Zenon DEF VersionOrder
    <2>7. VersionOrder(d, query, "none", {}) = PMSOrder(d.ver, query.ver)
      BY <2>1, <2>2, <2>5, VersionIsPMS DEF Bare, SamePackage
    <2> QED
      BY <2>4, <2>5, <2>6, <2>7, Zenon
  <1> QED
    BY <1>1, Invariance, PTL

\* For all versions without leading zeros and with any suffixes, the order arrays of atoms
\* are sorted by is a strict weak one on packages that agree on their slots and lose no
\* digit to each other, as qsort() requires of the callback.
THEOREM SortsSoundly == Spec => []SortSound
  <1>1. IInv => SortSound
    <2> DEFINE plain(a) == Bare(a) /\ a.ver # None /\ NoLeadingZero(a.ver) /\ a.cat # None
    <2> SUFFICES ASSUME IInv, Compared, plain(data), plain(query), Alike(data, query)
                 PROVE  /\ SortOrder(query, data) = -SortOrder(data, query)
                        /\ \A c \in Data :
                             /\ plain(c) /\ Alike(query, c) /\ Alike(data, c)
                             /\ SortOrder(data, query) <= 0 /\ SortOrder(query, c) <= 0
                             => SortOrder(data, c) <= 0
      BY Zenon DEF SortSound, Alike
    <2>1. data \in Data /\ query \in Query
      <3> DEFINE c == <<data, query, flags>>
      <3>1. c \in Call /\ c[1] = data /\ c[2] = query
        BY DEF IInv, TypeOK
      <3> QED
        BY <3>1, Zenon DEF Data, Query
    <2>2. \A a \in Data \cup Query : plain(a) => Plain(a)
      <3> SUFFICES ASSUME NEW a \in Data \cup Query, plain(a)
                   PROVE  Plain(a)
        BY Zenon
      <3>1. a \in Atoms /\ a.pn # None /\ Numbered(a.ver)
        <4>1. PICK c \in Call : a = c[1] \/ a = c[2]
          BY DEF Data, Query
        <4> QED
          BY <4>1, CallFacts
      <3>2. Read(a.ver)
        BY <3>1, StrtollAssumption DEF Read
      <3> QED
        BY <3>1, <3>2 DEF Plain
    <2>3. Plain(data) /\ Plain(query)
      BY <2>1, <2>2
    <2>4. \A c \in Data : plain(c) => Plain(c)
      BY <2>2
    <2> HIDE DEF plain
    <2> QED
      BY <2>3, <2>4, SortFlips, SortChain
  <1> QED
    BY <1>1, Invariance, PTL
=============================================================================
