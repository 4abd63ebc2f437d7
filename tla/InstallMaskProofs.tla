------------------------- MODULE InstallMaskProofs -------------------------
(***************************************************************************)
(* What TLAPS proves about INSTALL_MASK, for any image, masks and matching *)
(* of names: a file goes only for an excluding mask that has its name or   *)
(* the one of a directory above it, and of the masks of which the order    *)
(* and the paths are clear, the last that is for a file decides.           *)
(***************************************************************************)
EXTENDS InstallMask, SequenceTheorems, WellFoundedInduction, TLAPS

-----------------------------------------------------------------------------
(* Paths and masks.                                                        *)

Paths == Seq(Names)

LEMMA EntryFacts ==
  ASSUME NEW e \in Entry
  PROVE  /\ e \in Paths /\ Len(e) \in Nat \ {0} /\ DOMAIN e = 1 .. Len(e)
         /\ \A k \in 1 .. Len(e) : e[k] \in Names
<1>1. e \in Seq(Names) /\ Len(e) > 0
  BY ImageAssumption
<1>2. Len(e) \in Nat /\ DOMAIN e = 1 .. Len(e)
  BY <1>1, LenProperties
<1> QED
  BY <1>1, <1>2, ElementOfSeq DEF Paths

\* The first names of a path.
LEMMA StartOf ==
  ASSUME NEW e \in Paths, NEW k \in 0 .. Len(e)
  PROVE  /\ SubSeq(e, 1, k) \in Paths /\ Len(SubSeq(e, 1, k)) = k
         /\ \A i \in 1 .. k : SubSeq(e, 1, k)[i] = e[i]
<1>1. Len(e) \in Nat /\ \A i \in 1 .. Len(e) : e[i] \in Names
  BY LenProperties, ElementOfSeq DEF Paths
<1>2. k \in Nat /\ 1 \in Nat /\ \A i \in 1 .. k : e[i] \in Names
  BY <1>1
<1>3. /\ SubSeq(e, 1, k) \in Seq(Names)
      /\ Len(SubSeq(e, 1, k)) = (IF 1 <= k THEN k - 1 + 1 ELSE 0)
      /\ \A i \in 1 .. k - 1 + 1 : SubSeq(e, 1, k)[i] = e[1 + i - 1]
  BY <1>2, SubSeqProperties
<1> QED
  BY <1>2, <1>3 DEF Paths

LEMMA PrefixFacts ==
  ASSUME NEW d \in Paths, NEW e \in Paths
  PROVE  IsPrefix(d, e) <=> Len(d) <= Len(e) /\ \A k \in 1 .. Len(d) : d[k] = e[k]
<1>1. Len(d) \in Nat /\ Len(e) \in Nat
  BY LenProperties DEF Paths
<1>2. CASE Len(d) <= Len(e)
  <2>1. Len(d) \in 0 .. Len(e)
    BY <1>1, <1>2
  <2>2. /\ SubSeq(e, 1, Len(d)) \in Paths /\ Len(SubSeq(e, 1, Len(d))) = Len(d)
        /\ \A i \in 1 .. Len(d) : SubSeq(e, 1, Len(d))[i] = e[i]
    BY <2>1, StartOf
  <2>3. SubSeq(e, 1, Len(d)) = d <=> \A i \in 1 .. Len(d) : d[i] = e[i]
    BY <2>2, SeqEqual DEF Paths
  <2> QED
    BY <1>2, <2>3 DEF IsPrefix
<1>3. CASE ~(Len(d) <= Len(e))
  BY <1>3 DEF IsPrefix
<1> QED
  BY <1>2, <1>3

\* The entries of a directory have its names and one more.
LEMMA ChildFacts ==
  ASSUME NEW d \in Paths, NEW e \in Entries(d)
  PROVE  /\ e \in Entry /\ Len(e) = Len(d) + 1 /\ Len(d) \in Nat
         /\ \A k \in 1 .. Len(d) : d[k] = e[k]
<1>1. e \in Entry /\ d = SubSeq(e, 1, Len(e) - 1)
  BY DEF Entries, Parent
<1>2. e \in Paths /\ Len(e) - 1 \in 0 .. Len(e) /\ Len(e) \in Nat \ {0}
  BY <1>1, EntryFacts
<1>3. Len(d) = Len(e) - 1 /\ \A k \in 1 .. Len(e) - 1 : d[k] = e[k]
  BY <1>1, <1>2, StartOf
<1> QED
  BY <1>1, <1>2, <1>3

RulesOK == \E n \in Nat : rules \in [1 .. n -> Rule]

LEMMA RuleFacts ==
  ASSUME RulesOK, NEW i \in DOMAIN rules
  PROVE  /\ rules[i].inc \in BOOLEAN /\ rules[i].abs \in BOOLEAN /\ rules[i].slash \in BOOLEAN
         /\ Len(rules[i].parts) \in Nat \ {0}
         /\ DOMAIN rules[i].parts = 1 .. Len(rules[i].parts)
         /\ i \in Nat
<1>1. rules[i] \in Rule /\ i \in Nat
  BY DEF RulesOK
<1>2. rules[i].parts \in Seq(Patterns) /\ Len(rules[i].parts) > 0
      /\ {rules[i].inc, rules[i].abs, rules[i].slash} \subseteq BOOLEAN
  BY <1>1, RuleAssumption
<1> QED
  BY <1>1, <1>2, LenProperties

\* A set of masks has a last one.
LEMMA LastFacts ==
  ASSUME RulesOK, NEW s \in SUBSET DOMAIN rules, s # {}
  PROVE  Last(s) \in s /\ \A j \in s : j <= Last(s)
<1>1. PICK n \in Nat : DOMAIN rules = 1 .. n
  BY DEF RulesOK
<1> DEFINE t == {n - i : i \in s}
<1>2. s \subseteq 1 .. n /\ t \subseteq Nat /\ t # {}
  BY <1>1
<1> HIDE DEF t
<1>3. PICK m \in t : \A j \in t : ~(<<j, m>> \in OpToRel(<, Nat))
  BY <1>2, NatLessThanWellFounded, WFMin
<1>4. \A j \in t : m <= j
  <2>1. \A i, j \in Nat : ~(<<j, i>> \in OpToRel(<, Nat)) => i <= j
    BY DEF OpToRel
  <2> QED
    BY <1>2, <1>3, <2>1
<1>5. PICK i \in s : m = n - i
  BY DEF t
<1>6. \A j \in s : n - i <= n - j
  BY <1>4, <1>5 DEF t
<1>7. \A j \in s : j <= i
  BY <1>2, <1>6
<1> QED
  BY <1>7 DEF Last

\* The last component of a mask is the last of its array, the slash or not.
LEMMA PartsFacts ==
  ASSUME RulesOK, NEW i \in DOMAIN rules
  PROVE  LET r == rules[i] IN
         /\ Len(Parts(r)) \in Nat \ {0}
         /\ Parts(r)[Len(Parts(r))] = r.parts[Len(r.parts)]
         /\ Len(Parts(r)) = 1 => ~r.slash
<1> DEFINE r == rules[i]
           p == r.parts
<1>1. p \in Seq(Patterns) /\ Len(p) \in Nat \ {0} /\ Len(p) \in 1 .. Len(p)
  BY RuleFacts, RuleAssumption DEF RulesOK
<1>2. p[Len(p)] \in Patterns
  BY <1>1, ElementOfSeq
<1> HIDE DEF p
<1>3. /\ Len(Append(p, p[Len(p)])) = Len(p) + 1
      /\ Append(p, p[Len(p)])[Len(p) + 1] = p[Len(p)]
  BY <1>1, <1>2, AppendProperties
<1> QED
  BY <1>1, <1>3 DEF Parts, p

-----------------------------------------------------------------------------
(* A file goes only for an excluding mask.                                 *)

\* An excluding mask has the last of its components for a name of the path.
Named(p) ==
  \E i \in DOMAIN rules, k \in DOMAIN p :
    /\ ~rules[i].inc
    /\ <<rules[i].parts[Len(rules[i].parts)], p[k]>> \in Matches

NamedInv ==
  /\ RulesOK
  /\ \A t \in todo : /\ t.dir \in Entry \cup {<<>>}
                     /\ t.mode = "EXCLUDE" => Named(t.dir)
  /\ present \subseteq Entry
  /\ \A e \in Entry \ present : Kind[e] # "file" \/ Named(e)

\* A name on the way to a path is one of the path.
LEMMA NamedBelow ==
  ASSUME NEW d \in Paths, NEW e \in Paths, Named(d), IsPrefix(d, e)
  PROVE  Named(e)
<1>1. Len(d) <= Len(e) /\ \A k \in 1 .. Len(d) : d[k] = e[k]
  BY PrefixFacts
<1>2. DOMAIN d = 1 .. Len(d) /\ DOMAIN e = 1 .. Len(e) /\ Len(d) \in Nat /\ Len(e) \in Nat
  BY LenProperties DEF Paths
<1>3. DOMAIN d \subseteq DOMAIN e /\ \A k \in DOMAIN d : d[k] = e[k]
  BY <1>1, <1>2
<1> QED
  BY <1>3 DEF Named

\* A full match of an entry is one of its name with the last component.
LEMMA FullFacts ==
  ASSUME RulesOK, NEW i \in DOMAIN rules, NEW e \in Entry, Full(rules[i], e)
  PROVE  <<rules[i].parts[Len(rules[i].parts)], e[Len(e)]>> \in Matches
<1>1. Len(e) \in Nat \ {0}
  BY EntryFacts
<1>2. /\ Len(Parts(rules[i])) \in Nat \ {0}
      /\ Parts(rules[i])[Len(Parts(rules[i]))] = rules[i].parts[Len(rules[i].parts)]
  BY PartsFacts
<1>3. rules[i].abs \in BOOLEAN
  BY RuleFacts
<1>4. CASE rules[i].abs
  <2>1. Count(rules[i]) = Len(Parts(rules[i]))
    BY <1>2, <1>4 DEF Count
  <2>2. Count(rules[i]) = Len(e) /\ Hit(rules[i], e)
    BY <1>1, <1>2, <2>1 DEF Full
  <2> QED
    BY <1>1, <1>2, <2>1, <2>2 DEF Hit, Name
<1>5. CASE ~rules[i].abs
  <2>1. Count(rules[i]) \in Int /\ Count(rules[i]) + Len(Parts(rules[i])) = 0
    BY <1>2, <1>5 DEF Count
  <2>2. Count(rules[i]) \in {-1, Len(e)} /\ Hit(rules[i], e)
    BY DEF Full
  <2>3. Count(rules[i]) < 0
    BY <1>2, <2>1
  <2>4. Count(rules[i]) = -1
    BY <1>1, <2>2, <2>3
  <2>5. Len(Parts(rules[i])) = 1
    BY <1>2, <2>1, <2>4
  <2> QED
    BY <1>1, <1>2, <2>2, <2>4, <2>5 DEF Hit, Name
<1> QED
  BY <1>3, <1>4, <1>5

\* What is excluded is so for its own name or for where it is.
LEMMA ExcludedNamed ==
  ASSUME RulesOK, NEW d \in Paths, NEW e \in Entries(d), NEW m,
         m = "EXCLUDE" => Named(d),
         Mode(e, m) = "EXCLUDE" \/ ChildMode(e, m) = "EXCLUDE"
  PROVE  Named(e)
<1>0. /\ e \in Entry /\ e \in Paths /\ IsPrefix(d, e)
      /\ Len(e) \in Nat \ {0} /\ DOMAIN e = 1 .. Len(e)
  BY ChildFacts, EntryFacts, PrefixFacts
<1>1. ASSUME NEW i \in DOMAIN rules, ModeOf(rules[i]) = "EXCLUDE",
             Full(rules[i], e) \/ PartialInclude(rules[i], e)
      PROVE  Named(e)
  <2>1. ~rules[i].inc /\ Full(rules[i], e)
    BY <1>1 DEF ModeOf, PartialInclude
  <2> QED
    BY SMTT(30), <1>0, <2>1, FullFacts DEF Named
<1>2. ASSUME NEW s \in SUBSET {i \in DOMAIN rules : Full(rules[i], e)
                                                    \/ PartialInclude(rules[i], e)},
             (IF s = {} THEN m ELSE ModeOf(rules[Last(s)])) = "EXCLUDE"
      PROVE  Named(e)
  <2>1. CASE s = {}
    BY <1>0, <1>2, <2>1, NamedBelow
  <2>2. CASE s # {}
    BY <1>1, <1>2, <2>2, LastFacts
  <2> QED
    BY <2>1, <2>2
<1>3. CASE Mode(e, m) = "EXCLUDE"
  BY <1>2, <1>3 DEF Mode
<1>4. CASE ChildMode(e, m) = "EXCLUDE"
  BY <1>2, <1>4 DEF ChildMode
<1> QED
  BY <1>3, <1>4

LEMMA NamedInit == Init => NamedInv
<1> SUFFICES ASSUME Init PROVE NamedInv
  OBVIOUS
<1>1. RulesOK
  BY RuleAssumption DEF Init, RulesOK
<1> QED
  BY <1>1 DEF Init, NamedInv

LEMMA NamedStep == NamedInv /\ [Next]_vars => NamedInv'
<1> SUFFICES ASSUME NamedInv, [Next]_vars PROVE NamedInv'
  OBVIOUS
<1>0. <<>> \in Paths
  BY EmptySeq DEF Paths
<1>1. rules' = rules
  BY DEF Next, CheckDir, Finish, vars
<1>2. RulesOK' /\ \A p : Named(p)' <=> Named(p)
  BY <1>1 DEF NamedInv, RulesOK, Named
<1>3. CASE CheckDir
  <2> DEFINE out(t) == {e \in Entries(t.dir) : Mode(e, t.mode) = "EXCLUDE"}
             sub(t) == {e \in Entries(t.dir) \ out(t) : Kind[e] = "dir"}
  <2>1. PICK t \in todo :
          /\ present' = present \ UNION {Removed(e) : e \in out(t)}
          /\ todo' = (todo \ {t})
                     \cup {[dir |-> e, mode |-> ChildMode(e, t.mode)] : e \in sub(t)}
    BY <1>3 DEF CheckDir
  <2>2. t.dir \in Paths /\ (t.mode = "EXCLUDE" => Named(t.dir))
    BY <1>0, EntryFacts DEF NamedInv
  <2>3. ASSUME NEW u \in todo' PROVE u.dir \in Entry \cup {<<>>}
                                     /\ (u.mode = "EXCLUDE" => Named(u.dir))
    <3>1. CASE u \in todo
      BY <3>1 DEF NamedInv
    <3>2. CASE u \notin todo
      <4>1. PICK e \in Entries(t.dir) : u = [dir |-> e, mode |-> ChildMode(e, t.mode)]
        BY <2>1, <3>2
      <4>2. e \in Entry /\ u.dir = e /\ u.mode = ChildMode(e, t.mode)
        BY <4>1 DEF Entries
      <4> QED
        BY <2>2, <4>2, ExcludedNamed DEF NamedInv
    <3> QED
      BY <3>1, <3>2
  <2>4. ASSUME NEW e \in Entry, e \in present, e \notin present' PROVE Named(e)
    <3>1. PICK f \in Entries(t.dir) : Mode(f, t.mode) = "EXCLUDE" /\ e \in Removed(f)
      BY <2>1, <2>4
    <3>2. Named(f) /\ f \in Entry
      BY <2>2, <3>1, ExcludedNamed DEF NamedInv, Entries
    <3>3. IsPrefix(f, e)
      BY <3>1 DEF Removed, Under
    <3> QED
      BY <3>2, <3>3, NamedBelow, EntryFacts
  <2> QED
    BY <1>2, <2>1, <2>3, <2>4 DEF NamedInv
<1>4. CASE Finish
  <2>1. todo' = todo /\ present' \subseteq present
        /\ \A e \in present \ present' : Kind[e] = "dir"
    BY <1>4 DEF Finish
  <2> QED
    BY <1>2, <2>1 DEF NamedInv
<1>5. CASE UNCHANGED vars
  BY <1>2, <1>5 DEF NamedInv, vars
<1> QED
  BY <1>3, <1>4, <1>5 DEF Next

\* For any image and any masks, those that disagree with what their order says and
\* those that end in a slash among them, install_mask_check_dir() and the rm_rf_at() of
\* what it excludes take a file only for an excluding mask of which the last component is
\* the name of the file or of a directory above it.
THEOREM OnlyMaskedGo == Spec => []OnlyMasked
<1>1. NamedInv => OnlyMasked
  BY DEF NamedInv, Named, OnlyMasked, Files
<1> QED
  BY <1>1, NamedInit, NamedStep, PTL DEF Spec

-----------------------------------------------------------------------------
(* The masks that are for a path, and what the last of them says.          *)

\* Masks of which the order and the paths are clear: what MaskedGo is about.
Clear ==
  RulesOK /\ Plain /\ PathIncludes /\ DeepLast /\ Unambiguous /\ NoneBelowFiles

Meant(p) == {i \in DOMAIN rules : Means(rules[i], p)}

Fulls(e) == {i \in DOMAIN rules : Full(rules[i], e)}

Tried(e) == {i \in DOMAIN rules : Full(rules[i], e) \/ PartialInclude(rules[i], e)}

Verdict(p) == IF Meant(p) = {} THEN "INCLUDE" ELSE ModeOf(rules[Last(Meant(p))])

LEMMA LastIs ==
  ASSUME RulesOK, NEW s \in SUBSET DOMAIN rules, NEW k \in s, \A j \in s : j <= k
  PROVE  Last(s) = k
<1>1. Last(s) \in s /\ k <= Last(s) /\ Last(s) <= k
  BY LastFacts
<1>2. Last(s) \in Nat /\ k \in Nat
  BY <1>1, RuleFacts
<1> QED
  BY <1>1, <1>2

LEMMA MaskedVerdict ==
  ASSUME NEW e
  PROVE  Masked(e) <=> Verdict(e) = "EXCLUDE"
BY DEF Masked, Verdict, Meant, ModeOf

LEMMA VerdictMode == ASSUME NEW p PROVE Verdict(p) \in {"INCLUDE", "EXCLUDE"}
BY DEF Verdict, ModeOf

\* An absolute mask is tried with its component of the level.
LEMMA PathHit ==
  ASSUME Clear, NEW i \in DOMAIN rules, rules[i].abs, NEW e \in Entry
  PROVE  LET n == Len(rules[i].parts) IN
         /\ Hit(rules[i], e) <=> /\ Len(e) <= n
                                 /\ \A k \in 1 .. Len(e) : <<rules[i].parts[k], e[k]>> \in Matches
         /\ Full(rules[i], e) <=> Hit(rules[i], e) /\ n = Len(e)
         /\ PartialInclude(rules[i], e)
            <=> Hit(rules[i], e) /\ n > Len(e) /\ rules[i].inc
<1> DEFINE n == Len(rules[i].parts)
<1>1. Len(e) \in Nat \ {0} /\ DOMAIN e = 1 .. Len(e)
  BY EntryFacts
<1>2. n \in Nat \ {0} /\ Parts(rules[i]) = rules[i].parts
  BY RuleFacts DEF Clear, Plain, Parts
<1>3. Count(rules[i]) = n
  BY <1>2 DEF Count
<1> HIDE DEF n
<1>4. n # -1 /\ n \in Int
  BY <1>2
<1>5. Hit(rules[i], e)
      <=> Len(e) <= n /\ <<rules[i].parts[Len(e)], e[Len(e)]>> \in Matches
  BY <1>1, <1>2, <1>3, <1>4 DEF Hit, Name
<1>6. Hit(rules[i], e) => \A k \in 1 .. Len(e) : <<rules[i].parts[k], e[k]>> \in Matches
  BY <1>1 DEF Clear, Unambiguous
<1>7. Len(e) \in 1 .. Len(e)
  BY <1>1
<1>8. Full(rules[i], e) <=> Hit(rules[i], e) /\ n = Len(e)
  BY <1>3, <1>4 DEF Full
<1>9. PartialInclude(rules[i], e) <=> Hit(rules[i], e) /\ n > Len(e) /\ rules[i].inc
  BY <1>3 DEF PartialInclude
<1> QED
  BY <1>5, <1>6, <1>7, <1>8, <1>9 DEF n

\* A relative mask excludes, and is tried on every name.
LEMMA NameHit ==
  ASSUME Clear, NEW i \in DOMAIN rules, ~rules[i].abs, NEW e \in Entry
  PROVE  /\ Full(rules[i], e) <=> <<rules[i].parts[1], e[Len(e)]>> \in Matches
         /\ ~PartialInclude(rules[i], e) /\ ~rules[i].inc
<1>1. Len(e) \in Nat \ {0}
  BY EntryFacts
<1>2. Len(rules[i].parts) = 1 /\ Parts(rules[i]) = rules[i].parts
  BY DEF Clear, Plain, Parts
<1>3. Count(rules[i]) = -1
  <2>1. Len(Parts(rules[i])) = 1
    BY <1>2
  <2> QED
    BY <2>1 DEF Count
<1>4. ~(-1 >= Len(e)) /\ ~(-1 > Len(e))
  BY <1>1
<1> QED
  BY <1>2, <1>3, <1>4 DEF Full, Hit, Name, PartialInclude, Clear, PathIncludes

\* A mask for a path is for what is below it.
LEMMA MeantBelow ==
  ASSUME RulesOK, NEW d \in Paths, NEW e \in Paths, IsPrefix(d, e)
  PROVE  Meant(d) \subseteq Meant(e)
<1>1. Len(d) <= Len(e) /\ \A k \in 1 .. Len(d) : d[k] = e[k]
  BY PrefixFacts
<1>2. DOMAIN d = 1 .. Len(d) /\ DOMAIN e = 1 .. Len(e) /\ Len(d) \in Nat /\ Len(e) \in Nat
  BY LenProperties DEF Paths
<1>3. ASSUME NEW i \in DOMAIN rules, Means(rules[i], d)
      PROVE  Means(rules[i], e)
  <2>1. DOMAIN rules[i].parts = 1 .. Len(rules[i].parts) /\ Len(rules[i].parts) \in Nat
    BY RuleFacts
  <2>2. DOMAIN d \subseteq DOMAIN e /\ \A k \in DOMAIN d : d[k] = e[k]
    BY <1>1, <1>2
  <2>3. CASE rules[i].abs
    <3>1. Len(rules[i].parts) <= Len(d) /\ Len(rules[i].parts) <= Len(e)
      BY <1>1, <1>2, <1>3, <2>1, <2>3 DEF Means
    <3>2. DOMAIN rules[i].parts \subseteq DOMAIN d
      BY <1>2, <2>1, <3>1
    <3> QED
      BY <1>3, <2>2, <2>3, <3>1, <3>2 DEF Means
  <2>4. CASE ~rules[i].abs
    BY <1>3, <2>2, <2>4 DEF Means
  <2> QED
    BY <2>3, <2>4
<1> QED
  BY <1>3 DEF Meant

\* The masks for an entry are those for its directory and its own full matches.
LEMMA MeantChild ==
  ASSUME Clear, NEW d \in Paths, NEW e \in Entries(d)
  PROVE  Meant(e) = Meant(d) \cup Fulls(e)
<1>1. /\ e \in Entry /\ Len(e) = Len(d) + 1 /\ Len(d) \in Nat
      /\ \A k \in 1 .. Len(d) : d[k] = e[k]
  BY ChildFacts
<1>2. DOMAIN d = 1 .. Len(d) /\ DOMAIN e = 1 .. Len(e) /\ e \in Paths
  BY <1>1, EntryFacts, LenProperties DEF Paths
<1>3. RulesOK /\ IsPrefix(d, e)
  BY <1>1, <1>2, PrefixFacts DEF Clear
<1>4. ASSUME NEW i \in DOMAIN rules
      PROVE  Means(rules[i], e) <=> Means(rules[i], d) \/ Full(rules[i], e)
  <2>1. /\ DOMAIN rules[i].parts = 1 .. Len(rules[i].parts)
        /\ Len(rules[i].parts) \in Nat \ {0} /\ rules[i].abs \in BOOLEAN
    BY <1>3, RuleFacts
  <2>2. Means(rules[i], d) => Means(rules[i], e)
    BY <1>2, <1>3, MeantBelow DEF Meant
  <2>3. CASE rules[i].abs
    <3>1. Full(rules[i], e)
          <=> /\ Len(rules[i].parts) = Len(e)
              /\ \A k \in 1 .. Len(e) : <<rules[i].parts[k], e[k]>> \in Matches
      BY <1>1, <2>3, PathHit
    <3>2. CASE Len(rules[i].parts) = Len(e)
      BY <1>1, <2>1, <2>2, <2>3, <3>1, <3>2 DEF Means
    <3>3. CASE Len(rules[i].parts) # Len(e)
      <4>1. Len(rules[i].parts) <= Len(e) <=> Len(rules[i].parts) <= Len(d)
        BY <1>1, <2>1, <3>3
      <4>2. Len(rules[i].parts) <= Len(d) => DOMAIN rules[i].parts \subseteq 1 .. Len(d)
        BY <1>1, <2>1
      <4> QED
        BY <1>1, <2>2, <2>3, <3>1, <3>3, <4>1, <4>2 DEF Means
    <3> QED
      BY <3>2, <3>3
  <2>4. CASE ~rules[i].abs
    <3>1. Full(rules[i], e) <=> <<rules[i].parts[1], e[Len(e)]>> \in Matches
      BY <1>1, <2>4, NameHit
    <3>2. 1 .. Len(e) = 1 .. Len(d) \cup {Len(e)}
      BY <1>1
    <3> QED
      BY <1>1, <1>2, <2>4, <3>1, <3>2 DEF Means
  <2> QED
    BY <2>1, <2>3, <2>4
<1> QED
  BY <1>4 DEF Meant, Fulls

\* A directory that is walked: what it was entered with is what the last mask for it says,
\* and no relative mask is for it.
Entered(d, m) ==
  /\ d \in Paths /\ m = Verdict(d)
  /\ \A i \in Meant(d) : rules[i].abs

\* The number of components of an absolute mask for a path is no larger than the path's.
LEMMA MeantLength ==
  ASSUME RulesOK, NEW d, NEW i \in Meant(d), rules[i].abs
  PROVE  i \in DOMAIN rules /\ Len(rules[i].parts) <= Len(d)
BY DEF Meant, Means

\* A full match is later than what is for the directory above, or the order is not clear.
LEMMA FullLater ==
  ASSUME Clear, NEW d, NEW m, Entered(d, m), NEW e \in Entries(d),
         NEW k \in Fulls(e), NEW j \in Meant(d)
  PROVE  j <= k
<1>1. /\ e \in Entry /\ Len(e) = Len(d) + 1 /\ Len(d) \in Nat
      /\ Meant(e) = Meant(d) \cup Fulls(e)
  BY ChildFacts, MeantChild DEF Entered
<1>2. /\ j \in DOMAIN rules /\ rules[j].abs /\ Len(rules[j].parts) <= Len(d)
      /\ k \in DOMAIN rules /\ Full(rules[k], e)
  BY MeantLength DEF Entered, Clear, Fulls
<1>3. j \in Nat /\ k \in Nat /\ Len(rules[j].parts) \in Nat /\ Len(rules[k].parts) \in Nat
  BY <1>2, RuleFacts DEF Clear
<1>4. Means(rules[j], e) /\ Means(rules[k], e)
  BY <1>1 DEF Meant
<1>5. ~(k < j)
  <2>1. SUFFICES ASSUME k < j PROVE FALSE
    OBVIOUS
  <2>2. rules[k].abs /\ Len(rules[k].parts) <= Len(rules[j].parts)
    BY <1>1, <1>2, <1>4, <2>1 DEF Clear, DeepLast
  <2>3. Len(rules[k].parts) = Len(e)
    BY <1>1, <1>2, <2>2, PathHit
  <2> QED
    BY <1>1, <1>2, <1>3, <2>2, <2>3
<1> QED
  BY <1>3, <1>5

\* What an entry's own entries start from is what the last mask for it says.
LEMMA ChildVerdict ==
  ASSUME Clear, NEW d, NEW m, Entered(d, m), NEW e \in Entries(d)
  PROVE  ChildMode(e, m) = Verdict(e)
<1>1. Meant(e) = Meant(d) \cup Fulls(e) /\ RulesOK
  BY MeantChild DEF Entered, Clear
<1>2. ChildMode(e, m) = IF Fulls(e) = {} THEN m ELSE ModeOf(rules[Last(Fulls(e))])
  BY DEF ChildMode, Fulls
<1>3. CASE Fulls(e) = {}
  BY <1>1, <1>2, <1>3 DEF Verdict, Entered
<1>4. CASE Fulls(e) # {}
  <2>1. Fulls(e) \in SUBSET DOMAIN rules /\ Meant(e) \in SUBSET DOMAIN rules
    BY DEF Fulls, Meant
  <2>2. /\ Last(Fulls(e)) \in Fulls(e) /\ Last(Fulls(e)) \in Meant(e)
        /\ \A j \in Fulls(e) : j <= Last(Fulls(e))
    BY <1>1, <1>4, <2>1, LastFacts
  <2>3. \A j \in Meant(d) : j <= Last(Fulls(e))
    BY <2>2, FullLater
  <2>4. \A j \in Meant(e) : j <= Last(Fulls(e))
    BY <1>1, <2>2, <2>3
  <2>5. Last(Meant(e)) = Last(Fulls(e))
    BY <1>1, <2>1, <2>2, <2>4, LastIs
  <2> QED
    BY <1>2, <1>4, <2>2, <2>5 DEF Verdict
<1> QED
  BY <1>3, <1>4

\* No relative mask is for an entry that stays.
LEMMA ChildEntered ==
  ASSUME Clear, NEW d, NEW m, Entered(d, m), NEW e \in Entries(d),
         Mode(e, m) # "EXCLUDE"
  PROVE  Entered(e, ChildMode(e, m))
<1>1. /\ e \in Entry /\ e \in Paths /\ Meant(e) = Meant(d) \cup Fulls(e) /\ RulesOK
  BY MeantChild, ChildFacts, EntryFacts DEF Entered, Clear
<1>2. ASSUME NEW i \in Fulls(e), ~rules[i].abs PROVE FALSE
  <2>1. /\ i \in DOMAIN rules /\ i \in Tried(e) /\ Tried(e) \in SUBSET DOMAIN rules
        /\ i \in Meant(e)
    BY <1>1 DEF Fulls, Tried
  <2> DEFINE k == Last(Tried(e))
  <2>2. k \in Tried(e) /\ i <= k /\ k \in DOMAIN rules
    BY <1>1, <2>1, LastFacts
  <2>3. rules[k].inc
    BY <2>1, <1>2 DEF Mode, Tried, ModeOf
  <2>4. rules[k].abs /\ Hit(rules[k], e)
    BY <2>2, <2>3 DEF Tried, Full, PartialInclude, Clear, PathIncludes
  <2>5. i < k
    BY <1>1, <1>2, <2>1, <2>2, <2>4, RuleFacts
  <2>6. Means(rules[i], e)
    BY <2>1 DEF Meant
  <2> HIDE DEF k
  <2> QED
    BY <1>1, <1>2, <2>1, <2>2, <2>4, <2>5, <2>6 DEF Clear, DeepLast
<1> QED
  BY <1>1, <1>2, ChildVerdict DEF Entered

\* A mask for an entry that is tried on one above it and does not end there is an include
\* mask that keeps that one.
LEMMA Deeper ==
  ASSUME Clear, NEW f \in Entry, NEW e \in Entry, IsPrefix(f, e),
         NEW j \in Meant(e), rules[j].abs, rules[j].inc
  PROVE  j \in Meant(f) \/ j \in Tried(f)
<1>1. /\ Len(f) <= Len(e) /\ \A k \in 1 .. Len(f) : f[k] = e[k]
      /\ Len(f) \in Nat /\ Len(e) \in Nat /\ DOMAIN f = 1 .. Len(f)
  BY PrefixFacts, EntryFacts
<1>2. /\ j \in DOMAIN rules /\ Len(rules[j].parts) <= Len(e)
      /\ Len(rules[j].parts) \in Nat /\ DOMAIN rules[j].parts = 1 .. Len(rules[j].parts)
      /\ \A k \in 1 .. Len(rules[j].parts) : <<rules[j].parts[k], e[k]>> \in Matches
  BY RuleFacts DEF Clear, Meant, Means
<1>3. CASE Len(rules[j].parts) <= Len(f)
  BY <1>1, <1>2, <1>3 DEF Meant, Means
<1>4. CASE Len(rules[j].parts) > Len(f)
  <2>1. \A k \in 1 .. Len(f) : <<rules[j].parts[k], f[k]>> \in Matches
    BY <1>1, <1>2, <1>4
  <2>2. PartialInclude(rules[j], f)
    BY <1>1, <1>2, <1>4, <2>1, PathHit
  <2> QED
    BY <1>2, <2>2 DEF Tried
<1> QED
  BY <1>1, <1>2, <1>3, <1>4

\* What is removed is masked, with all that is below it.
LEMMA RemovedMasked ==
  ASSUME Clear, NEW d, NEW m, Entered(d, m), NEW f \in Entries(d),
         Mode(f, m) = "EXCLUDE", NEW e \in Entry, IsPrefix(f, e)
  PROVE  Masked(e)
<1>1. /\ f \in Entry /\ f \in Paths /\ e \in Paths
      /\ Meant(f) = Meant(d) \cup Fulls(f) /\ RulesOK
  BY MeantChild, ChildFacts, EntryFacts DEF Entered, Clear
<1>2. /\ Meant(f) \subseteq Meant(e) /\ Meant(e) \in SUBSET DOMAIN rules
      /\ Meant(d) \in SUBSET DOMAIN rules /\ Tried(f) \in SUBSET DOMAIN rules
      /\ Fulls(f) \subseteq Tried(f)
  BY <1>1, MeantBelow DEF Meant, Tried, Fulls
<1>3. Mode(f, m) = IF Tried(f) = {} THEN m ELSE ModeOf(rules[Last(Tried(f))])
  BY DEF Mode, Tried
\* the mask that excludes f: later ones for f do not include
<1>4. \E i \in Meant(f) : /\ ~rules[i].inc
                          /\ \A j \in Meant(f) \cup Tried(f) : rules[j].inc => j <= i
  <2>1. CASE Tried(f) = {}
    <3>1. Meant(f) = Meant(d) /\ Verdict(d) = "EXCLUDE"
      BY <1>1, <1>2, <1>3, <2>1 DEF Entered
    <3>2. Meant(d) # {} /\ ~rules[Last(Meant(d))].inc
      BY <3>1 DEF Verdict, ModeOf
    <3>3. /\ Last(Meant(d)) \in Meant(d)
          /\ \A j \in Meant(d) : j <= Last(Meant(d))
      BY <1>1, <1>2, <3>2, LastFacts
    <3> QED
      BY <2>1, <3>1, <3>2, <3>3
  <2>2. CASE Tried(f) # {}
    <3> DEFINE k == Last(Tried(f))
    <3>1. k \in Tried(f) /\ \A j \in Tried(f) : j <= k
      BY <1>1, <1>2, <2>2, LastFacts
    <3>2. ~rules[k].inc
      BY <1>3, <2>2 DEF ModeOf
    <3> HIDE DEF k
    <3>3. k \in Fulls(f)
      BY <3>1, <3>2 DEF Tried, PartialInclude, Fulls
    <3>4. \A j \in Meant(d) : j <= k
      BY <3>3, FullLater
    <3> QED
      BY <1>1, <1>2, <3>1, <3>2, <3>3, <3>4
  <2> QED
    BY <2>1, <2>2
<1>5. PICK i \in Meant(f) : /\ ~rules[i].inc
                            /\ \A j \in Meant(f) \cup Tried(f) : rules[j].inc => j <= i
  BY <1>4
<1> DEFINE l == Last(Meant(e))
<1>6. i \in Meant(e) /\ l \in Meant(e) /\ i <= l
  BY <1>1, <1>2, <1>5, LastFacts
<1>7. ~rules[l].inc
  <2>1. SUFFICES ASSUME rules[l].inc PROVE FALSE
    OBVIOUS
  <2>2. rules[l].abs
    BY <1>2, <1>6, <2>1 DEF Clear, PathIncludes
  <2>3. l \in Meant(f) \cup Tried(f)
    BY <1>1, <1>6, <2>1, <2>2, Deeper
  <2>4. l <= i /\ l \in Nat /\ i \in Nat
    BY <1>1, <1>2, <1>5, <1>6, <2>1, <2>3, RuleFacts
  <2> QED
    BY <1>5, <1>6, <2>1, <2>4
<1> QED
  BY <1>6, <1>7 DEF Masked, Meant

\* A file that stays is not masked: no mask goes on below a file.
LEMMA StaysUnmasked ==
  ASSUME Clear, NEW d, NEW m, Entered(d, m), NEW e \in Entries(d),
         e \in Files, Mode(e, m) # "EXCLUDE"
  PROVE  ~Masked(e)
<1>1. e \in Entry /\ Len(e) \in Nat
  BY ChildFacts, EntryFacts DEF Entered
<1>2. ASSUME NEW i \in DOMAIN rules PROVE ~PartialInclude(rules[i], e)
  <2>0. rules[i].abs \in BOOLEAN /\ Len(rules[i].parts) \in Nat
    BY RuleFacts DEF Clear
  <2>1. CASE rules[i].abs
    <3>1. Hit(rules[i], e) => Len(rules[i].parts) <= Len(e)
      BY <2>1 DEF Clear, NoneBelowFiles
    <3> QED
      BY <1>1, <2>0, <2>1, <3>1, PathHit
  <2>2. CASE ~rules[i].abs
    BY <1>1, <2>2, NameHit
  <2> QED
    BY <2>0, <2>1, <2>2
<1>3. Mode(e, m) = ChildMode(e, m)
  BY <1>2 DEF Mode, ChildMode
<1> QED
  BY <1>3, ChildVerdict, MaskedVerdict

-----------------------------------------------------------------------------
(* The last mask that is for a file decides.                               *)

\* The walk so far: what has gone is masked, what has not is below a directory still to
\* be walked or is not masked.
WalkInv ==
  /\ RulesOK
  /\ \A t \in todo : t.dir = <<>> \/ (t.dir \in Entry /\ Kind[t.dir] = "dir")
  /\ pc = "done" => todo = {}
  /\ Clear =>
       /\ \A t \in todo : Entered(t.dir, t.mode)
       /\ \A e \in Files \ present : Masked(e)
       /\ \A e \in Files \cap present : OnDevice(e) =>
            ~Masked(e) \/ \E t \in todo : IsPrefix(t.dir, e)

\* Everything on the way to a file is a directory of the image.
LEMMA OnTheWay ==
  ASSUME NEW e \in Files, NEW d \in Paths, IsPrefix(d, e),
         d = <<>> \/ (d \in Entry /\ Kind[d] = "dir")
  PROVE  \E f \in Entries(d) : IsPrefix(f, e) /\ (f = e \/ Kind[f] = "dir")
<1>1. e \in Entry /\ Kind[e] = "file" /\ e \in Paths /\ Len(e) \in Nat \ {0}
  BY EntryFacts DEF Files
<1>2. Len(d) \in Nat /\ Len(d) <= Len(e) /\ \A k \in 1 .. Len(d) : d[k] = e[k]
  BY LenProperties, PrefixFacts, <1>1 DEF Paths
<1>3. Len(d) # Len(e)
  <2>1. SUFFICES ASSUME Len(d) = Len(e) PROVE FALSE
    OBVIOUS
  <2>2. d = e
    BY <1>1, <1>2, <2>1, SeqEqual DEF Paths
  <2>3. Len(d) # 0
    BY <1>1, <2>1
  <2> QED
    BY <1>1, <2>2, <2>3
<1> DEFINE n == Len(d) + 1
           f == SubSeq(e, 1, n)
<1>4. n \in 1 .. Len(e) /\ n \in 0 .. Len(e)
  BY <1>1, <1>2, <1>3
<1>5. f \in Paths /\ Len(f) = n /\ \A k \in 1 .. n : f[k] = e[k]
  BY <1>1, <1>4, StartOf
<1> HIDE DEF f
<1>6. f = e \/ (f \in Entry /\ Kind[f] = "dir")
  <2>1. CASE n = Len(e)
    <3>1. Len(f) = Len(e) /\ \A k \in 1 .. Len(f) : f[k] = e[k]
      BY <1>5, <2>1
    <3>2. f \in Seq(Names) /\ e \in Seq(Names)
      BY <1>1, <1>5 DEF Paths
    <3>3. f = e
      BY <3>1, <3>2, SeqEqual
    <3> QED
      BY <3>3
  <2>2. CASE n # Len(e)
    <3>1. n \in 1 .. Len(e) - 1
      BY <1>1, <1>4, <2>2
    <3> QED
      BY <1>1, <3>1, ImageAssumption DEF f
  <2> QED
    BY <2>1, <2>2
<1>7. IsPrefix(f, e)
  <2>1. Len(f) <= Len(e) /\ \A k \in 1 .. Len(f) : f[k] = e[k]
    BY <1>1, <1>4, <1>5
  <2> QED
    BY <1>1, <1>5, <2>1, PrefixFacts
<1>8. Parent(f) = d
  <2>1. n - 1 = Len(d) /\ Len(d) \in 0 .. Len(f)
    BY <1>2, <1>5
  <2>2. /\ Parent(f) = SubSeq(f, 1, Len(d))
        /\ SubSeq(f, 1, Len(d)) \in Paths /\ Len(SubSeq(f, 1, Len(d))) = Len(d)
        /\ \A k \in 1 .. Len(d) : SubSeq(f, 1, Len(d))[k] = f[k]
    BY <1>5, <2>1, StartOf DEF Parent
  <2>3. \A k \in 1 .. Len(d) : f[k] = d[k]
    BY <1>2, <1>5
  <2> QED
    BY <2>2, <2>3, SeqEqual DEF Paths
<1> QED
  BY <1>1, <1>6, <1>7, <1>8 DEF Entries

LEMMA WalkInit == Init => WalkInv
<1> SUFFICES ASSUME Init PROVE WalkInv
  OBVIOUS
<1>1. RulesOK
  BY RuleAssumption DEF Init, RulesOK
<1>2. <<>> \in Paths /\ Len(<<>>) = 0 /\ DOMAIN <<>> = {}
  BY EmptySeq DEF Paths
<1>3. ASSUME NEW i \in DOMAIN rules PROVE ~Means(rules[i], <<>>)
  BY <1>1, <1>2, <1>3, RuleFacts DEF Means
<1>4. Meant(<<>>) = {} /\ Verdict(<<>>) = "INCLUDE"
  BY <1>3 DEF Meant, Verdict
<1>5. Entered(<<>>, "INCLUDE")
  BY <1>2, <1>4 DEF Entered
<1>6. \A e \in Files : IsPrefix(<<>>, e)
  <2> SUFFICES ASSUME NEW e \in Files PROVE IsPrefix(<<>>, e)
    OBVIOUS
  <2>1. e \in Paths /\ Len(e) \in Nat
    BY EntryFacts DEF Files
  <2>2. Len(<<>>) <= Len(e) /\ \A k \in 1 .. Len(<<>>) : <<>>[k] = e[k]
    BY <1>2, <2>1
  <2> QED
    BY <1>2, <2>1, <2>2, PrefixFacts
<1>7. /\ todo = {[dir |-> <<>>, mode |-> "INCLUDE"]} /\ present = Entry /\ pc = "walk"
      /\ Files \ present = {}
  BY DEF Init, Files
<1>8. \E t \in todo : t.dir = <<>>
  BY <1>7
<1>9. \A t \in todo : t.dir = <<>> /\ t.mode = "INCLUDE"
  BY <1>7
<1>10. \A t \in todo : Entered(t.dir, t.mode)
  BY <1>5, <1>9
<1>11. \A e \in Files : \E t \in todo : IsPrefix(t.dir, e)
  BY <1>6, <1>8
<1> QED
  BY <1>1, <1>7, <1>9, <1>10, <1>11 DEF WalkInv

LEMMA WalkStep == WalkInv /\ [Next]_vars => WalkInv'
<1> SUFFICES ASSUME WalkInv, [Next]_vars PROVE WalkInv'
  OBVIOUS
<1>0. <<>> \in Paths
  BY EmptySeq DEF Paths
<1>1. rules' = rules
  BY DEF Next, CheckDir, Finish, vars
<1>2. RulesOK /\ RulesOK' /\ (Clear' <=> Clear)
  BY <1>1 DEF WalkInv, RulesOK, Clear, Plain, PathIncludes, DeepLast, Unambiguous,
              NoneBelowFiles
<1>3. \A e : Masked(e)' <=> Masked(e)
  BY <1>1 DEF Masked
<1>4. ASSUME NEW d, NEW m PROVE Entered(d, m)' <=> Entered(d, m)
  BY <1>1 DEF Entered, Verdict, Meant
<1>5. CASE CheckDir
  <2> DEFINE out(t) == {e \in Entries(t.dir) : Mode(e, t.mode) = "EXCLUDE"}
             sub(t) == {e \in Entries(t.dir) \ out(t) : Kind[e] = "dir"}
  <2>1. PICK t \in todo :
          /\ present' = present \ UNION {Removed(e) : e \in out(t)}
          /\ todo' = (todo \ {t})
                     \cup {[dir |-> e, mode |-> ChildMode(e, t.mode)] : e \in sub(t)}
    BY <1>5 DEF CheckDir
  <2>2. t.dir \in Paths /\ (t.dir = <<>> \/ (t.dir \in Entry /\ Kind[t.dir] = "dir"))
        /\ pc' = "walk"
    BY <1>0, <1>5, EntryFacts DEF WalkInv, CheckDir
  <2>3. ASSUME NEW u \in todo', u \notin todo
        PROVE  \E e \in sub(t) : u.dir = e /\ u.mode = ChildMode(e, t.mode)
    BY <2>1, <2>3
  <2>4. \A u \in todo' : u.dir = <<>> \/ (u.dir \in Entry /\ Kind[u.dir] = "dir")
    BY <2>3 DEF WalkInv, Entries
  <2>5. ASSUME Clear PROVE \A u \in todo' : Entered(u.dir, u.mode)
    BY <2>3, <2>5, ChildEntered DEF WalkInv
  <2>6. ASSUME Clear, NEW e \in Files, e \in present, e \notin present' PROVE Masked(e)
    <3>1. PICK f \in out(t) : e \in Removed(f)
      BY <2>1, <2>6
    <3>2. e \in Entry /\ IsPrefix(f, e)
      BY <3>1 DEF Removed, Under
    <3> QED
      BY <2>6, <3>1, <3>2, RemovedMasked DEF WalkInv
  <2>7. ASSUME Clear, NEW e \in Files, e \in present', OnDevice(e), Masked(e)
        PROVE  \E u \in todo' : IsPrefix(u.dir, e)
    <3>1. PICK u \in todo : IsPrefix(u.dir, e)
      BY <2>1, <2>7 DEF WalkInv
    <3>2. CASE u # t
      BY <2>1, <3>1, <3>2
    <3>3. CASE u = t
      <4>1. PICK f \in Entries(t.dir) : IsPrefix(f, e) /\ (f = e \/ Kind[f] = "dir")
        BY <2>2, <3>1, <3>3, OnTheWay
      <4>2. f \notin Foreign /\ Kind[f] # "sym" /\ e \in Entry
        BY <2>7, <4>1 DEF OnDevice, Files
      <4>3. Mode(f, t.mode) # "EXCLUDE"
        <5>1. SUFFICES ASSUME f \in out(t) PROVE FALSE
          BY <4>1
        <5>2. e \in Removed(f)
          BY <4>1, <4>2 DEF Removed, Under
        <5> QED
          BY <2>1, <2>7, <5>1, <5>2
      <4>4. f # e
        BY <2>7, <4>1, <4>3, StaysUnmasked DEF WalkInv
      <4>5. f \in sub(t)
        BY <4>1, <4>3, <4>4
      <4>6. [dir |-> f, mode |-> ChildMode(f, t.mode)] \in todo'
        BY <2>1, <4>5
      <4> QED
        BY <4>1, <4>6
    <3> QED
      BY <3>2, <3>3
  <2>8. Clear => /\ \A u \in todo' : Entered(u.dir, u.mode)
                 /\ \A e \in Files \ present' : Masked(e)
                 /\ \A e \in Files \cap present' : OnDevice(e) =>
                      ~Masked(e) \/ \E u \in todo' : IsPrefix(u.dir, e)
    BY <2>5, <2>6, <2>7 DEF WalkInv
  <2> QED
    BY <1>2, <1>3, <1>4, <2>2, <2>4, <2>8 DEF WalkInv
<1>6. CASE Finish
  <2>1. /\ todo' = {} /\ todo = {} /\ present' \subseteq present
        /\ \A e \in present \ present' : Kind[e] = "dir"
    BY <1>6 DEF Finish
  <2>2. Files \cap present' = Files \cap present /\ Files \ present' = Files \ present
    BY <2>1 DEF Files
  <2> QED
    BY <1>2, <1>3, <2>1, <2>2 DEF WalkInv
<1>7. CASE UNCHANGED vars
  BY <1>2, <1>3, <1>4, <1>7 DEF WalkInv, vars
<1> QED
  BY <1>5, <1>6, <1>7 DEF Next

\* For any image, masks and matching of names: when the walk of the image is done and the
\* masks are of those of which the order is clear, exactly the files on the image's device
\* have gone for which the last mask, inclusion or exclusion, is an exclusion.
THEOREM MaskedGone == Spec => []MaskedGo
<1>1. WalkInv => MaskedGo
  <2> SUFFICES ASSUME WalkInv, pc = "done", Clear
               PROVE  \A e \in Files : OnDevice(e) => (e \in present <=> ~Masked(e))
    BY DEF MaskedGo, Clear, WalkInv
  <2> QED
    BY DEF WalkInv
<1> QED
  BY <1>1, WalkInit, WalkStep, PTL DEF Spec

=============================================================================
