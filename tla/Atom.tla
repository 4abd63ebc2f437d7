-------------------------------- MODULE Atom --------------------------------
(***************************************************************************)
(* libq/atom.c: atom_compare_flg() says how a package (data) stands to an  *)
(* atom with operators (query).  Every applet selects and sorts packages   *)
(* by it.  atom_explode() has taken both apart: a version is its numeric   *)
(* components, a letter, suffixes and a revision.                          *)
(*                                                                         *)
(* Characters appear as codes where the code compares strings with strncmp *)
(* and strcmp, nowhere else.                                               *)
(***************************************************************************)
EXTENDS Integers, Sequences

CONSTANTS
  Call,          \* the calls: an atom for data, one for query, a set of ATOM_COMP_* flags
  Strtoll,       \* the value of a string of digits, at most LLONG_MAX
  Word,          \* the categories, package names, slots and repositories
  NameRank,      \* the order strcmp puts categories and package names in
  None           \* a NULL field

Digit == 48 .. 57
Letter == 97 .. 122
Component == Seq(Digit) \ {<<>>}

SuffixNames == <<"alpha", "beta", "pre", "rc", "bogus", "p">>
WrittenSuffix == [name : {"alpha", "beta", "pre", "rc", "p"}, n : Nat]

\* letter is 0 when there is none.
Version ==
  [num : Seq(Component) \ {<<>>}, letter : {0} \cup Letter,
   suf : Seq(WrittenSuffix), rev : Nat]

Blockers == {"none", "block", "antislot"}
PrefixOps == {"none", "=", ">", ">=", "<", "<=", "~"}

\* sub is None where SUBSLOT points to SLOT, star whether a * ends the atom.
\* There is no version without a name.
Atoms ==
  {a \in [cat : Word \cup {None}, pn : Word \cup {None}, ver : Version \cup {None},
          slot : Word \cup {None}, sub : Word \cup {None}, repo : Word \cup {None},
          build : Nat, blocker : Blockers, pfx : PrefixOps, star : BOOLEAN] :
     a.pn = None => a.ver = None}

AllFlags == {"NOREV", "NOSLOT", "NOSUBSLOT", "NOREPO"}

Data == {c[1] : c \in Call}
Query == {c[2] : c \in Call}

ASSUME AtomAssumption == Call \subseteq Atoms \X Atoms \X SUBSET AllFlags
ASSUME StrtollAssumption ==
  \A a \in Data \cup Query : a.ver # None =>
    \A k \in DOMAIN a.ver.num :
      LET s == a.ver.num[k]
      IN Strtoll[s] \in Nat /\ (Strtoll[s] = 0 <=> \A i \in DOMAIN s : s[i] = 48)
Categories == {a.cat : a \in Data \cup Query} \ {None}
PackageNames == {a.pn : a \in Data \cup Query} \ {None}
ASSUME NameRankAssumption ==
  \A S \in {Categories, PackageNames} :
    \A m, n \in S : NameRank[m] \in Int /\ (NameRank[m] = NameRank[n] => m = n)
ASSUME NoneAssumption == None \notin Version

VARIABLES data, query, flags, result

vars == <<data, query, flags, result>>

Equality == {"NOT_EQUAL", "EQUAL", "NEWER", "OLDER"}

TypeOK ==
  /\ <<data, query, flags>> \in Call
  /\ result \in {"none"} \cup Equality

-----------------------------------------------------------------------------
(* Numbers and strings.                                                    *)

\* -1, 0 or 1.
Order(m, n) == IF m < n THEN -1 ELSE IF m > n THEN 1 ELSE 0

Least(S) == CHOOSE i \in S : \A j \in S : i <= j
Larger(m, n) == IF m < n THEN n ELSE m
Shorter(s, t) == IF Len(s) < Len(t) THEN Len(s) ELSE Len(t)

\* Component k of PV up to the next '.', '_' or end: a letter belongs to the last one.
Text(v, k) ==
  IF k = Len(v.num) /\ v.letter # 0 THEN Append(v.num[k], v.letter) ELSE v.num[k]

\* What follows it: '.', '_' or '\0'.
After(v, k) == IF k < Len(v.num) THEN 46 ELSE IF v.suf # <<>> THEN 95 ELSE 0

\* How many characters are left when the zeros at the end go, the first one stays.
Trimmed(t) == Least({i \in DOMAIN t : \A j \in DOMAIN t : j > i => t[j] = 48})

\* strncmp(s, t, n)
Strncmp(s, t, n) ==
  LET diff == {i \in 1 .. n : i <= Shorter(s, t) /\ s[i] # t[i]}
  IN IF diff = {} THEN 0 ELSE Order(s[Least(diff)], t[Least(diff)])

-----------------------------------------------------------------------------
(* The version comparison.                                                 *)

\* A zero at the start, and more than two characters on either side.
StringWise(s, t) ==
  /\ s[1] = 48 \/ t[1] = 48
  /\ Len(s) > 2 \/ Len(t) > 2

\* Mutant of ComponentOrder: components of digits are compared as strings as well.
ComponentOrder_Strings(v, w, k) ==
  LET s == Text(v, k)
      t == Text(w, k)
  IN Strncmp(Append(s, After(v, k)), Append(t, After(w, k)), Larger(Trimmed(s), Trimmed(t)))

\* The order of component k of both.  The string comparison is one short: the
\* pointers are differenced with the last character that counts, not past it.
ComponentOrder(v, w, k) ==
  LET s == Text(v, k)
      t == Text(w, k)
  IN IF k > 1 /\ StringWise(s, t)
     THEN Strncmp(Append(s, After(v, k)), Append(t, After(w, k)),
                  Larger(Trimmed(s), Trimmed(t)) - 1)
     ELSE Order(Strtoll[v.num[k]], Strtoll[w.num[k]])

\* The components that differ.
Differing(v, w) ==
  {k \in 1 .. Shorter(v.num, w.num) : ComponentOrder(v, w, k) # 0}

\* The index atom_explode finds a suffix at, in the role of the enumeration
\* VER_ALPHA = 1, VER_BETA, VER_PRE, VER_RC, VER_NORM, VER_P.
Index(name) == (CHOOSE i \in DOMAIN SuffixNames : SuffixNames[i] = name) - 1
VER_NORM == 5

\* The array of suffixes ends with VER_NORM.
Suffix(v, k) ==
  IF k <= Len(v.suf) THEN [suffix |-> Index(v.suf[k].name), sint |-> v.suf[k].n]
  ELSE [suffix |-> VER_NORM, sint |-> 0]

\* Where the walk along both arrays stops.
SuffixStop(v, w) ==
  Least({k \in 1 .. Len(v.suf) + Len(w.suf) + 1 :
           Suffix(v, k) # Suffix(w, k) \/ Suffix(v, k).suffix = VER_NORM})

-----------------------------------------------------------------------------
(* Each step of the comparison decides, or leaves it to the next one.      *)

Undecided == 2
Decide(order) == IF order = 0 THEN Undecided ELSE order

\* ver_bits: what follows the numbers in a query that ends in *.
Bits(q) ==
  {b \in {"letter", "suffix", "rev"} :
     CASE b = "letter" -> q.ver.letter # 0
       [] b = "suffix" -> Suffix(q.ver, 1).suffix # VER_NORM
       [] b = "rev" -> q.ver.rev # 0}

\* Mutant of NumericStep: the components left over in the query are not looked at.
NumericStep_Short(d, q) ==
  LET diff == Differing(d.ver, q.ver)
  IN IF diff # {} THEN ComponentOrder(d.ver, q.ver, Least(diff))
     ELSE IF q.star /\ Len(d.ver.num) > Len(q.ver.num) /\ Bits(q) = {} THEN 0
     ELSE IF Len(d.ver.num) > Len(q.ver.num) THEN 1 ELSE Undecided

NumericStep(d, q) ==
  LET v == d.ver
      w == q.ver
      diff == Differing(v, w)
  IN IF diff # {} THEN ComponentOrder(v, w, Least(diff))
     ELSE IF q.star /\ Len(v.num) > Len(w.num) /\ Bits(q) = {} THEN 0
     ELSE Decide(Order(Len(v.num), Len(w.num)))

LetterStep(d, q) ==
  IF q.star /\ q.ver.letter = 0 /\ Bits(q) \ {"letter"} = {} THEN 0
  ELSE Decide(Order(d.ver.letter, q.ver.letter))

SuffixStep(d, q) ==
  LET k == SuffixStop(d.ver, q.ver)
      s == Suffix(d.ver, k)
      t == Suffix(q.ver, k)
      open == q.star /\ "rev" \notin Bits(q)
  IN IF open /\ t.suffix = VER_NORM THEN 0
     ELSE IF s.suffix # t.suffix THEN Order(s.suffix, t.suffix)
     ELSE IF open /\ t.sint = 0 THEN 0
     ELSE Decide(Order(s.sint, t.sint))

Revision(a) == IF a.ver = None THEN 0 ELSE a.ver.rev

RevisionStep(d, q, op, f) ==
  IF (q.star /\ Revision(q) = 0) \/ op = "~" \/ "NOREV" \in f THEN 0
  ELSE Decide(Order(Revision(d), Revision(q)))

BuildStep(d, q) ==
  IF d.build > 0 /\ q.build > 0 THEN Decide(Order(d.build, q.build)) ELSE Undecided

\* Without versions only the revision and the build can differ.
Steps(d, q, op, f) ==
  IF d.ver = None THEN <<RevisionStep(d, q, op, f), BuildStep(d, q), 0>>
  ELSE <<NumericStep(d, q), LetterStep(d, q), SuffixStep(d, q),
         RevisionStep(d, q, op, f), BuildStep(d, q), 0>>

\* The first step that decides.
VersionOrder(d, q, op, f) ==
  LET s == Steps(d, q, op, f)
  IN s[Least({i \in DOMAIN s : s[i] # Undecided})]

-----------------------------------------------------------------------------
(* atom_compare_flg.                                                       *)

\* Mutant of Operator: the bound itself is blocked either way.
Operator_Both(q) ==
  IF q.blocker # "block" THEN q.pfx
  ELSE CASE q.pfx = ">" -> "<=" [] q.pfx = ">=" -> "<="
         [] q.pfx = "<" -> ">=" [] q.pfx = "<=" -> ">="
         [] OTHER -> "neq"

\* The operator a blocker turns the query's into; "neq" is never satisfied.
Operator(q) ==
  IF q.blocker # "block" THEN q.pfx
  ELSE CASE q.pfx = ">" -> "<=" [] q.pfx = ">=" -> "<"
         [] q.pfx = "<" -> ">=" [] q.pfx = "<=" -> ">"
         [] OTHER -> "neq"

\* _atom_compare_match
Match(order, op) ==
  LET E(holds) == IF holds THEN "EQUAL" ELSE "NOT_EQUAL"
  IN CASE op = "none" -> IF order = 0 THEN "EQUAL" ELSE IF order < 0 THEN "OLDER" ELSE "NEWER"
       [] op = ">" -> E(order > 0)
       [] op = ">=" -> E(order >= 0)
       [] op \in {"=", "~"} -> E(order = 0)
       [] op = "<=" -> E(order <= 0)
       [] op = "<" -> E(order < 0)
       [] OTHER -> "NOT_EQUAL"

\* PMS 7.2: the sub-slot is the slot when it isn't given.
SubSlot(a) == IF a.sub = None THEN a.slot ELSE a.sub

\* ^atom: another slot, or another sub-slot of the slot.
AntislotRejects(d, q, f) ==
  IF q.slot = None THEN d.slot = None
  ELSE \/ d.slot = None
       \/ IF q.sub = None \/ "NOSUBSLOT" \in f THEN d.slot = q.slot
          ELSE d.slot # q.slot \/ SubSlot(d) = q.sub

SlotRejects(d, q, f) ==
  /\ q.slot # None
  /\ \/ d.slot # q.slot
     \/ "NOSUBSLOT" \notin f /\ q.sub # None /\ d.sub # q.sub

\* A blocker goes past a slot, a category or a name that differs.
Rejects(d, q, f) ==
  \/ "NOSLOT" \notin f /\ q.blocker = "antislot" /\ AntislotRejects(d, q, f)
  \/ "NOSLOT" \notin f /\ q.blocker = "none" /\ SlotRejects(d, q, f)
  \/ "NOREPO" \notin f /\ q.repo # None /\ d.repo # q.repo
  \/ q.cat # None /\ d.cat # q.cat /\ (q.blocker # "block" \/ d.cat = None)
  \/ q.pn # None /\ d.pn # q.pn /\ (q.blocker # "block" \/ d.pn = None)

BlocksAll(d, q) ==
  /\ q.blocker = "block"
  /\ \/ q.cat # None /\ d.cat = q.cat /\ q.pn = None
     \/ q.pn # None /\ d.pn = q.pn /\ q.ver = None

AtomCompare(d, q, f) ==
  IF Rejects(d, q, f) THEN "NOT_EQUAL"
  ELSE IF BlocksAll(d, q) \/ (d.ver = None) # (q.ver = None) THEN "EQUAL"
  ELSE Match(VersionOrder(d, q, Operator(q), f), Operator(q))

\* Mutant of SortOrder: only the category decides between packages.
SortOrder_Category(l, r) ==
  LET c == AtomCompare(l, r, {})
  IN CASE c = "NEWER" -> -1 [] c = "OLDER" -> 1
       [] c = "NOT_EQUAL" /\ l.cat # r.cat -> Order(NameRank[l.cat], NameRank[r.cat])
       [] OTHER -> 0

\* atom_compar_cb, what arrays of atoms are sorted by: newest first, then by name.
SortOrder(l, r) ==
  LET c == AtomCompare(l, r, {})
      byName(m, n) == IF m = n THEN 0 ELSE IF m = None THEN -1 ELSE IF n = None THEN 1
                      ELSE Order(NameRank[m], NameRank[n])
  IN CASE c = "EQUAL" -> 0 [] c = "NEWER" -> -1 [] c = "OLDER" -> 1
       [] OTHER -> IF l.cat # r.cat THEN byName(l.cat, r.cat) ELSE byName(l.pn, r.pn)

-----------------------------------------------------------------------------
Init ==
  /\ \E c \in Call : data = c[1] /\ query = c[2] /\ flags = c[3]
  /\ result = "none"

Compare ==
  /\ result = "none"
  /\ result' = AtomCompare(data, query, flags)
  /\ UNCHANGED <<data, query, flags>>

Next == Compare

Spec == Init /\ [][Next]_vars

-----------------------------------------------------------------------------
(* The order of versions as the comment in atom.c has it from PMS 3.3.     *)

\* Algorithm 3.3.
NoTail(t) == SubSeq(t, 1, Least({n \in 0 .. Len(t) : \A j \in n + 1 .. Len(t) : t[j] = 48}))
StringOrder(s, t) ==
  LET order == Strncmp(s, t, Shorter(s, t))
  IN IF order # 0 THEN order ELSE Order(Len(s), Len(t))
PMSComponent(s, t) ==
  IF s[1] = 48 \/ t[1] = 48 THEN StringOrder(NoTail(s), NoTail(t))
  ELSE Order(Strtoll[s], Strtoll[t])

\* Algorithm 3.2.
PMSNumeric(v, w) ==
  LET at(k) == IF k = 1 THEN Order(Strtoll[v.num[1]], Strtoll[w.num[1]])
               ELSE PMSComponent(v.num[k], w.num[k])
      diff == {k \in 1 .. Shorter(v.num, w.num) : at(k) # 0}
  IN IF diff # {} THEN at(Least(diff)) ELSE Order(Len(v.num), Len(w.num))

\* Algorithms 3.5 and 3.6.
PMSSuffixes(v, w) ==
  LET n == Shorter(v.suf, w.suf)
      diff == {k \in 1 .. n : v.suf[k] # w.suf[k]}
      s == v.suf[Least(diff)]
      t == w.suf[Least(diff)]
  IN CASE diff # {} -> IF s.name = t.name THEN Order(s.n, t.n)
                       ELSE Order(Index(s.name), Index(t.name))
       [] diff = {} /\ Len(v.suf) > n -> IF v.suf[n + 1].name = "p" THEN 1 ELSE -1
       [] diff = {} /\ Len(w.suf) > n -> IF w.suf[n + 1].name = "p" THEN -1 ELSE 1
       [] OTHER -> 0

\* Algorithm 3.1.
PMSOrder(v, w) ==
  LET s == <<PMSNumeric(v, w), Order(v.letter, w.letter), PMSSuffixes(v, w),
             Order(v.rev, w.rev), 0>>
  IN s[Least({i \in DOMAIN s : s[i] # 0 \/ i = Len(s)})]

-----------------------------------------------------------------------------
(* Properties.                                                             *)

Bare(a) == a.blocker = "none" /\ a.pfx = "none" /\ ~a.star
SameName(a, b) ==
  /\ a.cat = b.cat /\ a.pn = b.pn /\ a.repo = b.repo
  /\ a.slot = b.slot /\ a.sub = b.sub
SamePackage(a, b) == SameName(a, b) /\ a.ver # None /\ b.ver # None /\ a.build = b.build

Compared == result # "none"

\* No component but the first starts with a zero, unless it is 0.
NoLeadingZero(v) == \A k \in 2 .. Len(v.num) : v.num[k][1] = 48 => Len(v.num[k]) = 1

\* A _p is the last suffix and has a number.
PatchedLast(v) == \A k \in DOMAIN v.suf : v.suf[k].name = "p" => v.suf[k].n > 0 /\ k = Len(v.suf)

Regular(v) == NoLeadingZero(v) /\ PatchedLast(v)

\* v has a 0 where w has a digit that two or more zeros follow: of that only the digit
\* counts, one character too few are compared, and 1.0 equals 1.100.
DigitLost(v, w) ==
  \E k \in 2 .. Shorter(v.num, w.num) :
    Text(v, k) = <<48>> /\ Len(Text(w, k)) > 2 /\ Trimmed(Text(w, k)) = 1

\* For versions without leading zeros and with their _p suffixes numbered and
\* last, the answer is the order of PMS, 1.0 against 1.100 apart.
VersionsOrdered ==
  Compared /\ Bare(query) /\ flags = {} /\ SamePackage(data, query)
    /\ Regular(data.ver) /\ Regular(query.ver)
    /\ ~DigitLost(data.ver, query.ver) /\ ~DigitLost(query.ver, data.ver)
    => result = Match(PMSOrder(data.ver, query.ver), "none")

Flip(r) == CASE r = "NEWER" -> "OLDER" [] r = "OLDER" -> "NEWER" [] OTHER -> r

\* Whatever the versions are, the two directions agree: qlop, qmerge and the sort
\* callbacks compare either way round.
Antisymmetric ==
  Compared /\ Bare(data) /\ Bare(query) /\ SameName(data, query)
    => AtomCompare(query, data, flags) = Flip(result)

\* A blocker with an order operator takes exactly the versions of the package that
\* the atom without it does not take.
BlockersInvert ==
  Compared /\ query.blocker = "block" /\ query.pfx \in {">", ">=", "<", "<="}
    /\ SameName(data, query) /\ data.ver # None /\ query.ver # None
    => (result = "EQUAL") # (AtomCompare(data, [query EXCEPT !.blocker = "none"], flags) = "EQUAL")

\* The sort callback is a strict weak order on packages that agree on their slots, as
\* long as no digit is lost between two of them: 1.100 > 1.1 > 1.0, and 1.0 equals 1.100.
SortSound ==
  LET plain(a) == Bare(a) /\ a.ver # None /\ NoLeadingZero(a.ver) /\ a.cat # None
      alike(a, b) == /\ a.slot = b.slot /\ a.sub = b.sub /\ a.repo = b.repo /\ a.build = b.build
                     /\ ~DigitLost(a.ver, b.ver) /\ ~DigitLost(b.ver, a.ver)
  IN Compared /\ plain(data) /\ plain(query) /\ alike(data, query)
       => /\ SortOrder(query, data) = -SortOrder(data, query)
          /\ \A c \in Data :
               /\ plain(c) /\ alike(query, c) /\ alike(data, c)
               /\ SortOrder(data, query) <= 0 /\ SortOrder(query, c) <= 0
               => SortOrder(data, c) <= 0

=============================================================================
