-------------------------------- MODULE Tree --------------------------------
(***************************************************************************)
(* What a tree of packages promises to its callers (the interface of       *)
(* libq/tree.h): a request is answered from the packages that are there,   *)
(* whatever was asked before.  There is no cache here, and an answer comes *)
(* in one step.  TreeCache, which is the code, implements this module.     *)
(***************************************************************************)
EXTENDS Naturals, Sequences

CONSTANTS
  Disk,          \* the packages: records of a category, a name, a version
  Requests,      \* what callers may ask
  VirtualCats,   \* the category "virtual"
  AcctCats,      \* the categories "acct-user" and "acct-group"
  Absent,           \* in a query: no such part
  None           \* no request, no answer

VARIABLES request, answer

vars == <<request, answer>>

(***************************************************************************)
(* Names and categories are numbers in the order of strcmp(), versions     *)
(* numbers in the order of atom_compare().                                 *)
(***************************************************************************)
Fits(part, value) == part \in {Absent, value}

Asked(query, pkg) ==
  Fits(query.cat, pkg.cat) /\ Fits(query.pn, pkg.pn) /\ Fits(query.ver, pkg.ver)

\* Categories and names ascend, versions of one name descend.
Precedes(p, q) ==
  \/ p.cat < q.cat
  \/ p.cat = q.cat /\ p.pn < q.pn
  \/ p.cat = q.cat /\ p.pn = q.pn /\ p.ver > q.ver

Sorted(r) == r.flags \cap {"sort", "first", "latest"} # {}

Matching(r) ==
  {p \in Disk : /\ Asked(r.query, p)
                /\ p.cat \in VirtualCats => "virtual" \in r.flags
                /\ p.cat \in AcctCats => "acct" \in r.flags}

First(S) == {p \in S : \A q \in S \ {p} : Precedes(p, q)}

Latest(S) == {p \in S : ~\E q \in S : q.cat = p.cat /\ q.pn = p.pn /\ q.ver > p.ver}

Wanted(r) ==
  IF "first" \in r.flags THEN First(Matching(r))
  ELSE IF "latest" \in r.flags THEN Latest(Matching(r)) ELSE Matching(r)

\* Each wanted package once, in order if the request asks for order.
Answers(r, s) ==
  /\ {s[i] : i \in DOMAIN s} = Wanted(r)
  /\ \A i, j \in DOMAIN s : s[i] = s[j] => i = j
  /\ Sorted(r) => \A i, j \in DOMAIN s : i < j => Precedes(s[i], s[j])

Init == request = None /\ answer = None

Ask ==
  /\ request = None
  /\ request' \in Requests
  /\ answer' = None

Reply ==
  /\ request # None
  /\ answer' \in Seq(Disk)
  /\ Answers(request, answer')
  /\ request' = None

Next == Ask \/ Reply

Spec == Init /\ [][Next]_vars
=============================================================================
