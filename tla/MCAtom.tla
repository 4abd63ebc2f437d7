------------------------------- MODULE MCAtom -------------------------------
(***************************************************************************)
(* Versions that differ in every part, in combinations of a few parts, and *)
(* packages that differ in name, slot, sub-slot and repository.            *)
(***************************************************************************)
EXTENDS Atom, TLC

N0 == <<48>>
N1 == <<49>>
N2 == <<50>>
N10 == <<49, 48>>
N01 == <<48, 49>>
N010 == <<48, 49, 48>>
N012 == <<48, 49, 50>>
N100 == <<49, 48, 48>>
MCStrtoll ==
  N0 :> 0 @@ N1 :> 1 @@ N2 :> 2 @@ N10 :> 10 @@ N01 :> 1 @@ N010 :> 10 @@ N012 :> 12 @@ N100 :> 100

Ver(num, letter, suf, rev) == [num |-> num, letter |-> letter, suf |-> suf, rev |-> rev]
Suf(name, n) == [name |-> name, n |-> n]

\* One version for every kind of number, and for every kind of tail.
Numbers ==
  {Ver(num, 0, <<>>, 0) : num \in
     {<<N1>>, <<N10>>, <<N2, N1>>} \cup {<<N1, c>> : c \in DOMAIN MCStrtoll}
     \cup {<<N1, N0, N2>>, <<N1, N01, N1>>, <<N1, N012, N2>>}}
Suffixes ==
  {<<>>, <<Suf("alpha", 0)>>, <<Suf("alpha", 2)>>, <<Suf("rc", 1)>>, <<Suf("p", 0)>>, <<Suf("p", 1)>>,
   <<Suf("alpha", 0), Suf("beta", 0)>>, <<Suf("alpha", 2), Suf("p", 1)>>, <<Suf("p", 1), Suf("pre", 0)>>}
Tails ==
  {Ver(num, letter, suf, rev) :
     num \in {<<N1>>, <<N1, N01>>}, letter \in {0, 97}, suf \in Suffixes, rev \in {0, 1}}
MCVersions == Numbers \cup Tails

Atom(cat, pn, ver, slot, sub, repo, build) ==
  [cat |-> cat, pn |-> pn, ver |-> ver, slot |-> slot, sub |-> sub, repo |-> repo,
   build |-> build, blocker |-> "none", pfx |-> "none", star |-> FALSE]
With(a, blocker, pfx, star) == [a EXCEPT !.blocker = blocker, !.pfx = pfx, !.star = star]

Versioned == {Atom("x", "a", v, None, None, None, 0) : v \in MCVersions}
Operators ==
  {<<"none", "none", FALSE>>, <<"none", "=", TRUE>>, <<"block", ">=", FALSE>>, <<"block", "<", FALSE>>,
   <<"none", "~", FALSE>>}
MCQueries == {With(a, op[1], op[2], op[3]) : a \in Versioned, op \in Operators}

Names == {<<None, "a">>, <<"x", "a">>, <<"x", "b">>, <<"y", "a">>}
Slots == {<<None, None>>, <<"0", None>>, <<"0", "5">>, <<"0", "6">>, <<"1", None>>}
Named ==
  {Atom(n[1], n[2], v, s[1], s[2], None, 0) : n \in Names, s \in Slots,
     v \in {None, Ver(<<N1>>, 0, <<>>, 0), Ver(<<N2>>, 0, <<>>, 1)}}
  \cup {Atom("x", "a", Ver(<<N1>>, 0, <<>>, 0), None, None, "r", b) : b \in 0 .. 2}
NamedQueries ==
  {With(a, blocker, "none", FALSE) : a \in Named, blocker \in Blockers}
  \cup {With(a, "block", ">=", FALSE) : a \in Named}

\* The flags of atom_compare(), qlop, qmerge and quse.
MCCall ==
  (Versioned \X MCQueries \X {{}, {"NOREV"}})
  \cup (Named \X NamedQueries
        \X {{}, {"NOREV"}, {"NOSUBSLOT", "NOREPO"}, {"NOSLOT", "NOREPO"}})

MCWord == {"x", "y", "a", "b", "0", "1", "5", "6", "r"}
MCRank == "x" :> 1 @@ "y" :> 2 @@ "a" :> 1 @@ "b" :> 2
=============================================================================
