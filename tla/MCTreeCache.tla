----------------------------- MODULE MCTreeCache -----------------------------
(***************************************************************************)
(* A tree of three categories, the first for accounts, the last virtual,   *)
(* with two versions of one package, and the requests that applets make:   *)
(* everything, a category, a name, a name with its category, a version,    *)
(* and names and categories that are not there.                            *)
(***************************************************************************)
EXTENDS TreeCache

MCCategories == 1..3
Pkg(c, n, v) == [cat |-> c, pn |-> n, ver |-> v]
MCDisk == {Pkg(1, 2, 1), Pkg(2, 1, 1), Pkg(2, 1, 2), Pkg(2, 2, 1), Pkg(3, 1, 1)}
MCVirtual == {3}
MCAcct == {1}

Q(c, n, v) == [cat |-> c, pn |-> n, ver |-> v]
Queries == {Q(Absent, Absent, Absent), Q(2, Absent, Absent), Q(2, 1, Absent), Q(2, 2, Absent),
            Q(2, 3, Absent), Q(Absent, 1, Absent), Q(Absent, 1, 2), Q(4, 1, Absent)}

Ask(q, flags, inner) == [query |-> q, flags |-> flags, inner |-> inner]
Everything == {"virtual", "acct"}
Flags == {Everything, Everything \cup {"sort"}, {"latest", "virtual"}, {"first"}}
Inner == {Q(2, 1, Absent), Q(2, 1, 1), Q(2, 2, Absent), Q(3, 1, Absent), Q(2, 3, Absent)}

MCRequests ==
  {Ask(q, f, None) : q \in Queries, f \in Flags}
  \cup {Ask(q, f, i) : q \in Queries, f \in {Everything, Everything \cup {"sort"}}, i \in Inner}

\* Sorted traversals whose callbacks ask again.
Orderly == {<<k, TRUE>> : k \in {"vdb", "packages", "gtree"}}
\* qdepends -iR traverses the VDB unsorted, and its callback asks again: with
\* Nesting <- Qdepends, NestedAnswered fails.
Qdepends == {<<"vdb", FALSE>>}

\* The theorems apply to this instance.
ASSUME TheoremsApply == SortedOnly /\ SettledOnly /\ RequestsUsual
=============================================================================
