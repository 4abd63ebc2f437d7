----------------------------- MODULE MCPkgFetch -----------------------------
(* Three packages in the index: two that need each other, and one without  *)
(* digests that the first needs, too.                                      *)
EXTENDS PkgFetch, TLC

CONSTANTS a, b, c

MCPkg == {a, b, c}
MCNeeds == a :> {b, c} @@ b :> {a} @@ c :> {}
MCHashes == a :> {"MD5", "SHA1"} @@ b :> {"MD5"} @@ c :> {}

\* -p asks nothing, fetches nothing and verifies nothing; that FEATURES=strict ends the
\* program is tried without the question.
MCAllRuns ==
  {o \in RunOptions : /\ o.pretend => ~o.strict /\ ~o.force /\ ~o.interactive
                      /\ o.interactive => ~o.strict}
=============================================================================
