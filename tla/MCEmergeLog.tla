----------------------------- MODULE MCEmergeLog -----------------------------
(***************************************************************************)
(* An emerge that replaces a version, one that tries the same merge again, *)
(* one that removes the old version, and a sync, in any interleaving.      *)
(***************************************************************************)
EXTENDS EmergeLog

A(v) == [pn |-> 1, ver |-> v]
B(v) == [pn |-> 2, ver |-> v]
Line(k, pkg, id, of) == [k |-> k, pkg |-> pkg, id |-> id, of |-> of]
Mark(k) == Line(k, None, <<"", None>>, 0)
Start1(pkg, of) == Line("start", pkg, <<"1 of 1", pkg>>, of)
Completed1(pkg, of) == Line("completed", pkg, <<"1 of 1", pkg>>, of)
Gone(pkg, of) == Line("success", pkg, <<"", pkg>>, of)

MCEmerges == {"update", "again", "remove", "sync"}
MCScript == [
  update |-> <<Mark("emerge"), Start1(A(2), 2), Line("autoclean", A(1), <<"", A(1)>>, 3), Gone(A(1), 3),
               Completed1(A(2), 2), Mark("exiting"), Mark("terminating")>>,
  again  |-> <<Mark("emerge"), Start1(A(2), 2), Completed1(A(2), 2),
               Mark("exiting"), Mark("terminating")>>,
  remove |-> <<Mark("emerge"), Line("unmerge", A(1), <<"", A(1)>>, 2), Gone(A(1), 2),
               Mark("exiting"), Mark("terminating")>>,
  sync   |-> <<Mark("emerge"), Mark("sync"), Mark("synced"), Mark("terminating")>>]

Command(flags, asked, from) ==
  [flags |-> flags, atoms |-> asked, from |-> from, to |-> Unset, verbose |-> FALSE]
AnyA == [pn |-> 1, ver |-> 0]
MCCommands == {
  Command({}, {}, Unset),
  Command({"merge", "unmerge", "autoclean"}, {AnyA}, 2),
  Command({"lastmerge"}, {AnyA}, Unset), Command({"merge", "unmerge"}, {}, 2),
  Command({"running"}, {}, Unset), Command({"predict"}, {A(3)}, Unset)}
MCGaps == {5}
MCProbes == {NoProc, {A(2)}}
=============================================================================
