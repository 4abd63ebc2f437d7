---------------------------- MODULE MCInstallMask ----------------------------
(***************************************************************************)
(* The example of qmerge.c:515-553 with a symlink, a mount and a second   *)
(* "b" added.                                                              *)
(***************************************************************************)
EXTENDS InstallMask, TLC

MCKind ==
     <<"e">> :> "dir" @@ <<"e", "t">> :> "file"
  @@ <<"u">> :> "dir"
  @@ <<"u", "b">> :> "dir" @@ <<"u", "b", "t">> :> "file"
  @@ <<"u", "s">> :> "dir" @@ <<"u", "s", "lnk">> :> "sym"
  @@ <<"u", "s", "d">> :> "dir" @@ <<"u", "s", "d", "t">> :> "file"
  @@ <<"u", "s", "m">> :> "dir"
  @@ <<"u", "s", "m", "m1">> :> "dir" @@ <<"u", "s", "m", "m1", "t">> :> "file"
  @@ <<"u", "s", "m", "m5">> :> "dir" @@ <<"u", "s", "m", "m5", "t">> :> "file"
  @@ <<"v">> :> "dir" @@ <<"v", "b">> :> "dir" @@ <<"v", "b", "t">> :> "file"

MCEntry == DOMAIN MCKind
MCForeign == {<<"e">>, <<"e", "t">>}
MCUsrShare == <<"u", "s">>
MCMatches == {<<x, x>> : x \in Names} \cup ({"m*"} \X {"m", "m1", "m5"})

Abs(inc, parts) == [inc |-> inc, abs |-> TRUE, parts |-> parts, slash |-> FALSE]
Rel(inc, name) == [inc |-> inc, abs |-> FALSE, parts |-> <<name>>, slash |-> FALSE]

MCRule == {
  Abs(FALSE, <<"u", "s">>), Abs(TRUE, <<"u", "s", "m", "m1">>), Rel(FALSE, "e"),
  Abs(FALSE, <<"u">>), Abs(TRUE, <<"u", "s">>), Abs(FALSE, <<"u", "s", "m">>),
  Abs(FALSE, <<"u", "b">>), Abs(FALSE, <<"u", "b", "t">>),
  Abs(FALSE, <<"u", "s", "m", "m*">>), Abs(TRUE, <<"u", "s", "z">>),
  Abs(TRUE, <<"u", "s", "d", "t", "z">>), Rel(FALSE, "s"), Rel(FALSE, "t"),
  Rel(TRUE, "m5"), Rel(FALSE, "lnk"),
  [inc |-> FALSE, abs |-> TRUE, parts |-> <<"u", "s", "d">>, slash |-> TRUE]}
=============================================================================
