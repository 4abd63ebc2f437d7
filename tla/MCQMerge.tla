------------------------------ MODULE MCQMerge ------------------------------
(***************************************************************************)
(* A small root for QMerge: two versions of package a and a package b that *)
(* a's second version depends on.  /etc/conf is protected and in both      *)
(* versions of a, and so is /lib, which is not; the first has /tool, the   *)
(* second /usr/lnk in its place.                                           *)
(***************************************************************************)
EXTENDS QMerge, TLC

CONSTANTS a1, a2, b1, etc, conf, usr, lnk, tool, lib, A, B

MCPkg == {a1, a2, b1}
MCSlot == a1 :> A @@ a2 :> A @@ b1 :> B
MCVer == a1 :> 1 @@ a2 :> 2 @@ b1 :> 1
MCPath == {etc, conf, usr, lnk, tool, lib}
MCUp == etc :> {} @@ tool :> {} @@ lib :> {} @@ usr :> {} @@ conf :> {etc} @@ lnk :> {usr}
MCLoc == [n \in MCPath |-> n]
MCData == {"1", "2", "admin"}
Obj(v) == [k |-> "obj", d |-> v]
Sym(v) == [k |-> "sym", d |-> v]
MCImage ==
  a1 :> (etc :> Dir @@ conf :> Obj("1") @@ tool :> Obj("1") @@ lib :> Obj("1"))
  @@ a2 :> (etc :> Dir @@ conf :> Obj("2") @@ lib :> Obj("2") @@ usr :> Dir
            @@ lnk :> Sym("2"))
  @@ b1 :> (etc :> Dir)
MCBase == [n \in MCPath |-> None]
MCRDepend == a1 :> {} @@ a2 :> {b1} @@ b1 :> {}
MCPhases == a1 :> {"pretend", "prerm", "postrm"}
            @@ a2 :> {"pretend", "setup", "prerm", "postinst"} @@ b1 :> {}
MCEapi == a1 :> 0 @@ a2 :> 8 @@ b1 :> 7
MCStarts == [n \in MCPath |-> IF n = conf THEN {"/etc"} ELSE {}]
MCTargets == {{a1}, {a2}}
MCRemovals == {{a1, a2}}

\* These packages are as the theorems of QMergeProofs assume.
ASSUME TheoremsApply ==
  Image = MCImage => Straight /\ Agree /\ OwnFiles /\ OneName /\ OneVersionARun

-----------------------------------------------------------------------------
(* The same packages at odds with each other: what is a file in a1 is a    *)
(* directory in b1 and a symlink in a2, and a2 has a symlink for /etc/conf.*)

ClashUp == etc :> {} @@ tool :> {} @@ conf :> {etc} @@ lnk :> {tool}
ClashPath == DOMAIN ClashUp
ClashLoc == [n \in ClashPath |-> n]
ClashImage ==
  a1 :> (etc :> Dir @@ conf :> Obj("1") @@ tool :> Obj("1"))
  @@ a2 :> (etc :> Dir @@ conf :> Sym("2") @@ tool :> Sym("2"))
  @@ b1 :> (tool :> Dir @@ lnk :> Obj("1"))
ClashBase == [n \in ClashPath |-> None]
ClashRDepend == [p \in MCPkg |-> {}]
ClashStarts == [n \in ClashPath |-> IF n = conf THEN {"/etc"} ELSE {}]
ClashTargets == {{a1}, {a2}, {b1}}
ClashRemovals == {{a1}, {b1}}

=============================================================================
