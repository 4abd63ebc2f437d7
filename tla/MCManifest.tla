----------------------------- MODULE MCManifest -----------------------------
(***************************************************************************)
(* A tree of a package with a patch, a file of its category, a subtree of  *)
(* two levels and a file in the root; a package may get a README.          *)
(***************************************************************************)
EXTENDS Manifest, TLC

Readme == <<"cat", "pkg", "README">>
Ebuild == <<"cat", "pkg", "a.ebuild">>
MCFiles == {Readme, Ebuild, <<"cat", "pkg", "files", "patch">>, <<"cat", "metadata.xml">>,
            <<"header.txt">>, <<"profiles", "base", "use">>}
MCNames == <<"README", "a.ebuild", "base", "cat", "files", "header.txt",
             "metadata.xml", "patch", "pkg", "profiles", "use">>
MCNew == {Readme}
MCListed == {"a.ebuild", "ChangeLog", "metadata.xml"}
\* The threads do the same; no property is one of liveness.
MCSymmetry == Permutations(Threads)
=============================================================================
