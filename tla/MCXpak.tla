------------------------------- MODULE MCXpak -------------------------------
(***************************************************************************)
(* Two directories share a name, a third has a directory in it; one name   *)
(* is too long for the reader, one is a dotfile, and three entries are too *)
(* many for its index.                                                     *)
(***************************************************************************)
EXTENDS Xpak

MCNameLen == <<1, 1, 3, 1>>
MCPaths == {<<1, 1>>, <<1, 2>>, <<1, 3>>, <<1, 4>>, <<2, 1>>, <<3, 1>>, <<3, 2>>}
MCSubdirs == {<<3, 1>>}
MCArguments == {<<<<1, 0>>>>, <<<<1, 2>>, <<1, 1>>>>, <<<<1, 0>>, <<2, 1>>>>, <<<<1, 1>>, <<2, 0>>>>,
                <<<<2, 0>>, <<3, 0>>>>}
MCSelections == {<<>>, <<1>>, <<2, 1>>}
MCContents == {<<>>, <<1>>, <<2, 3>>, <<1, 1, 1>>}
MCTrees ==
  {(<<1, 1>> :> a) @@ (<<1, 2>> :> b) @@ (<<2, 1>> :> <<2>>) @@ (<<1, 4>> :> <<1>>)
     @@ (<<3, 1>> :> <<>>) @@ (<<3, 2>> :> <<1>>) @@ x :
     a \in MCContents, b \in MCContents \ {<<>>}, x \in {<<>>, <<1, 3>> :> <<1>>}}
MCTarballs == {<<>>, <<5, 6>>}
=============================================================================
