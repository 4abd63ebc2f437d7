------------------------------ MODULE MCDepTree ----------------------------
(* Two words for DepTree: a plain one, and one with a USE conditional in it *)
(* whose signs are no tokens.                                              *)
EXTENDS DepTree

MCWords == {<<"a">>, <<"b", "[", "(", "?", "]">>}
=============================================================================
