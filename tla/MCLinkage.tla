----------------------------- MODULE MCLinkage ------------------------------
(* Units with declarations of the variable x and of functions.             *)
EXTENDS Linkage
MCParameterLists == {<<>>, <<"x">>}
=============================================================================
