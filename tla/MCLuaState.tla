----------------------------- MODULE MCLuaState -----------------------------
(***************************************************************************)
(* LuaState on a small instance, with a path of each depth.                *)
(***************************************************************************)
EXTENDS LuaState, TLC

CONSTANTS c1, c2

MCPaths == {<<"a">>, <<"a", "b">>, <<"a", "b", "c">>}
Symmetry == Permutations(Coroutines)
=============================================================================
