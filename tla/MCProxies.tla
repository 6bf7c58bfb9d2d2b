----------------------------- MODULE MCProxies ------------------------------
(***************************************************************************)
(* Proxies on a small instance: keys 0 to 3, and two properties of which   *)
(* one cannot be read.                                                     *)
(***************************************************************************)
EXTENDS Proxies, TLC

CONSTANTS p1, p2, v1, v2

MCPrograms ==
  {{"vector", "list"}, {"vector", "object"}, {"array", "object", "hash"}}
MCMasks == {{"index", "newindex", "iterate"}, {"index", "iterate"}}
=============================================================================
