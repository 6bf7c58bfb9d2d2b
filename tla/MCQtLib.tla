------------------------------ MODULE MCQtLib -------------------------------
(***************************************************************************)
(* QtLib and ObjectWrapper on a small instance: programs of few kinds of   *)
(* operations.                                                             *)
(***************************************************************************)
EXTENDS QtLib, TLC

CONSTANTS o1, o2, o3, o4, w1, w2, w3, n1, n2, f1, s1

MCPrograms ==
  {[does |-> {"tree", "delete", "hold"}, objects |-> {o1, o2}, refs |-> 1],
   [does |-> {"tree", "entries"}, objects |-> {o1, o2, o3}, refs |-> 1],
   [does |-> {"signals", "tree", "delete"}, objects |-> {o1}, refs |-> 2],
   [does |-> {"tree", "iterate"}, objects |-> {o1, o2, o3}, refs |-> 1],
   [does |-> {"lib", "hold"}, objects |-> {o1, o2, o3}, refs |-> 1],
   [does |-> {"lib"}, objects |-> {o1, o3, o4}, refs |-> 1]}
Symmetry == Permutations({o1, o2}) \cup Permutations(Wrappers)
=============================================================================
