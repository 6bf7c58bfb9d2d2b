---------------------------- MODULE MCLuaValues -----------------------------
(* Values of the constants of LuaValues for TLC.                           *)
EXTENDS LuaValues

CONSTANTS s1, s2, x, y, r, q, one, word, t, g, ud, ud2, null, alien, bare, f, th, udobj

GlobalOf == [s \in Interp |-> g]

(* ud and ud2 are two blocks with references to one object.                *)
BodyOf == [c \in Container |-> IF c \in {ud, ud2} THEN udobj ELSE c]
TargetOf == [v \in Own |-> IF v = null THEN 0 ELSE 8]
BlockOf == [v \in Table \cup AnyUd \cup Function \cup Thread |->
  CASE v = t -> 4 [] v = g -> 3 [] v = ud -> 2 [] v = ud2 -> 1 [] v = alien -> 5
    [] v = bare -> 6 [] v = f -> 7 [] v = th -> 8 [] OTHER -> 9]
RankOf == [v \in Number \cup Text |-> 1]

(* Two values and a reference to tables, userdata and values that are neither, or a value and two
   references. *)
FewKinds ==
  {{x, y, r} \cup kind : kind \in {{one, g}, {one, t}, {one, ud}, {ud, ud2}, {word, null}, {alien, f, th}}}
    \cup {{x, r, q} \cup kind : kind \in {{one, g}, {one, t}}}
Mishaps == {{x, y, r, word}, {x, y, r, bare}}
=============================================================================
