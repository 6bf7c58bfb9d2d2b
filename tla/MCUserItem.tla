----------------------------- MODULE MCUserItem -----------------------------
(* Values of the constants of UserItem for TLC: a root list r, a list l    *)
(* and leaves a, b and c.                                                  *)
EXTENDS UserItem

CONSTANTS r, l, a, b, c, x, y, z, w, bad, m1, m2, v1, v2

AllAccepted == List \X Item
Rejecting == AllAccepted \ {<<l, b>>}
NoViews == [v \in {} |-> m1]
OneView == [v \in {v1} |-> m1]
TwoViews == [v \in {v1, v2} |-> m1]

(* All items want the same name: one is given as a string that is not an   *)
(* identifier.                                                             *)
SameName == [i \in Item |-> IF i = b THEN bad ELSE <<x, 0>>]
MangleBad == [s \in {bad} |-> <<x, 0>>]
TypedNames == {<<x, 0>>}

(* The names of the items never collide.                                   *)
OwnName == [i \in Item |-> IF i = a THEN <<x, 0>> ELSE IF i = b THEN <<y, 0>> ELSE
                       IF i = c THEN <<w, 0>> ELSE <<z, 0>>]
NoMangle == [s \in {} |-> <<x, 0>>]
=============================================================================
