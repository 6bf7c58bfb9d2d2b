----------------------------- MODULE MCRefCount -----------------------------
(* Values of the constants of RefCount for TLC: the threads s and t, each  *)
(* with variables, an object p with a field pf, an object q, and a member  *)
(* k of p, which has a member m.                                           *)
EXTENDS RefCount

CONSTANTS s, t, s1, s2, t1, pf, p, q, m, k

Owners == [v \in Var |-> IF v = pf THEN p ELSE IF v \in {s1, s2} THEN s ELSE t]
MemberOfMember == {<<m, k>>, <<k, p>>}
=============================================================================
