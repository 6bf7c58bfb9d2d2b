--------------------------- MODULE SharedObjects ---------------------------
(***************************************************************************)
(* What reference counting promises: an object that was made to be shared  *)
(* lives as long as something refers to it, or to a part of it, and dies   *)
(* once, when nothing does.  It says nothing of counters or threads.       *)
(***************************************************************************)
EXTENDS Integers

CONSTANTS Obj, Heap, Var, None

VARIABLES
  ref,    \* ref[v]: the object the variable v refers to, or None
  root,   \* root[o]: the object that o is a part of, or o
  state   \* state[o]: "new", "alive" or "dead"

vars == <<ref, root, state>>

Referred(o) == \E v \in Var : ref[v] # None /\ root[ref[v]] = o

Init ==
  /\ ref = [v \in Var |-> None]
  /\ root = [o \in Obj |-> o]
  /\ state = [o \in Obj |-> IF o \in Heap THEN "new" ELSE "alive"]

Create(v, o) ==
  /\ o \in Heap /\ state[o] = "new" /\ ref[v] = None
  /\ state' = [state EXCEPT ![o] = "alive"]
  /\ ref' = [ref EXCEPT ![v] = o]
  /\ UNCHANGED root

Refer(v, o) ==
  /\ state[root[o]] = "alive" /\ ref[v] = None
  /\ ref' = [ref EXCEPT ![v] = o]
  /\ UNCHANGED <<root, state>>

Forget(v) ==
  /\ ref' = [ref EXCEPT ![v] = None]
  /\ UNCHANGED <<root, state>>

Move(v, w) ==
  /\ ref[v] = None
  /\ ref' = [ref EXCEPT ![v] = ref[w], ![w] = None]
  /\ UNCHANGED <<root, state>>

(* m becomes a part of o, and so do its own parts.                         *)
Join(m, o) ==
  /\ m \notin Heap /\ root[m] = m /\ root[o] # m
  /\ ~ Referred(m)
  /\ root' = [x \in Obj |-> IF root[x] = m THEN root[o] ELSE root[x]]
  /\ UNCHANGED <<ref, state>>

Die(o) ==
  /\ o \in Heap /\ state[o] = "alive"
  /\ ~ Referred(o)
  /\ state' = [state EXCEPT ![o] = "dead"]
  /\ UNCHANGED <<ref, root>>

Next ==
  \/ \E v \in Var, o \in Obj : Create(v, o) \/ Refer(v, o)
  \/ \E v \in Var : Forget(v)
  \/ \E v, w \in Var : Move(v, w)
  \/ \E m, o \in Obj : Join(m, o)
  \/ \E o \in Obj : Die(o)

Spec == Init /\ [][Next]_vars /\ \A o \in Obj : WF_vars(Die(o))
=============================================================================
