------------------------------ MODULE RefCount ------------------------------
(***************************************************************************)
(* Ref and Refobj: smart pointers that count the references to an object   *)
(* in the object itself.                                                   *)
(*                                                                         *)
(* References are variables of a thread or fields of an object.  Threads   *)
(* use their own variables, and objects they refer to, without locks; the  *)
(* counter is changed by atomic instructions.  Dropping a reference takes  *)
(* two steps, the atomic decrement and what depends on its result, and an  *)
(* assignment drops what the variable referred to before it takes what it  *)
(* is assigned.                                                            *)
(*                                                                         *)
(* An object may delegate its counter to the object it is a member of.     *)
(***************************************************************************)
EXTENDS Integers, FiniteSets

CONSTANTS
  Thread,
  Obj,       \* the objects
  Heap,      \* those made with QTLUA_REFNEW; the others are never deleted
  Var,       \* the Ref variables
  Owner,     \* Owner[v]: the thread, or the allocated object, that v belongs to
  Delegates, \* the <<m, o>> for which m is delegated to o when one is constructed
  Careful,   \* whether what is assigned is held by more than the variable itself
  None

ASSUME RefAssumption ==
  /\ IsFiniteSet(Var)
  /\ Heap \subseteq Obj
  /\ Owner \in [Var -> Thread \cup Heap] /\ Thread \cap Obj = {}
  /\ Delegates \subseteq (Obj \ Heap) \X Obj
  /\ Careful \in BOOLEAN
  /\ Var \cap Obj = {} /\ None \notin Obj \cup Var

VARIABLES
  count,   \* count[o]: the counter in _state
  root,    \* root[o]: the object where the walk over delegates from o ends
  state,   \* state[o]: "new", "alive" or "dead", its memory being freed
  ref,     \* ref[v]: the object v refers to (_obj), or None
  drop,    \* drop[t]: after an atomic decrement, the object and the result
  dying,   \* dying[t]: the objects the destructors of which t runs
  assign   \* assign[t]: the assignment t runs, as <<variable, from>>

vars == <<count, root, state, ref, drop, dying, assign>>

NoDrop == [obj |-> None, n |-> 0]
NoAssign == [var |-> None, from |-> None]

Refers(v, o) == ref[v] # None /\ root[ref[v]] = o
Holders(o) == {v \in Var : Refers(v, o)}

Init ==
  /\ count = [o \in Obj |-> 0]
  /\ root = [o \in Obj |-> o]
  /\ state = [o \in Obj |-> IF o \in Heap THEN "new" ELSE "alive"]
  /\ ref = [v \in Var |-> None]
  /\ drop = [t \in Thread |-> NoDrop]
  /\ dying = [t \in Thread |-> {}]
  /\ assign = [t \in Thread |-> NoAssign]

-----------------------------------------------------------------------------
(* Steps of the counter.                                                   *)

(* _inc.                                                                   *)
Inc(o) == count' = [count EXCEPT ![root[o]] = @ + 1]

(* Mutant of Release: the walk over delegates is forgotten.                *)
ReleaseMember(t, v) ==
  LET o == ref[v] IN
  /\ count' = [count EXCEPT ![o] = IF @ = 0 THEN 0 ELSE @ - 1]
  /\ drop' = [drop EXCEPT ![t] = [obj |-> o, n |-> count'[o]]]
  /\ ref' = [ref EXCEPT ![v] = None]

(* The first step of _drop, the variable v having been set to null.        *)
Release(t, v) ==
  LET o == root[ref[v]] IN
  /\ count' = [count EXCEPT ![o] = @ - 1]
  /\ drop' = [drop EXCEPT ![t] = [obj |-> o, n |-> count[o] - 1]]
  /\ ref' = [ref EXCEPT ![v] = None]

(* delete, if the object is allocated and n is 0.                          *)
Deletion(t, n) ==
  LET o == drop[t].obj IN
  IF o \in Heap /\ n = 0
  THEN /\ state' = [state EXCEPT ![o] = "dead"]
       /\ dying' = [dying EXCEPT ![t] = @ \cup {o}]
  ELSE UNCHANGED <<state, dying>>

Checked(t) ==
  /\ drop[t].obj # None
  /\ drop' = [drop EXCEPT ![t] = NoDrop]
  /\ UNCHANGED <<count, root, ref, assign>>

(* Mutants of Check: the object is deleted a reference too early; it never *)
(* is.                                                                     *)
CheckEarly(t) == Checked(t) /\ Deletion(t, IF drop[t].n = 1 THEN 0 ELSE drop[t].n)
CheckNever(t) == Checked(t) /\ Deletion(t, drop[t].n + 1)

(* The second: REF_DELETE is read from the object again.  If its memory is *)
(* freed by then anything may be read, which matters only to a result of   *)
(* one, where ref_single of the freed object is called; it does nothing    *)
(* here, module ObjectWrapper has an object with another one.              *)
Check(t) == Checked(t) /\ Deletion(t, drop[t].n)

(* A destructor drops the references in the fields, and ends.              *)
DropField(t) ==
  /\ drop[t] = NoDrop
  /\ \E f \in Var : Owner[f] \in dying[t] /\ ref[f] # None /\ Release(t, f)
  /\ UNCHANGED <<root, state, dying, assign>>

Destroyed(t) ==
  /\ drop[t] = NoDrop /\ dying[t] # {}
  /\ \A f \in Var : Owner[f] \in dying[t] => ref[f] = None
  /\ dying' = [dying EXCEPT ![t] = {}]
  /\ UNCHANGED <<count, root, state, ref, drop, assign>>

-----------------------------------------------------------------------------
(* What a thread can reach without a data race: its own variables, and the *)
(* fields of the objects these refer to, to write if nobody else refers to *)
(* the object.  v is a variable not to be used on the way.                 *)

Path(t, o, v) == \E u \in Var \ {v} : Owner[u] = t /\ Refers(u, o)
Readable(t, w, v) == Owner[w] = t \/ (Owner[w] \in Obj /\ Path(t, Owner[w], v))
Writable(t, v) ==
  \/ Owner[v] = t
  \/ Owner[v] \in Obj /\ Path(t, Owner[v], v) /\ count[Owner[v]] = 1

(* An object a C++ reference can denote: one that is referred to, or one   *)
(* that is not deleted, be it as a member.                                 *)
Member == {d[1] : d \in Delegates}
Reachable(t, o, v) ==
  \/ root[o] \notin Heap \cup Member
  \/ \E w \in Var \ {v} : Readable(t, w, v) /\ Refers(w, root[o])

Idle(t) == drop[t] = NoDrop /\ dying[t] = {} /\ assign[t] = NoAssign

(* QTLUA_REFNEW and Ref::allocated.                                        *)
New(t, v, o) ==
  /\ Idle(t) /\ Owner[v] = t /\ ref[v] = None
  /\ o \in Heap /\ state[o] = "new"
  /\ state' = [state EXCEPT ![o] = "alive"]
  /\ ref' = [ref EXCEPT ![v] = o]
  /\ Inc(o)
  /\ UNCHANGED <<root, drop, dying, assign>>

(* ref_delegate, called by the constructor of m or of o, before anything   *)
(* can refer to m.  It asserts that m has no references, is not delegated  *)
(* and not allocated.                                                      *)
RefDelegate(t, m, o) ==
  /\ Idle(t) /\ <<m, o>> \in Delegates
  /\ state[root[o]] = "new" \/ root[o] \in Member \/ Reachable(t, o, None)
  /\ root[m] = m /\ count[m] = 0 /\ root[o] # m
  /\ root' = [x \in Obj |-> IF root[x] = m THEN root[o] ELSE root[x]]
  /\ UNCHANGED <<count, state, ref, drop, dying, assign>>

(* Ref(const Ref &) and Ref(X &): v is constructed from an object that is  *)
(* denoted by w or by a C++ reference.                                     *)
Construct(t, v, o) ==
  /\ Idle(t) /\ Writable(t, v) /\ ref[v] = None
  /\ Reachable(t, o, v)
  /\ ref' = [ref EXCEPT ![v] = o]
  /\ Inc(o)
  /\ UNCHANGED <<root, state, drop, dying, assign>>

(* A copy that another thread is given, while it waits for it.             *)
Give(t, w, u, v) ==
  /\ t # u /\ Idle(t) /\ Idle(u)
  /\ Owner[w] = t /\ Owner[v] = u
  /\ ref[w] # None /\ ref[v] = None
  /\ ref' = [ref EXCEPT ![v] = ref[w]]
  /\ Inc(ref[w])
  /\ UNCHANGED <<root, state, drop, dying, assign>>

(* Ref(Ref &&), and operator=(Ref &&) once v is empty.                     *)
MoveRef(t, v, w) ==
  /\ Idle(t) /\ v # w /\ Writable(t, v) /\ Writable(t, w)
  /\ ref[v] = None /\ ref[w] # None
  /\ ref' = [ref EXCEPT ![v] = ref[w], ![w] = None]
  /\ UNCHANGED <<count, root, state, drop, dying, assign>>

(* ~Ref and invalidate.                                                    *)
Invalidate(t, v) ==
  /\ Idle(t) /\ Writable(t, v) /\ ref[v] # None
  /\ Release(t, v)
  /\ UNCHANGED <<root, state, dying, assign>>

(* operator=, to a variable v that refers to something: first it is set to *)
(* null and its object is dropped, ...                                     *)
AssignDrop(t, v, from) ==
  /\ Idle(t) /\ Writable(t, v) /\ ref[v] # None
  /\ \/ from \in Var /\ Readable(t, from, IF Careful THEN v ELSE None)
     \/ from \in Obj /\ Reachable(t, from, IF Careful THEN v ELSE None)
  /\ Release(t, v)
  /\ assign' = [assign EXCEPT ![t] = [var |-> v, from |-> from]]
  /\ UNCHANGED <<root, state, dying>>

(* ..., then it takes the variable or object it is assigned.               *)
AssignTake(t) ==
  LET v == assign[t].var
      from == assign[t].from
      o == IF from \in Var THEN ref[from] ELSE from
  IN  /\ v # None /\ drop[t] = NoDrop /\ dying[t] = {}
      /\ ref' = [ref EXCEPT ![v] = o]
      /\ IF o = None THEN UNCHANGED count ELSE Inc(o)
      /\ assign' = [assign EXCEPT ![t] = NoAssign]
      /\ UNCHANGED <<root, state, drop, dying>>

Step(t) ==
  \/ Check(t) \/ DropField(t) \/ Destroyed(t) \/ AssignTake(t)

Next ==
  \E t \in Thread :
    \/ Step(t)
    \/ \E v \in Var, o \in Obj : New(t, v, o) \/ Construct(t, v, o)
    \/ \E m, o \in Obj : RefDelegate(t, m, o)
    \/ \E u \in Thread, v, w \in Var : Give(t, w, u, v)
    \/ \E v, w \in Var : MoveRef(t, v, w)
    \/ \E v \in Var : Invalidate(t, v)
    \/ \E v \in Var, from \in Var \cup Obj : AssignDrop(t, v, from)

Spec == Init /\ [][Next]_vars

(* A thread that has begun to drop or assign a reference ends it.          *)
FairSpec == Spec /\ \A t \in Thread : WF_vars(Step(t))

-----------------------------------------------------------------------------
TypeOK ==
  /\ count \in [Obj -> Nat]
  /\ root \in [Obj -> Obj]
  /\ state \in [Obj -> {"new", "alive", "dead"}]
  /\ ref \in [Var -> Obj \cup {None}]
  /\ drop \in [Thread -> [obj : Obj \cup {None}, n : Int]]
  /\ dying \in [Thread -> SUBSET Obj]
  /\ assign \in [Thread -> [var : Var \cup {None}, from : Var \cup Obj \cup {None}]]

(* The counter is exact at every moment, for any interleaving of threads:  *)
(* it is the number of references to the object and to the objects that    *)
(* delegate to it.                                                         *)
CountExact == \A o \in Obj : count[o] = Cardinality(Holders(o))

(* What is referred to lives: no reference is left when an object is       *)
(* deleted, be it a reference to a member.                                 *)
ReferredAlive == \A v \in Var : ref[v] # None => state[root[ref[v]]] = "alive"

Deletes(t, o) == drop[t] = [obj |-> o, n |-> 0]

(* Two threads never delete the same object, and none is left behind: a    *)
(* thread that is about to delete an object is alone and nothing refers to *)
(* the object, and an object nothing refers to has such a thread.          *)
DeletedOnce ==
  \A o \in Heap :
    /\ \A t, u \in Thread :
         Deletes(t, o) => state[o] = "alive" /\ Holders(o) = {} /\ (Deletes(u, o) => u = t)
    /\ state[o] = "alive" /\ Holders(o) = {} => \E t \in Thread : Deletes(t, o)

(* No thread reads an object the memory of which is freed.                 *)
NoUseAfterFree ==
  \A t \in Thread :
    /\ drop[t].obj # None => state[drop[t].obj] # "dead"
    /\ LET from == assign[t].from
       IN  from # None =>
             /\ from \in Obj => state[root[from]] # "dead"
             /\ from \in Var /\ Owner[from] \in Obj => state[Owner[from]] # "dead"

Shared == INSTANCE SharedObjects
(* The objects live and die as SharedObjects promises, whatever threads    *)
(* do, and what nothing refers to does die.                                *)
ImplementsShared == Shared!Spec
=============================================================================
