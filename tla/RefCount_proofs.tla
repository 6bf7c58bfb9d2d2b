-------------------------- MODULE RefCount_proofs --------------------------
(***************************************************************************)
(* Proofs that counters are exact, that what is referred to lives, and     *)
(* that objects are deleted once, for any threads, objects and variables.  *)
(***************************************************************************)
EXTENDS RefCount, FiniteSetTheorems, TLAPS

(* Delegation ends at an object that does not delegate; allocated objects  *)
(* do not delegate, and only they die.                                     *)
RootsAgree ==
  /\ \A o \in Obj : root[root[o]] = root[o]
  /\ \A o \in Heap : root[o] = o
  /\ \A o \in Obj \ Heap : state[o] = "alive"

(* The fields that a destructor drops are those of dead objects.           *)
DyingDead == \A t \in Thread : dying[t] \subseteq {o \in Heap : state[o] = "dead"}

(* While a thread drops what a variable referred to, the variable is its   *)
(* to write, and it can still reach what it is to assign.                  *)
AssignSafe(t) ==
  LET v == assign[t].var
      from == assign[t].from
  IN  \/ assign[t] = NoAssign
      \/ /\ v \in Var /\ Writable(t, v) /\ ref[v] = None
         /\ \/ from \in Var /\ Readable(t, from, v)
            \/ from \in Obj /\ Reachable(t, from, v)

IInv ==
  /\ TypeOK /\ CountExact /\ ReferredAlive /\ DeletedOnce
  /\ RootsAgree /\ DyingDead
  /\ \A t \in Thread : AssignSafe(t)

-----------------------------------------------------------------------------
(* The sets of references to an object.                                    *)

LEMMA HoldersFinite ==
  ASSUME NEW o
  PROVE  IsFiniteSet(Holders(o))
BY FS_Subset, RefAssumption DEF Holders

(* An object with a count of one has only one holder.                      *)
LEMMA OnlyHolder ==
  ASSUME TypeOK, CountExact, NEW o \in Obj, count[o] = 1,
         NEW u \in Var, NEW w \in Var, Refers(u, o), Refers(w, o)
  PROVE  u = w
<1>1. IsFiniteSet(Holders(o)) /\ Cardinality(Holders(o)) = 1
  BY HoldersFinite DEF CountExact
<1>2. PICK x : Holders(o) = {x}
  BY <1>1, FS_Singleton
<1>3. u \in Holders(o) /\ w \in Holders(o)
  BY DEF Holders
<1> QED BY <1>2, <1>3

(* The first step of _drop takes one holder from one object.               *)
LEMMA ReleaseExact ==
  ASSUME TypeOK, CountExact, RootsAgree,
         NEW t \in Thread, NEW v \in Var, ref[v] # None, Release(t, v), root' = root
  PROVE  /\ \A o \in Obj : Holders(o)' = Holders(o) \ {v}
         /\ \A o \in Obj : o # root[ref[v]] => Holders(o)' = Holders(o) /\ count'[o] = count[o]
         /\ CountExact'
         /\ count' \in [Obj -> Nat]
         /\ ref' \in [Var -> Obj \cup {None}]
         /\ drop' = [drop EXCEPT ![t] = [obj |-> root[ref[v]], n |-> count'[root[ref[v]]]]]
<1> DEFINE r == root[ref[v]]
<1>1. r \in Obj /\ ref[v] \in Obj
  BY DEF TypeOK
<1>2. \A o \in Obj : Holders(o)' = Holders(o) \ {v}
  BY DEF Release, TypeOK, Holders, Refers
<1>3. \A o \in Obj : o # r => v \notin Holders(o)
  BY DEF Holders, Refers
<1>4. v \in Holders(r)
  BY DEF Holders, Refers
<1>5. \A o \in Obj : count[o] = Cardinality(Holders(o)) /\ IsFiniteSet(Holders(o))
  BY HoldersFinite DEF CountExact
<1>6. \A o \in Obj : Cardinality(Holders(o)') = IF o = r THEN count[o] - 1 ELSE count[o]
  <2> TAKE o \in Obj
  <2>1. Cardinality(Holders(o) \ {v}) = IF v \in Holders(o) THEN Cardinality(Holders(o)) - 1
                                                           ELSE Cardinality(Holders(o))
    BY <1>5, FS_RemoveElement
  <2> QED BY <2>1, <1>2, <1>3, <1>4, <1>5
<1>7. \A o \in Obj : Cardinality(Holders(o)') \in Nat
  <2> TAKE o \in Obj
  <2>1. IsFiniteSet(Holders(o) \ {v})
    BY <1>5, FS_RemoveElement
  <2> QED BY <2>1, <1>2, FS_CardinalityType
<1>8. count' = [count EXCEPT ![r] = @ - 1]
  BY DEF Release
<1>9. \A o \in Obj : count'[o] = Cardinality(Holders(o)')
  BY <1>1, <1>6, <1>8 DEF TypeOK
<1>10. CountExact'
  BY <1>9 DEF CountExact
<1>11. count' \in [Obj -> Nat]
  BY <1>7, <1>8, <1>9 DEF TypeOK
<1>12. \A o \in Obj : o # r => Holders(o)' = Holders(o) /\ count'[o] = count[o]
  <2> SUFFICES ASSUME NEW o \in Obj, o # r
               PROVE  Holders(o)' = Holders(o) /\ count'[o] = count[o]
    OBVIOUS
  <2>1. Holders(o)' = Holders(o) \ {v} /\ v \notin Holders(o)
    BY <1>2, <1>3
  <2>2. count'[o] = count[o]
    BY <1>1, <1>8 DEF TypeOK
  <2> QED BY <2>1, <2>2
<1>13. drop' = [drop EXCEPT ![t] = [obj |-> r, n |-> count'[r]]]
  BY <1>1, <1>8 DEF Release, TypeOK
<1>14. ref' \in [Var -> Obj \cup {None}]
  BY DEF Release, TypeOK
<1> QED BY <1>2, <1>10, <1>11, <1>12, <1>13, <1>14

(* Taking a reference adds one holder to one object.                       *)
LEMMA TakeExact ==
  ASSUME TypeOK, CountExact, NEW v \in Var, NEW x \in Obj, ref[v] = None,
         ref' = [ref EXCEPT ![v] = x], Inc(x), root' = root
  PROVE  /\ \A o \in Obj : Holders(o)' = IF o = root[x] THEN Holders(o) \cup {v} ELSE Holders(o)
         /\ \A o \in Obj : o # root[x] => count'[o] = count[o]
         /\ CountExact'
         /\ count' \in [Obj -> Nat]
         /\ ref' \in [Var -> Obj \cup {None}]
<1>1. root[x] \in Obj /\ None \notin Obj
  BY RefAssumption DEF TypeOK
<1>2. \A o \in Obj : Holders(o)' = IF o = root[x] THEN Holders(o) \cup {v} ELSE Holders(o)
  BY <1>1 DEF TypeOK, Holders, Refers
<1>3. \A o \in Obj : v \notin Holders(o)
  BY DEF Holders, Refers
<1>4. \A o \in Obj : count[o] = Cardinality(Holders(o)) /\ IsFiniteSet(Holders(o))
  BY HoldersFinite DEF CountExact
<1>5. \A o \in Obj : Cardinality(Holders(o)') = IF o = root[x] THEN count[o] + 1 ELSE count[o]
  <2> TAKE o \in Obj
  <2>1. Cardinality(Holders(o) \cup {v}) = Cardinality(Holders(o)) + 1
    BY <1>3, <1>4, FS_AddElement
  <2> QED BY <2>1, <1>2, <1>4
<1>6. count' = [count EXCEPT ![root[x]] = @ + 1]
  BY DEF Inc
<1>7. \A o \in Obj : count'[o] = Cardinality(Holders(o)')
  BY <1>1, <1>5, <1>6 DEF TypeOK
<1>8. CountExact'
  BY <1>7 DEF CountExact
<1>9. count' \in [Obj -> Nat]
  BY <1>1, <1>6 DEF TypeOK
<1> QED BY <1>1, <1>2, <1>6, <1>8, <1>9 DEF TypeOK

-----------------------------------------------------------------------------
(* A thread in the middle of an assignment keeps what it can reach.        *)

(* What a step may do to such a thread t: it leaves the variables of t     *)
(* alone, the fields of the objects that t refers to, and those objects    *)
(* which have no other reference, and delegates only what is not used.     *)
Leaves(t) ==
  /\ \A u \in Var : Owner[u] = t => ref'[u] = ref[u]
  /\ \A f \in Var : Owner[f] \in Obj /\ Path(t, Owner[f], None) => ref'[f] = ref[f]
  /\ \A o \in Heap : Path(t, o, None) /\ count[o] = 1 => count'[o] = 1
  /\ \A o \in Obj : root'[o] = root[o] \/ (root[o] \in Member /\ Holders(root[o]) = {})

LEMMA PathWeakens ==
  ASSUME NEW t, NEW o, NEW v, Path(t, o, v)
  PROVE  Path(t, o, None)
BY RefAssumption DEF Path

LEMMA RefersStays ==
  ASSUME TypeOK, NEW u \in Var, NEW o \in Obj, Refers(u, o), ref'[u] = ref[u],
         \A x \in Obj : root'[x] = root[x] \/ (root[x] \in Member /\ Holders(root[x]) = {})
  PROVE  Refers(u, o)'
<1>1. ref[u] \in Obj /\ root[ref[u]] = o
  BY DEF Refers, TypeOK
<1>2. u \in Holders(o)
  BY DEF Holders
<1>3. root'[ref[u]] = root[ref[u]]
  BY <1>1, <1>2
<1> QED BY <1>1, <1>3 DEF Refers

LEMMA PathStays ==
  ASSUME TypeOK, NEW t \in Thread, Leaves(t), NEW o \in Obj, NEW v, Path(t, o, v)
  PROVE  Path(t, o, v)'
<1>1. PICK u \in Var \ {v} : Owner[u] = t /\ Refers(u, o)
  BY DEF Path
<1>2. Refers(u, o)'
  BY <1>1, RefersStays DEF Leaves
<1> QED BY <1>1, <1>2 DEF Path

LEMMA ReadableStays ==
  ASSUME TypeOK, NEW t \in Thread, Leaves(t), NEW w \in Var, NEW v, Readable(t, w, v)
  PROVE  Readable(t, w, v)' /\ ref'[w] = ref[w]
<1>1. CASE Owner[w] = t
  BY <1>1 DEF Readable, Leaves
<1>2. CASE Owner[w] \in Obj /\ Path(t, Owner[w], v)
  BY <1>2, PathStays, PathWeakens DEF Readable, Leaves
<1> QED BY <1>1, <1>2 DEF Readable

LEMMA AssignStays ==
  ASSUME IInv, NEW t \in Thread, Leaves(t), assign'[t] = assign[t]
  PROVE  AssignSafe(t)'
<1> DEFINE v == assign[t].var
           from == assign[t].from
<1> USE DEF IInv
<1>1. CASE assign[t] = NoAssign
  BY <1>1 DEF AssignSafe
<1>2. CASE assign[t] # NoAssign
  <2>1. v \in Var /\ Writable(t, v) /\ ref[v] = None
    BY <1>2 DEF AssignSafe
  <2>2. Writable(t, v)' /\ ref'[v] = None
    <3>1. CASE Owner[v] = t
      BY <2>1, <3>1 DEF Writable, Leaves
    <3>2. CASE Owner[v] \in Obj /\ Path(t, Owner[v], v) /\ count[Owner[v]] = 1
      <4>1. Owner[v] \in Heap
        BY <2>1, <3>2, RefAssumption
      <4>2. Path(t, Owner[v], None)
        BY <3>2, PathWeakens
      <4>3. Path(t, Owner[v], v)'
        BY <3>2, PathStays
      <4>4. count'[Owner[v]] = 1 /\ ref'[v] = ref[v]
        BY <2>1, <3>2, <4>1, <4>2 DEF Leaves
      <4> QED BY <2>1, <3>2, <4>3, <4>4 DEF Writable
    <3> QED BY <2>1, <3>1, <3>2 DEF Writable
  <2>3. CASE from \in Var /\ Readable(t, from, v)
    <3>1. Readable(t, from, v)'
      BY <2>3, ReadableStays
    <3> QED BY <2>1, <2>2, <2>3, <3>1 DEF AssignSafe
  <2>4. CASE from \in Obj /\ Reachable(t, from, v)
    <3>1. Reachable(t, from, v)'
      <4>1. CASE root[from] \notin Heap \cup Member
        BY <2>4, <4>1 DEF Leaves, Reachable
      <4>2. ASSUME NEW w \in Var \ {v}, Readable(t, w, v), Refers(w, root[from])
            PROVE  Reachable(t, from, v)'
        <5>1. Readable(t, w, v)' /\ ref'[w] = ref[w]
          BY <4>2, ReadableStays
        <5>2. root[from] \in Obj /\ w \in Holders(root[from])
          BY <2>4, <4>2 DEF TypeOK, Holders
        <5>3. TypeOK /\ w \in Var
          OBVIOUS
        <5>4. \A x \in Obj : root'[x] = root[x] \/ (root[x] \in Member /\ Holders(root[x]) = {})
          BY DEF Leaves
        <5>5. root'[from] = root[from]
          BY <2>4, <5>2, <5>4
        <5>6. ASSUME NEW r \in Obj, r = root[from] PROVE Refers(w, r)'
          BY <4>2, <5>1, <5>2, <5>3, <5>4, <5>6, RefersStays
        <5>7. Refers(w, root[from])'
          BY <5>2, <5>5, <5>6 DEF Refers
        <5> QED BY <5>1, <5>7 DEF Reachable
      <4> QED BY <2>4, <4>1, <4>2 DEF Reachable
    <3> QED BY <2>1, <2>2, <2>4, <3>1 DEF AssignSafe
  <2> QED BY <1>2, <2>3, <2>4 DEF AssignSafe
<1> QED BY <1>1, <1>2

(* The variables that a step of u may write while t is busy: its own, those*)
(* of an idle thread, the fields it may write, those it destroys.          *)
Writes(u, y) ==
  \/ Owner[y] = u \/ (Owner[y] \in Thread /\ Idle(Owner[y])) \/ Writable(u, y)
  \/ Owner[y] \in dying[u]

(* They are none of those that a busy thread relies on.                    *)
LEMMA WritesApart ==
  ASSUME IInv, NEW t \in Thread, NEW u \in Thread, NEW y \in Var,
         assign[t] # NoAssign, Writes(u, y),
         u # t \/ Owner[y] \in dying[u]
  PROVE  Owner[y] # t /\ ~ (Owner[y] \in Obj /\ Path(t, Owner[y], None))
<1> USE DEF IInv
<1>1. ~ Idle(t)
  BY DEF Idle
<1>2. Owner[y] # t
  <2>1. Thread \cap Obj = {} /\ Heap \subseteq Obj
    BY RefAssumption
  <2>2. dying[u] \subseteq Heap
    BY DEF DyingDead
  <2> QED BY <1>1, <2>1, <2>2 DEF Writes, Writable
<1>3. ASSUME Owner[y] \in Obj, Path(t, Owner[y], None)
      PROVE  FALSE
  <2>1. PICK w \in Var : Owner[w] = t /\ Refers(w, Owner[y])
    BY <1>3 DEF Path
  <2>2. Owner[y] \notin Thread
    BY <1>3, RefAssumption
  <2>3. CASE Owner[y] \in dying[u]
    <3>1. state[Owner[y]] = "dead"
      BY <2>3 DEF DyingDead
    <3>2. state[Owner[y]] = "alive"
      BY <2>1 DEF ReferredAlive, Refers
    <3> QED BY <3>1, <3>2
  <2>4. CASE u # t /\ Writable(u, y)
    <3>1. Owner[y] # u
      BY <2>2
    <3>2. PICK x \in Var : Owner[x] = u /\ Refers(x, Owner[y])
      BY <2>4, <3>1 DEF Writable, Path
    <3>3. count[Owner[y]] = 1
      BY <2>4, <3>1 DEF Writable
    <3>4. x = w
      BY <1>3, <2>1, <3>2, <3>3, OnlyHolder
    <3> QED BY <2>1, <2>4, <3>2, <3>4
  <2> QED BY <2>2, <2>3, <2>4 DEF Writes
<1> QED BY <1>2, <1>3

(* A release by another thread, or of the field of a dead object, leaves a *)
(* thread that is busy what it relies on.                                  *)
LEMMA ReleaseLeaves ==
  ASSUME IInv, NEW t \in Thread, NEW u \in Thread, NEW y \in Var, ref[y] # None,
         assign[t] # NoAssign, Writes(u, y), u # t \/ Owner[y] \in dying[u],
         Release(u, y), root' = root
  PROVE  Leaves(t)
<1> USE DEF IInv
<1>1. Owner[y] # t /\ ~ (Owner[y] \in Obj /\ Path(t, Owner[y], None))
  BY WritesApart
<1>2. \A w \in Var : w # y => ref'[w] = ref[w]
  BY DEF Release, TypeOK
<1>3. ASSUME NEW o \in Heap, Path(t, o, None), count[o] = 1
      PROVE  count'[o] = 1
  <2>1. PICK w \in Var : Owner[w] = t /\ Refers(w, o)
    BY <1>3 DEF Path
  <2>2. o \in Obj /\ w # y
    BY <1>1, <2>1, RefAssumption
  <2>3. ~ Refers(y, o)
    BY <1>3, <2>1, <2>2, OnlyHolder
  <2>4. o # root[ref[y]]
    BY <2>3 DEF Refers
  <2> QED BY <1>3, <2>2, <2>4, ReleaseExact
<1> QED BY <1>1, <1>2, <1>3 DEF Leaves

(* So does a reference that another thread takes to something it reaches.  *)
LEMMA TakeLeaves ==
  ASSUME IInv, NEW t \in Thread, NEW u \in Thread, u # t, NEW y \in Var, NEW x \in Obj,
         ref[y] = None, assign[t] # NoAssign, Writes(u, y),
         ref' = [ref EXCEPT ![y] = x], Inc(x), root' = root,
         \/ root[x] \notin Heap
         \/ state[root[x]] = "new"
         \/ \E w \in Var : Readable(u, w, None) /\ Refers(w, root[x])
  PROVE  Leaves(t)
<1> USE DEF IInv
<1>1. Owner[y] # t /\ ~ (Owner[y] \in Obj /\ Path(t, Owner[y], None))
  <2>1. CASE Owner[y] \in dying[u]
    BY <2>1, WritesApart
  <2>2. CASE Owner[y] \notin dying[u]
    BY <2>2, WritesApart
  <2> QED BY <2>1, <2>2
<1>2. \A w \in Var : w # y => ref'[w] = ref[w]
  BY DEF TypeOK
<1>3. ASSUME NEW o \in Heap, Path(t, o, None), count[o] = 1
      PROVE  count'[o] = 1
  <2>1. PICK w \in Var : Owner[w] = t /\ Refers(w, o)
    BY <1>3 DEF Path
  <2>2. o \in Obj /\ state[o] = "alive"
    BY <2>1, RefAssumption DEF ReferredAlive, Refers
  <2>3. ASSUME NEW z \in Var, Readable(u, z, None), Refers(z, o)
        PROVE  FALSE
    <3>1. z = w
      BY <1>3, <2>1, <2>2, <2>3, OnlyHolder
    <3>2. Owner[w] = u \/ Owner[w] \in Obj
      BY <2>3, <3>1 DEF Readable
    <3> QED BY <2>1, <3>2, RefAssumption
  <2>4. o # root[x]
    BY <2>2, <2>3
  <2> QED BY <1>3, <2>2, <2>4, TakeExact
<1> QED BY <1>1, <1>2, <1>3 DEF Leaves

-----------------------------------------------------------------------------
(* The invariant but for AssignSafe, after each kind of step.              *)

Counted ==
  CountExact /\ ReferredAlive /\ DeletedOnce /\ RootsAgree /\ DyingDead

LEMMA ReleaseCounted ==
  ASSUME IInv, NEW u \in Thread, NEW y \in Var, ref[y] # None, drop[u] = NoDrop,
         Release(u, y), UNCHANGED <<root, state, dying>>
  PROVE  /\ Counted'
         /\ count' \in [Obj -> Nat] /\ ref' \in [Var -> Obj \cup {None}]
         /\ drop' \in [Thread -> [obj : Obj \cup {None}, n : Int]]
<1> DEFINE r == root[ref[y]]
<1> USE DEF IInv
<1>1. r \in Obj /\ ref[y] \in Obj
  BY DEF TypeOK
<1>2. /\ \A o \in Obj : Holders(o)' = Holders(o) \ {y}
      /\ \A o \in Obj : o # r => Holders(o)' = Holders(o) /\ count'[o] = count[o]
      /\ CountExact' /\ count' \in [Obj -> Nat] /\ ref' \in [Var -> Obj \cup {None}]
      /\ drop' = [drop EXCEPT ![u] = [obj |-> r, n |-> count'[r]]]
  BY ReleaseExact
<1>3. drop' \in [Thread -> [obj : Obj \cup {None}, n : Int]]
  BY <1>1, <1>2 DEF TypeOK
<1>4. ReferredAlive'
  BY DEF ReferredAlive, Release, TypeOK
<1>5. RootsAgree' /\ DyingDead'
  BY DEF RootsAgree, DyingDead
<1>6. \A o \in Heap, t \in Thread : t # u => (Deletes(t, o)' <=> Deletes(t, o))
  BY <1>2 DEF Deletes, TypeOK
<1>7. \A o \in Obj : count'[o] = 0 <=> Holders(o)' = {}
  <2> TAKE o \in Obj
  <2>1. count'[o] = Cardinality(Holders(o)')
    BY <1>2 DEF CountExact
  <2>2. IsFiniteSet(Holders(o)')
    BY FS_Subset, RefAssumption DEF Holders
  <2> QED BY <2>1, <2>2, FS_EmptySet
<1>8. DeletedOnce'
  <2> SUFFICES ASSUME NEW o \in Heap
        PROVE  /\ \A t, w \in Thread : Deletes(t, o)' =>
                    state[o] = "alive" /\ Holders(o)' = {} /\ (Deletes(w, o)' => w = t)
               /\ state[o] = "alive" /\ Holders(o)' = {} => \E t \in Thread : Deletes(t, o)'
    BY DEF DeletedOnce
  <2>0. o \in Obj
    BY RefAssumption
  <2>1. CASE o = r
    <3>1. y \in Holders(r)
      BY DEF Holders, Refers
    <3>2. state[r] = "alive"
      BY DEF ReferredAlive
    <3>3. \A t \in Thread : ~ Deletes(t, o)
      BY <2>1, <3>1 DEF DeletedOnce
    <3>4. Deletes(u, o)' <=> Holders(o)' = {}
      <4>1. drop'[u] = [obj |-> r, n |-> count'[r]]
        BY <1>2 DEF TypeOK
      <4>2. Deletes(u, o)' <=> count'[o] = 0
        BY <2>1, <4>1 DEF Deletes
      <4> QED BY <2>0, <4>2, <1>7
    <3>5. \A t \in Thread : t # u => ~ Deletes(t, o)'
      BY <1>6, <3>3
    <3> QED BY <2>1, <3>2, <3>4, <3>5
  <2>2. CASE o # r
    <3>1. Holders(o)' = Holders(o)
      BY <1>2, <2>0, <2>2
    <3>2. ~ Deletes(u, o)
      BY RefAssumption, <2>0 DEF Deletes, NoDrop
    <3>3. \A t \in Thread : Deletes(t, o)' <=> Deletes(t, o)
      <4>1. drop'[u] = [obj |-> r, n |-> count'[r]]
        BY <1>2 DEF TypeOK
      <4>2. ~ Deletes(u, o)'
        BY <2>2, <4>1 DEF Deletes
      <4> QED BY <1>6, <3>2, <4>2
    <3> QED BY <3>1, <3>3 DEF DeletedOnce
  <2> QED BY <2>1, <2>2
<1> QED BY <1>2, <1>3, <1>4, <1>5, <1>8 DEF Counted

(* A reference is taken to an object that is alive and, if it is one that  *)
(* is deleted, has a reference already.                                    *)
LEMMA TakeCounted ==
  ASSUME IInv, NEW y \in Var, NEW x \in Obj, ref[y] = None,
         ref' = [ref EXCEPT ![y] = x], Inc(x),
         state[root[x]] = "alive", root[x] \in Heap => Holders(root[x]) # {},
         UNCHANGED <<root, state, drop, dying>>
  PROVE  Counted' /\ count' \in [Obj -> Nat] /\ ref' \in [Var -> Obj \cup {None}]
<1> USE DEF IInv
<1>1. /\ \A o \in Obj : Holders(o)' = IF o = root[x] THEN Holders(o) \cup {y} ELSE Holders(o)
      /\ CountExact' /\ count' \in [Obj -> Nat] /\ ref' \in [Var -> Obj \cup {None}]
  BY TakeExact
<1>2. ReferredAlive'
  BY DEF ReferredAlive, TypeOK
<1>3. RootsAgree' /\ DyingDead'
  BY DEF RootsAgree, DyingDead
<1>4. \A o \in Heap : Holders(o)' = {} <=> Holders(o) = {}
  <2> SUFFICES ASSUME NEW o \in Heap PROVE Holders(o)' = {} <=> Holders(o) = {}
    OBVIOUS
  <2>1. Holders(o)' = IF o = root[x] THEN Holders(o) \cup {y} ELSE Holders(o)
    BY <1>1, RefAssumption
  <2> QED BY <2>1
<1>5. DeletedOnce'
  <2>1. \A o \in Heap, t \in Thread : Deletes(t, o)' <=> Deletes(t, o)
    BY DEF Deletes
  <2> QED BY <1>4, <2>1 DEF DeletedOnce
<1> QED BY <1>1, <1>2, <1>3, <1>5 DEF Counted

(* A C++ reference denotes an object that is alive and has a reference, if *)
(* it is one that is deleted.                                              *)
LEMMA ReachableAlive ==
  ASSUME IInv, NEW t \in Thread, NEW x \in Obj, NEW v, Reachable(t, x, v)
  PROVE  /\ state[root[x]] = "alive"
         /\ root[x] \in Heap => Holders(root[x]) # {}
         /\ \/ root[x] \notin Heap
            \/ \E w \in Var : Readable(t, w, None) /\ Refers(w, root[x])
<1> USE DEF IInv
<1>1. CASE root[x] \notin Heap \cup Member
  BY <1>1 DEF TypeOK, RootsAgree
<1>2. CASE \E w \in Var \ {v} : Readable(t, w, v) /\ Refers(w, root[x])
  <2>1. PICK w \in Var : Readable(t, w, v) /\ Refers(w, root[x])
    BY <1>2
  <2>2. state[root[x]] = "alive"
    BY <2>1 DEF ReferredAlive, Refers
  <2>3. w \in Holders(root[x])
    BY <2>1 DEF Holders
  <2>4. Readable(t, w, None)
    BY <2>1, PathWeakens DEF Readable
  <2> QED BY <2>1, <2>2, <2>3, <2>4
<1> QED BY <1>1, <1>2 DEF Reachable

(* The second step of _drop.                                               *)
LEMMA CheckCounted ==
  ASSUME IInv, NEW u \in Thread, Check(u)
  PROVE  Counted' /\ TypeOK'
<1> DEFINE o == drop[u].obj
<1> USE DEF IInv
<1>1. /\ o # None /\ drop' = [drop EXCEPT ![u] = NoDrop]
      /\ UNCHANGED <<count, root, ref, assign>>
      /\ IF o \in Heap /\ drop[u].n = 0
         THEN /\ state' = [state EXCEPT ![o] = "dead"]
              /\ dying' = [dying EXCEPT ![u] = @ \cup {o}]
         ELSE UNCHANGED <<state, dying>>
  BY DEF Check, Checked, Deletion
<1>2. CountExact' /\ \A x : Holders(x)' = Holders(x)
  BY <1>1 DEF CountExact, Holders, Refers
<1>3. TypeOK'
  <2>1. NoDrop \in [obj : Obj \cup {None}, n : Int] /\ Heap \subseteq Obj
    BY RefAssumption DEF NoDrop
  <2>2. drop' \in [Thread -> [obj : Obj \cup {None}, n : Int]]
    BY <1>1, <2>1 DEF TypeOK
  <2>3. state' \in [Obj -> {"new", "alive", "dead"}] /\ dying' \in [Thread -> SUBSET Obj]
    <3>1. CASE o \in Heap /\ drop[u].n = 0
      <4>1. state' = [state EXCEPT ![o] = "dead"] /\ dying' = [dying EXCEPT ![u] = @ \cup {o}]
        BY <1>1, <3>1
      <4> QED BY <2>1, <3>1, <4>1 DEF TypeOK
    <3>2. CASE ~ (o \in Heap /\ drop[u].n = 0)
      BY <1>1, <3>2 DEF TypeOK
    <3> QED BY <3>1, <3>2
  <2> QED BY <1>1, <2>2, <2>3 DEF TypeOK
<1>4. \A x \in Heap : ~ Deletes(u, x)'
  BY <1>1, RefAssumption DEF Deletes, NoDrop, TypeOK
<1>5. \A x \in Heap, t \in Thread : t # u => (Deletes(t, x)' <=> Deletes(t, x))
  BY <1>1 DEF Deletes, TypeOK
<1>6. CASE o \in Heap /\ drop[u].n = 0
  <2>1. Deletes(u, o)
    BY <1>6 DEF TypeOK, Deletes
  <2>2. /\ state[o] = "alive" /\ Holders(o) = {}
        /\ \A t \in Thread : Deletes(t, o) => t = u
    BY <1>6, <2>1 DEF DeletedOnce
  <2>3. ReferredAlive'
    <3> SUFFICES ASSUME NEW v \in Var, ref[v] # None PROVE state'[root[ref[v]]] = "alive"
      BY <1>1 DEF ReferredAlive
    <3>1. root[ref[v]] # o
      BY <2>2 DEF Holders, Refers
    <3> QED BY <1>1, <1>6, <3>1 DEF ReferredAlive, TypeOK
  <2>4. RootsAgree'
    BY <1>1, <1>6 DEF RootsAgree, TypeOK
  <2>5. DyingDead'
    BY <1>1, <1>6, RefAssumption DEF DyingDead, TypeOK
  <2>6. DeletedOnce'
    <3> SUFFICES ASSUME NEW x \in Heap
          PROVE  /\ \A t, w \in Thread : Deletes(t, x)' =>
                      state'[x] = "alive" /\ Holders(x)' = {} /\ (Deletes(w, x)' => w = t)
                 /\ state'[x] = "alive" /\ Holders(x)' = {} => \E t \in Thread : Deletes(t, x)'
      BY DEF DeletedOnce
    <3>0. x \in Obj
      BY RefAssumption
    <3>1. CASE x = o
      <4>1. \A t \in Thread : ~ Deletes(t, x)'
        BY <1>4, <1>5, <2>2, <3>1
      <4>2. state'[x] = "dead"
        BY <1>1, <1>6, <3>0, <3>1 DEF TypeOK
      <4> QED BY <4>1, <4>2
    <3>2. CASE x # o
      <4>1. ~ Deletes(u, x)
        BY <2>1, <3>2 DEF Deletes
      <4>2. \A t \in Thread : Deletes(t, x)' <=> Deletes(t, x)
        BY <1>4, <1>5, <4>1
      <4>3. state'[x] = state[x]
        BY <1>1, <1>6, <3>0, <3>2 DEF TypeOK
      <4> QED BY <1>2, <4>2, <4>3 DEF DeletedOnce
    <3> QED BY <3>1, <3>2
  <2> QED BY <1>2, <1>3, <2>3, <2>4, <2>5, <2>6 DEF Counted
<1>7. CASE ~ (o \in Heap /\ drop[u].n = 0)
  <2>1. UNCHANGED <<state, dying, root, ref>>
    BY <1>1, <1>7
  <2>2. ReferredAlive' /\ RootsAgree' /\ DyingDead'
    BY <2>1 DEF ReferredAlive, RootsAgree, DyingDead
  <2>3. \A x \in Heap : ~ Deletes(u, x)
    BY <1>7 DEF Deletes
  <2>4. \A x \in Heap, t \in Thread : Deletes(t, x)' <=> Deletes(t, x)
    BY <1>4, <1>5, <2>3
  <2>5. DeletedOnce'
    BY <1>2, <2>1, <2>4 DEF DeletedOnce
  <2> QED BY <1>2, <1>3, <2>2, <2>5 DEF Counted
<1> QED BY <1>6, <1>7

LEMMA NewCounted ==
  ASSUME IInv, NEW t \in Thread, NEW v \in Var, NEW o \in Obj, New(t, v, o)
  PROVE  Counted' /\ TypeOK'
<1> USE DEF IInv
<1>1. /\ o \in Heap /\ root[o] = o /\ state[o] = "new" /\ ref[v] = None
      /\ state' = [state EXCEPT ![o] = "alive"] /\ ref' = [ref EXCEPT ![v] = o]
      /\ Inc(o) /\ UNCHANGED <<root, drop, dying, assign>>
  BY DEF New, RootsAgree
<1>2. /\ \A x \in Obj : Holders(x)' = IF x = o THEN Holders(x) \cup {v} ELSE Holders(x)
      /\ CountExact' /\ count' \in [Obj -> Nat] /\ ref' \in [Var -> Obj \cup {None}]
  <2>1. /\ \A x \in Obj : Holders(x)' = IF x = root[o] THEN Holders(x) \cup {v} ELSE Holders(x)
        /\ CountExact' /\ count' \in [Obj -> Nat] /\ ref' \in [Var -> Obj \cup {None}]
    BY <1>1, TakeExact
  <2> QED BY <1>1, <2>1
<1>3. TypeOK'
  BY <1>1, <1>2 DEF TypeOK
<1>4. ReferredAlive' /\ RootsAgree' /\ DyingDead'
  BY <1>1 DEF ReferredAlive, RootsAgree, DyingDead, TypeOK
<1>5. \A x \in Heap, u \in Thread : Deletes(u, x)' <=> Deletes(u, x)
  BY <1>1 DEF Deletes
<1>6. DeletedOnce'
  <2> SUFFICES ASSUME NEW x \in Heap
        PROVE  /\ \A u, w \in Thread : Deletes(u, x)' =>
                    state'[x] = "alive" /\ Holders(x)' = {} /\ (Deletes(w, x)' => w = u)
               /\ state'[x] = "alive" /\ Holders(x)' = {} => \E u \in Thread : Deletes(u, x)'
    BY DEF DeletedOnce
  <2>0. x \in Obj
    BY RefAssumption
  <2>1. CASE x = o
    <3>1. \A u \in Thread : ~ Deletes(u, x)'
      BY <1>1, <1>5, <2>1 DEF DeletedOnce
    <3>2. Holders(x)' # {}
      BY <1>2, <2>0, <2>1
    <3> QED BY <3>1, <3>2
  <2>2. CASE x # o
    <3>1. Holders(x)' = Holders(x) /\ state'[x] = state[x]
      BY <1>1, <1>2, <2>0, <2>2 DEF TypeOK
    <3> QED BY <1>5, <3>1 DEF DeletedOnce
  <2> QED BY <2>1, <2>2
<1> QED BY <1>2, <1>3, <1>4, <1>6 DEF Counted

(* Only objects that nothing refers to are delegated.                      *)
LEMMA DelegateCounted ==
  ASSUME IInv, NEW t \in Thread, NEW m \in Obj, NEW o \in Obj, RefDelegate(t, m, o)
  PROVE  Counted' /\ TypeOK' /\ \A u \in Thread : Leaves(u)
<1> USE DEF IInv
<1>1. /\ <<m, o>> \in Delegates /\ root[m] = m /\ count[m] = 0 /\ root[o] # m
      /\ root' = [x \in Obj |-> IF root[x] = m THEN root[o] ELSE root[x]]
      /\ UNCHANGED <<count, state, ref, drop, dying, assign>>
  BY DEF RefDelegate
<1>2. m \notin Heap /\ m \in Member
  BY <1>1, RefAssumption DEF Member
<1>3. Holders(m) = {}
  <2>1. Cardinality(Holders(m)) = 0 /\ IsFiniteSet(Holders(m))
    BY <1>1, HoldersFinite DEF CountExact
  <2> QED BY <2>1, FS_EmptySet
<1>4. \A v \in Var : ref[v] # None => root'[ref[v]] = root[ref[v]]
  BY <1>1, <1>3 DEF Holders, Refers, TypeOK
<1>5. \A x \in Obj : Holders(x)' = Holders(x)
  <2> TAKE x \in Obj
  <2>1. \A v \in Var : Refers(v, x)' <=> Refers(v, x)
    BY <1>1, <1>4 DEF Refers
  <2> QED BY <2>1 DEF Holders
<1>6. CountExact'
  BY <1>1, <1>5 DEF CountExact
<1>7. ReferredAlive'
  BY <1>1, <1>4 DEF ReferredAlive
<1>8. RootsAgree' /\ DyingDead'
  BY <1>1, <1>2, RefAssumption DEF RootsAgree, DyingDead, TypeOK
<1>9. DeletedOnce'
  <2>1. \A x \in Heap : Holders(x)' = Holders(x)
    BY <1>5, RefAssumption
  <2>2. \A x \in Heap, u \in Thread : Deletes(u, x)' <=> Deletes(u, x)
    BY <1>1 DEF Deletes
  <2> QED BY <1>1, <2>1, <2>2 DEF DeletedOnce
<1>10. TypeOK'
  BY <1>1 DEF TypeOK
<1>11. \A u \in Thread : Leaves(u)
  BY <1>1, <1>2, <1>3 DEF Leaves
<1> QED BY <1>6, <1>7, <1>8, <1>9, <1>10, <1>11 DEF Counted

LEMMA MoveCounted ==
  ASSUME IInv, NEW t \in Thread, NEW v \in Var, NEW w \in Var, MoveRef(t, v, w)
  PROVE  Counted' /\ TypeOK'
<1> DEFINE r == root[ref[w]]
<1> USE DEF IInv
<1>1. /\ v # w /\ ref[v] = None /\ ref[w] # None
      /\ ref' = [ref EXCEPT ![v] = ref[w], ![w] = None]
      /\ UNCHANGED <<count, root, state, drop, dying, assign>>
  BY DEF MoveRef
<1>2. /\ ref' \in [Var -> Obj \cup {None}] /\ ref'[v] = ref[w] /\ ref'[w] = None
      /\ \A y \in Var \ {v, w} : ref'[y] = ref[y]
  BY <1>1 DEF TypeOK
<1>3. \A o \in Obj : Holders(o)' = IF o = r THEN (Holders(o) \ {w}) \cup {v} ELSE Holders(o)
  BY <1>1, <1>2 DEF Holders, Refers
<1>4. \A o \in Obj : v \notin Holders(o) /\ (o = r => w \in Holders(o))
  BY <1>1 DEF Holders, Refers
<1>5. \A o \in Obj : Cardinality(Holders(o)') = Cardinality(Holders(o)) /\ (Holders(o)' = {} <=> Holders(o) = {})
  <2> SUFFICES ASSUME NEW o \in Obj
        PROVE  Cardinality(Holders(o)') = Cardinality(Holders(o)) /\ (Holders(o)' = {} <=> Holders(o) = {})
    OBVIOUS
  <2>1. IsFiniteSet(Holders(o)) /\ Cardinality(Holders(o)) \in Nat
    BY HoldersFinite, FS_CardinalityType
  <2>2. CASE o = r
    <3>1. IsFiniteSet(Holders(o) \ {w}) /\ Cardinality(Holders(o) \ {w}) = Cardinality(Holders(o)) - 1
      BY <1>4, <2>1, <2>2, FS_RemoveElement
    <3>2. v \notin Holders(o) \ {w}
      BY <1>4
    <3>3. Cardinality((Holders(o) \ {w}) \cup {v}) = Cardinality(Holders(o) \ {w}) + 1
      BY <3>1, <3>2, FS_AddElement
    <3>4. Holders(o)' = (Holders(o) \ {w}) \cup {v}
      BY <1>3, <2>2
    <3>5. Holders(o) # {}
      BY <1>4, <2>2
    <3> QED BY <2>1, <3>1, <3>3, <3>4, <3>5
  <2>3. CASE o # r
    BY <1>3, <2>3
  <2> QED BY <2>2, <2>3
<1>6. CountExact'
  BY <1>1, <1>5 DEF CountExact
<1>7. ReferredAlive'
  BY <1>1, <1>2 DEF ReferredAlive
<1>8. RootsAgree' /\ DyingDead' /\ TypeOK'
  BY <1>1, <1>2 DEF RootsAgree, DyingDead, TypeOK
<1>9. DeletedOnce'
  <2>1. \A x \in Heap : Holders(x)' = {} <=> Holders(x) = {}
    BY <1>5, RefAssumption
  <2>2. \A x \in Heap, u \in Thread : Deletes(u, x)' <=> Deletes(u, x)
    BY <1>1 DEF Deletes
  <2> QED BY <1>1, <2>1, <2>2 DEF DeletedOnce
<1> QED BY <1>6, <1>7, <1>8, <1>9 DEF Counted

-----------------------------------------------------------------------------
(* The invariant.                                                          *)

LEMMA InitHolds == Init => IInv
<1> SUFFICES ASSUME Init PROVE IInv
  OBVIOUS
<1>0. Heap \subseteq Obj /\ NoDrop \in [obj : Obj \cup {None}, n : Int]
  BY RefAssumption DEF NoDrop
<1>1. TypeOK
  BY <1>0 DEF Init, TypeOK, NoAssign
<1>2. \A o : Holders(o) = {}
  BY DEF Init, Holders, Refers
<1>3. CountExact
  BY <1>2, FS_EmptySet DEF CountExact, Init
<1>4. ReferredAlive /\ RootsAgree /\ DyingDead
  BY <1>0 DEF Init, ReferredAlive, RootsAgree, DyingDead
<1>5. DeletedOnce
  BY <1>0, RefAssumption DEF Init, DeletedOnce, Deletes, NoDrop
<1>6. \A t \in Thread : AssignSafe(t)
  BY DEF Init, AssignSafe
<1> QED BY <1>1, <1>3, <1>4, <1>5, <1>6 DEF IInv

(* Steps that change nothing a thread in an assignment relies on.          *)
LEMMA SameLeaves ==
  ASSUME IInv, UNCHANGED <<count, root, ref, assign>>
  PROVE  \A t \in Thread : AssignSafe(t)'
<1> SUFFICES ASSUME NEW t \in Thread PROVE AssignSafe(t)'
  OBVIOUS
<1>1. Leaves(t)
  BY DEF Leaves
<1> QED BY <1>1, AssignStays

LEMMA DropFieldKeeps ==
  ASSUME IInv, NEW u \in Thread, DropField(u)
  PROVE  IInv'
<1>1. PICK f \in Var : Owner[f] \in dying[u] /\ ref[f] # None /\ Release(u, f)
  BY DEF DropField
<1>2. drop[u] = NoDrop /\ UNCHANGED <<root, state, dying, assign>>
  BY DEF DropField
<1>3. /\ Counted' /\ count' \in [Obj -> Nat] /\ ref' \in [Var -> Obj \cup {None}]
      /\ drop' \in [Thread -> [obj : Obj \cup {None}, n : Int]]
  BY <1>1, <1>2, ReleaseCounted
<1>4. TypeOK'
  BY <1>2, <1>3 DEF IInv, TypeOK
<1>5. \A t \in Thread : AssignSafe(t)'
  <2> SUFFICES ASSUME NEW t \in Thread PROVE AssignSafe(t)'
    OBVIOUS
  <2>1. CASE assign[t] = NoAssign
    BY <1>2, <2>1 DEF AssignSafe
  <2>2. CASE assign[t] # NoAssign
    BY <1>1, <1>2, <2>2, ReleaseLeaves, AssignStays DEF Writes
  <2> QED BY <2>1, <2>2
<1> QED BY <1>3, <1>4, <1>5 DEF IInv, Counted

LEMMA InvalidateKeeps ==
  ASSUME IInv, NEW u \in Thread, NEW v \in Var, Invalidate(u, v)
  PROVE  IInv'
<1>1. /\ Idle(u) /\ Writable(u, v) /\ ref[v] # None /\ Release(u, v)
      /\ UNCHANGED <<root, state, dying, assign>>
  BY DEF Invalidate
<1>2. drop[u] = NoDrop /\ assign[u] = NoAssign
  BY <1>1 DEF Idle
<1>3. /\ Counted' /\ count' \in [Obj -> Nat] /\ ref' \in [Var -> Obj \cup {None}]
      /\ drop' \in [Thread -> [obj : Obj \cup {None}, n : Int]]
  BY <1>1, <1>2, ReleaseCounted
<1>4. TypeOK'
  BY <1>1, <1>3 DEF IInv, TypeOK
<1>5. \A t \in Thread : AssignSafe(t)'
  <2> SUFFICES ASSUME NEW t \in Thread PROVE AssignSafe(t)'
    OBVIOUS
  <2>1. CASE assign[t] = NoAssign
    BY <1>1, <2>1 DEF AssignSafe
  <2>2. CASE assign[t] # NoAssign
    BY <1>1, <1>2, <2>2, ReleaseLeaves, AssignStays DEF Writes
  <2> QED BY <2>1, <2>2
<1> QED BY <1>3, <1>4, <1>5 DEF IInv, Counted

(* A thread takes a reference, in one step.                                *)
LEMMA TakeKeeps ==
  ASSUME IInv, NEW u \in Thread, NEW y \in Var, NEW x \in Obj, ref[y] = None,
         Writes(u, y), ref' = [ref EXCEPT ![y] = x], Inc(x),
         state[root[x]] = "alive", root[x] \in Heap => Holders(root[x]) # {},
         \/ root[x] \notin Heap
         \/ \E w \in Var : Readable(u, w, None) /\ Refers(w, root[x]),
         assign'[u] = NoAssign, assign' \in [Thread -> {assign[t] : t \in Thread} \cup {NoAssign}],
         \A t \in Thread \ {u} : assign'[t] = assign[t],
         UNCHANGED <<root, state, drop, dying>>
  PROVE  IInv'
<1>1. Counted' /\ count' \in [Obj -> Nat] /\ ref' \in [Var -> Obj \cup {None}]
  BY TakeCounted
<1>2. TypeOK'
  <2>1. assign' \in [Thread -> [var : Var \cup {None}, from : Var \cup Obj \cup {None}]]
    BY DEF IInv, TypeOK, NoAssign
  <2> QED BY <1>1, <2>1 DEF IInv, TypeOK
<1>3. \A t \in Thread : AssignSafe(t)'
  <2> SUFFICES ASSUME NEW t \in Thread PROVE AssignSafe(t)'
    OBVIOUS
  <2>1. CASE assign'[t] = NoAssign
    BY <2>1 DEF AssignSafe
  <2>2. CASE assign'[t] # NoAssign
    <3>1. t # u /\ assign'[t] = assign[t] /\ assign[t] # NoAssign
      BY <2>2
    <3>2. Leaves(t)
      BY <3>1, TakeLeaves
    <3> QED BY <3>1, <3>2, AssignStays
  <2> QED BY <2>1, <2>2
<1> QED BY <1>1, <1>2, <1>3 DEF IInv, Counted

LEMMA AssignTakeKeeps ==
  ASSUME IInv, NEW u \in Thread, AssignTake(u)
  PROVE  IInv'
<1> DEFINE v == assign[u].var
           from == assign[u].from
           o == IF from \in Var THEN ref[from] ELSE from
<1>1. /\ v # None /\ ref' = [ref EXCEPT ![v] = o]
      /\ IF o = None THEN UNCHANGED count ELSE Inc(o)
      /\ assign' = [assign EXCEPT ![u] = NoAssign]
      /\ UNCHANGED <<root, state, drop, dying>>
  BY DEF AssignTake
<1>2. /\ v \in Var /\ Writable(u, v) /\ ref[v] = None
      /\ \/ from \in Var /\ Readable(u, from, v)
         \/ from \in Obj /\ Reachable(u, from, v)
  BY <1>1 DEF IInv, AssignSafe, NoAssign
<1>3. NoAssign \in [var : Var \cup {None}, from : Var \cup Obj \cup {None}]
  BY DEF NoAssign
<1>4. /\ assign'[u] = NoAssign /\ \A t \in Thread \ {u} : assign'[t] = assign[t]
      /\ assign' \in [Thread -> [var : Var \cup {None}, from : Var \cup Obj \cup {None}]]
      /\ assign' \in [Thread -> {assign[t] : t \in Thread} \cup {NoAssign}]
  BY <1>1, <1>3 DEF IInv, TypeOK
<1>5. CASE o = None
  <2>1. ref' = ref /\ count' = count
    BY <1>1, <1>2, <1>5 DEF IInv, TypeOK
  <2>2. \A x : Holders(x)' = Holders(x)
    BY <1>1, <2>1 DEF Holders, Refers
  <2>3. TypeOK' /\ CountExact' /\ ReferredAlive' /\ RootsAgree' /\ DyingDead'
    BY <1>1, <1>4, <2>1, <2>2 DEF IInv, TypeOK, CountExact, ReferredAlive, RootsAgree, DyingDead
  <2>4. \A x \in Heap, t \in Thread : Deletes(t, x)' <=> Deletes(t, x)
    BY <1>1 DEF Deletes
  <2>5. DeletedOnce'
    BY <1>1, <2>2, <2>4 DEF IInv, DeletedOnce
  <2>6. ASSUME NEW t \in Thread PROVE AssignSafe(t)'
    <3>1. CASE t = u
      BY <1>4, <3>1 DEF AssignSafe
    <3>2. CASE t # u
      <4>1. Leaves(t) /\ assign'[t] = assign[t]
        BY <1>1, <1>4, <2>1, <3>2 DEF Leaves
      <4> QED BY <4>1, AssignStays
    <3> QED BY <3>1, <3>2
  <2> QED BY <2>3, <2>5, <2>6 DEF IInv
<1>6. CASE o # None
  <2>1. o \in Obj
    BY <1>2, <1>6 DEF IInv, TypeOK
  <2>2. /\ state[root[o]] = "alive"
        /\ root[o] \in Heap => Holders(root[o]) # {}
        /\ \/ root[o] \notin Heap
           \/ \E w \in Var : Readable(u, w, None) /\ Refers(w, root[o])
    <3>1. CASE from \in Var /\ Readable(u, from, v)
      <4>1. Refers(from, root[o]) /\ o = ref[from]
        BY <1>6, <3>1 DEF Refers
      <4>2. state[root[o]] = "alive" /\ from \in Holders(root[o])
        BY <1>6, <3>1, <4>1 DEF IInv, ReferredAlive, Holders
      <4>3. Readable(u, from, None)
        BY <3>1, PathWeakens DEF Readable
      <4> QED BY <3>1, <4>1, <4>2, <4>3
    <3>2. CASE from \in Obj /\ Reachable(u, from, v)
      <4>1. o = from
        BY <3>2, RefAssumption, <1>6, <2>1
      <4> QED BY <3>2, <4>1, ReachableAlive
    <3> QED BY <1>2, <3>1, <3>2
  <2>3. Writes(u, v)
    BY <1>2 DEF Writes
  <2> QED BY <1>1, <1>2, <1>4, <1>6, <2>1, <2>2, <2>3, TakeKeeps
<1> QED BY <1>5, <1>6

LEMMA ConstructKeeps ==
  ASSUME IInv, NEW u \in Thread, NEW v \in Var, NEW o \in Obj, Construct(u, v, o)
  PROVE  IInv'
<1>1. /\ Writable(u, v) /\ ref[v] = None /\ Reachable(u, o, v)
      /\ assign[u] = NoAssign /\ ref' = [ref EXCEPT ![v] = o] /\ Inc(o)
      /\ UNCHANGED <<root, state, drop, dying, assign>>
  BY DEF Construct, Idle
<1>2. Writes(u, v)
  BY <1>1 DEF Writes
<1>3. assign' \in [Thread -> {assign[t] : t \in Thread} \cup {NoAssign}]
  BY <1>1 DEF IInv, TypeOK
<1> QED BY <1>1, <1>2, <1>3, ReachableAlive, TakeKeeps

LEMMA GiveKeeps ==
  ASSUME IInv, NEW t \in Thread, NEW u \in Thread, NEW v \in Var, NEW w \in Var, Give(t, w, u, v)
  PROVE  IInv'
<1>1. /\ Owner[w] = t /\ Owner[v] = u /\ Idle(u) /\ Idle(t)
      /\ ref[w] # None /\ ref[v] = None
      /\ ref' = [ref EXCEPT ![v] = ref[w]] /\ Inc(ref[w])
      /\ UNCHANGED <<root, state, drop, dying, assign>>
  BY DEF Give
<1>2. ref[w] \in Obj
  BY <1>1 DEF IInv, TypeOK
<1>3. Writes(t, v) /\ assign[t] = NoAssign
  BY <1>1 DEF Writes, Idle
<1>4. /\ state[root[ref[w]]] = "alive" /\ Refers(w, root[ref[w]])
      /\ w \in Holders(root[ref[w]]) /\ Readable(t, w, None)
  BY <1>1 DEF IInv, ReferredAlive, Refers, Holders, Readable
<1>5. assign' \in [Thread -> {assign[z] : z \in Thread} \cup {NoAssign}]
  BY <1>1 DEF IInv, TypeOK
<1> QED BY <1>1, <1>2, <1>3, <1>4, <1>5, TakeKeeps

LEMMA NewKeeps ==
  ASSUME IInv, NEW u \in Thread, NEW v \in Var, NEW o \in Obj, New(u, v, o)
  PROVE  IInv'
<1>1. /\ Owner[v] = u /\ ref[v] = None /\ state[o] = "new" /\ root[o] = o
      /\ assign[u] = NoAssign /\ ref' = [ref EXCEPT ![v] = o] /\ Inc(o)
      /\ UNCHANGED <<root, drop, dying, assign>>
  BY DEF New, Idle, IInv, RootsAgree
<1>2. \A t \in Thread : AssignSafe(t)'
  <2> SUFFICES ASSUME NEW t \in Thread PROVE AssignSafe(t)'
    OBVIOUS
  <2>1. CASE assign[t] = NoAssign
    BY <1>1, <2>1 DEF AssignSafe
  <2>2. CASE assign[t] # NoAssign
    <3>1. Writes(u, v) /\ u # t
      BY <1>1, <2>2 DEF Writes
    <3>2. Leaves(t)
      BY <1>1, <2>2, <3>1, TakeLeaves
    <3> QED BY <1>1, <3>2, AssignStays
  <2> QED BY <2>1, <2>2
<1> QED BY <1>2, NewCounted DEF IInv, Counted

LEMMA MoveKeeps ==
  ASSUME IInv, NEW u \in Thread, NEW v \in Var, NEW w \in Var, MoveRef(u, v, w)
  PROVE  IInv'
<1>1. /\ Writable(u, v) /\ Writable(u, w) /\ assign[u] = NoAssign
      /\ ref' = [ref EXCEPT ![v] = ref[w], ![w] = None]
      /\ UNCHANGED <<count, root, state, drop, dying, assign>>
  BY DEF MoveRef, Idle
<1>2. \A t \in Thread : AssignSafe(t)'
  <2> SUFFICES ASSUME NEW t \in Thread PROVE AssignSafe(t)'
    OBVIOUS
  <2>1. CASE assign[t] = NoAssign
    BY <1>1, <2>1 DEF AssignSafe
  <2>2. CASE assign[t] # NoAssign
    <3>1. Writes(u, v) /\ Writes(u, w) /\ u # t
      BY <1>1, <2>2 DEF Writes
    <3>2. /\ Owner[v] # t /\ ~ (Owner[v] \in Obj /\ Path(t, Owner[v], None))
          /\ Owner[w] # t /\ ~ (Owner[w] \in Obj /\ Path(t, Owner[w], None))
      BY <2>2, <3>1, WritesApart
    <3>3. \A y \in Var \ {v, w} : ref'[y] = ref[y]
      BY <1>1 DEF IInv, TypeOK
    <3>4. Leaves(t)
      BY <1>1, <3>2, <3>3 DEF Leaves
    <3> QED BY <1>1, <3>4, AssignStays
  <2> QED BY <2>1, <2>2
<1> QED BY <1>2, MoveCounted DEF IInv, Counted

(* What is assigned is held by more than the variable, so that it can      *)
(* still be reached once the variable is null.                             *)
LEMMA AssignDropKeeps ==
  ASSUME IInv, Careful, NEW u \in Thread, NEW v \in Var, NEW from \in Var \cup Obj,
         AssignDrop(u, v, from)
  PROVE  IInv'
<1>1. /\ Writable(u, v) /\ ref[v] # None /\ Release(u, v)
      /\ \/ from \in Var /\ Readable(u, from, v)
         \/ from \in Obj /\ Reachable(u, from, v)
      /\ assign' = [assign EXCEPT ![u] = [var |-> v, from |-> from]]
      /\ drop[u] = NoDrop /\ assign[u] = NoAssign /\ UNCHANGED <<root, state, dying>>
  BY DEF AssignDrop, Idle
<1>2. /\ Counted' /\ count' \in [Obj -> Nat] /\ ref' \in [Var -> Obj \cup {None}]
      /\ drop' \in [Thread -> [obj : Obj \cup {None}, n : Int]]
  BY <1>1, ReleaseCounted
<1>3. /\ assign' \in [Thread -> [var : Var \cup {None}, from : Var \cup Obj \cup {None}]]
      /\ assign'[u] = [var |-> v, from |-> from]
      /\ \A t \in Thread \ {u} : assign'[t] = assign[t]
  BY <1>1 DEF IInv, TypeOK
<1>4. TypeOK'
  BY <1>1, <1>2, <1>3 DEF IInv, TypeOK
<1>5. ref'[v] = None /\ \A w \in Var \ {v} : ref'[w] = ref[w]
  BY <1>1 DEF Release, IInv, TypeOK
<1>6. \A o : Path(u, o, v) => Path(u, o, v)'
  BY <1>1, <1>5 DEF Path, Refers
<1>7. Writable(u, v)'
  <2>1. CASE Owner[v] = u
    BY <2>1 DEF Writable
  <2>2. CASE Owner[v] \in Obj /\ Path(u, Owner[v], v) /\ count[Owner[v]] = 1
    <3>1. PICK w \in Var \ {v} : Refers(w, Owner[v])
      BY <2>2 DEF Path
    <3>2. Owner[v] # root[ref[v]]
      BY <1>1, <2>2, <3>1, OnlyHolder DEF IInv, Refers
    <3>3. count'[Owner[v]] = 1
      BY <1>1, <2>2, <3>2, ReleaseExact DEF IInv
    <3> QED BY <1>6, <2>2, <3>3 DEF Writable
  <2> QED BY <1>1, <2>1, <2>2 DEF Writable
<1>8. from \in Var /\ Readable(u, from, v) => Readable(u, from, v)'
  BY <1>6 DEF Readable
<1>9. from \in Obj /\ Reachable(u, from, v) => Reachable(u, from, v)'
  BY <1>1, <1>5, <1>6 DEF Reachable, Readable, Refers
<1>10. AssignSafe(u)'
  BY <1>1, <1>3, <1>5, <1>7, <1>8, <1>9 DEF AssignSafe
<1>11. ASSUME NEW t \in Thread, t # u PROVE AssignSafe(t)'
  <2>1. CASE assign[t] = NoAssign
    BY <1>3, <1>11, <2>1 DEF AssignSafe
  <2>2. CASE assign[t] # NoAssign
    <3>1. Writes(u, v)
      BY <1>1 DEF Writes
    <3>2. Leaves(t)
      BY <1>1, <1>11, <2>2, <3>1, ReleaseLeaves
    <3> QED BY <1>3, <1>11, <3>2, AssignStays
  <2> QED BY <2>1, <2>2
<1> QED BY <1>2, <1>4, <1>10, <1>11 DEF IInv, Counted

LEMMA NextKeeps ==
  ASSUME Careful, IInv, [Next]_vars
  PROVE  IInv'
<1>1. CASE UNCHANGED vars
  <2>1. UNCHANGED <<count, root, ref, assign, state, drop, dying>>
    BY <1>1 DEF vars
  <2>2. \A t \in Thread : AssignSafe(t)'
    BY <2>1, SameLeaves
  <2>3. \A x : Holders(x)' = Holders(x)
    BY <2>1 DEF Holders, Refers
  <2>4. \A x \in Heap, t \in Thread : Deletes(t, x)' <=> Deletes(t, x)
    BY <2>1 DEF Deletes
  <2>5. TypeOK' /\ CountExact' /\ ReferredAlive' /\ RootsAgree' /\ DyingDead'
    BY <2>1, <2>3 DEF IInv, TypeOK, CountExact, ReferredAlive, RootsAgree, DyingDead
  <2>6. DeletedOnce'
    BY <2>1, <2>3, <2>4 DEF IInv, DeletedOnce
  <2> QED BY <2>2, <2>5, <2>6 DEF IInv
<1>2. ASSUME NEW t \in Thread, Check(t) PROVE IInv'
  <2>1. \A u \in Thread : AssignSafe(u)'
    BY <1>2, SameLeaves DEF Check, Checked
  <2> QED BY <1>2, <2>1, CheckCounted DEF IInv, Counted
<1>3. ASSUME NEW t \in Thread, Destroyed(t) PROVE IInv'
  <2>1. /\ dying' = [dying EXCEPT ![t] = {}]
        /\ UNCHANGED <<count, root, state, ref, drop, assign>>
    BY <1>3 DEF Destroyed
  <2>2. \A u \in Thread : AssignSafe(u)'
    BY <2>1, SameLeaves
  <2>3. \A x : Holders(x)' = Holders(x)
    BY <2>1 DEF Holders, Refers
  <2>4. \A x \in Heap, u \in Thread : Deletes(u, x)' <=> Deletes(u, x)
    BY <2>1 DEF Deletes
  <2>5. TypeOK' /\ CountExact' /\ ReferredAlive' /\ RootsAgree' /\ DyingDead'
    BY <2>1, <2>3 DEF IInv, TypeOK, CountExact, ReferredAlive, RootsAgree, DyingDead
  <2>6. DeletedOnce'
    BY <2>1, <2>3, <2>4 DEF IInv, DeletedOnce
  <2> QED BY <2>2, <2>5, <2>6 DEF IInv
<1>4. ASSUME NEW t \in Thread, NEW m \in Obj, NEW o \in Obj, RefDelegate(t, m, o) PROVE IInv'
  <2>1. Counted' /\ TypeOK' /\ (\A u \in Thread : Leaves(u)) /\ assign' = assign
    BY <1>4, DelegateCounted DEF RefDelegate
  <2>2. ASSUME NEW u \in Thread PROVE AssignSafe(u)'
    BY <2>1, AssignStays
  <2> QED BY <2>1, <2>2 DEF IInv, Counted
<1>5. CASE \E t \in Thread : Step(t)
  BY <1>2, <1>3, <1>5, DropFieldKeeps, AssignTakeKeeps DEF Step
<1>6. CASE \E t \in Thread, v \in Var, o \in Obj : New(t, v, o) \/ Construct(t, v, o)
  BY <1>6, NewKeeps, ConstructKeeps
<1>7. CASE \E t \in Thread, m, o \in Obj : RefDelegate(t, m, o)
  BY <1>4, <1>7
<1>8. CASE \E t, u \in Thread, v, w \in Var : Give(t, w, u, v)
  BY <1>8, GiveKeeps
<1>9. CASE \E t \in Thread, v, w \in Var : MoveRef(t, v, w)
  BY <1>9, MoveKeeps
<1>10. CASE \E t \in Thread, v \in Var : Invalidate(t, v)
  BY <1>10, InvalidateKeeps
<1>11. CASE \E t \in Thread, v \in Var, from \in Var \cup Obj : AssignDrop(t, v, from)
  BY <1>11, AssignDropKeeps
<1> QED BY <1>1, <1>5, <1>6, <1>7, <1>8, <1>9, <1>10, <1>11 DEF Next

LEMMA Inductive == Careful => (Spec => []IInv)
<1> SUFFICES ASSUME Careful PROVE Spec => []IInv
  OBVIOUS
<1>1. IInv /\ [Next]_vars => IInv'
  BY NextKeeps
<1> QED BY InitHolds, <1>1, PTL DEF Spec

(* Every variable keeps its type, a counter that is never negative among   *)
(* them: the assertion of _drop does not fail.                             *)
THEOREM TypeCorrect == Careful => (Spec => []TypeOK)
<1>1. IInv => TypeOK
  BY DEF IInv
<1> QED BY Inductive, <1>1, PTL

(* For any threads, objects, variables and delegations, counters are exact *)
(* after every atomic step.                                                *)
THEOREM CountsStayExact == Careful => (Spec => []CountExact)
<1>1. IInv => CountExact
  BY DEF IInv
<1> QED BY Inductive, <1>1, PTL

(* What is referred to is not deleted.                                     *)
THEOREM ReferredStayAlive == Careful => (Spec => []ReferredAlive)
<1>1. IInv => ReferredAlive
  BY DEF IInv
<1> QED BY Inductive, <1>1, PTL

(* No two threads delete an object, and none is left without a reference   *)
(* and without a thread that deletes it.                                   *)
THEOREM DeletedByOneThread == Careful => (Spec => []DeletedOnce)
<1>1. IInv => DeletedOnce
  BY DEF IInv
<1> QED BY Inductive, <1>1, PTL

-----------------------------------------------------------------------------
(* The refinement of SharedObjects, but for its liveness.                  *)

LEMMA InitRefines == Init => Shared!Init
BY DEF Init, Shared!Init

LEMMA NotReferred ==
  ASSUME NEW o, Holders(o) = {}
  PROVE  ~ Shared!Referred(o)
BY DEF Holders, Refers, Shared!Referred

(* Each step is one of SharedObjects, or changes nothing there.            *)
LEMMA StepRefines ==
  ASSUME IInv, Next
  PROVE  [Shared!Next]_(Shared!vars)
<1>1. ASSUME NEW t \in Thread, Check(t) PROVE [Shared!Next]_(Shared!vars)
  <2> DEFINE o == drop[t].obj
  <2>1. UNCHANGED <<ref, root>>
    BY <1>1 DEF Check, Checked
  <2>2. CASE o \in Heap /\ drop[t].n = 0
    <3>1. Deletes(t, o)
      BY <2>2 DEF Deletes, IInv, TypeOK
    <3>2. state[o] = "alive" /\ Holders(o) = {}
      BY <2>2, <3>1 DEF IInv, DeletedOnce
    <3>3. state' = [state EXCEPT ![o] = "dead"]
      BY <1>1, <2>2 DEF Check, Deletion
    <3>4. Shared!Die(o)
      BY <2>1, <2>2, <3>2, <3>3, NotReferred DEF Shared!Die
    <3>5. o \in Obj
      BY <2>2, RefAssumption
    <3> QED BY <3>4, <3>5 DEF Shared!Next
  <2>3. CASE ~ (o \in Heap /\ drop[t].n = 0)
    <3>1. state' = state
      BY <1>1, <2>3 DEF Check, Deletion
    <3> QED BY <2>1, <3>1 DEF Shared!vars
  <2> QED BY <2>2, <2>3
<1>2. ASSUME NEW t \in Thread, NEW v \in Var, Release(t, v), UNCHANGED <<root, state>>
      PROVE  [Shared!Next]_(Shared!vars)
  <2>1. Shared!Forget(v)
    BY <1>2 DEF Release, Shared!Forget
  <2> QED BY <2>1 DEF Shared!Next
<1>3. ASSUME NEW v \in Var, NEW o \in Obj, ref[v] = None, state[root[o]] = "alive",
             ref' = [ref EXCEPT ![v] = o], UNCHANGED <<root, state>>
      PROVE  [Shared!Next]_(Shared!vars)
  <2>1. Shared!Refer(v, o)
    BY <1>3 DEF Shared!Refer
  <2> QED BY <2>1 DEF Shared!Next
<1>4. ASSUME NEW t \in Thread, DropField(t) PROVE [Shared!Next]_(Shared!vars)
  BY <1>2, <1>4 DEF DropField
<1>5. ASSUME NEW t \in Thread, Destroyed(t) PROVE [Shared!Next]_(Shared!vars)
  BY <1>5 DEF Destroyed, Shared!vars
<1>6. ASSUME NEW t \in Thread, AssignTake(t) PROVE [Shared!Next]_(Shared!vars)
  <2> DEFINE v == assign[t].var
             from == assign[t].from
             o == IF from \in Var THEN ref[from] ELSE from
  <2>1. v # None /\ ref' = [ref EXCEPT ![v] = o] /\ UNCHANGED <<root, state>>
    BY <1>6 DEF AssignTake
  <2>2. /\ v \in Var /\ ref[v] = None
        /\ \/ from \in Var /\ Readable(t, from, v)
           \/ from \in Obj /\ Reachable(t, from, v)
    BY <2>1 DEF IInv, AssignSafe, NoAssign
  <2>3. CASE o = None
    <3>1. ref' = ref
      BY <2>1, <2>2, <2>3 DEF IInv, TypeOK
    <3> QED BY <2>1, <3>1 DEF Shared!vars
  <2>4. CASE o # None
    <3>1. o \in Obj
      BY <2>2, <2>4 DEF IInv, TypeOK
    <3>2. state[root[o]] = "alive"
      <4>1. CASE from \in Var
        BY <2>4, <4>1 DEF IInv, ReferredAlive
      <4>2. CASE from \notin Var /\ Reachable(t, from, v)
        BY <2>2, <4>2, ReachableAlive
      <4> QED BY <2>2, <4>1, <4>2
    <3> QED BY <1>3, <2>1, <2>2, <3>1, <3>2
  <2> QED BY <2>3, <2>4
<1>7. ASSUME NEW t \in Thread, NEW v \in Var, NEW o \in Obj, New(t, v, o)
      PROVE  [Shared!Next]_(Shared!vars)
  <2>1. Shared!Create(v, o)
    BY <1>7 DEF New, Shared!Create
  <2> QED BY <2>1 DEF Shared!Next
<1>8. ASSUME NEW t \in Thread, NEW v \in Var, NEW o \in Obj, Construct(t, v, o)
      PROVE  [Shared!Next]_(Shared!vars)
  <2>1. ref[v] = None /\ Reachable(t, o, v) /\ ref' = [ref EXCEPT ![v] = o]
        /\ UNCHANGED <<root, state>>
    BY <1>8 DEF Construct
  <2> QED BY <1>3, <2>1, ReachableAlive
<1>9. ASSUME NEW t \in Thread, NEW m \in Obj, NEW o \in Obj, RefDelegate(t, m, o)
      PROVE  [Shared!Next]_(Shared!vars)
  <2>1. /\ <<m, o>> \in Delegates /\ root[m] = m /\ count[m] = 0 /\ root[o] # m
        /\ root' = [x \in Obj |-> IF root[x] = m THEN root[o] ELSE root[x]]
        /\ UNCHANGED <<ref, state>>
    BY <1>9 DEF RefDelegate
  <2>2. m \notin Heap
    BY <2>1, RefAssumption
  <2>3. Cardinality(Holders(m)) = 0 /\ IsFiniteSet(Holders(m))
    BY <2>1, HoldersFinite DEF IInv, CountExact
  <2>4. ~ Shared!Referred(m)
    BY <2>3, FS_EmptySet, NotReferred
  <2>5. Shared!Join(m, o)
    BY <2>1, <2>2, <2>4 DEF Shared!Join
  <2> QED BY <2>5 DEF Shared!Next
<1>10. ASSUME NEW t \in Thread, NEW u \in Thread, NEW v \in Var, NEW w \in Var, Give(t, w, u, v)
       PROVE  [Shared!Next]_(Shared!vars)
  <2>1. ref[w] # None /\ ref[v] = None /\ ref' = [ref EXCEPT ![v] = ref[w]]
        /\ UNCHANGED <<root, state>>
    BY <1>10 DEF Give
  <2>2. ref[w] \in Obj /\ state[root[ref[w]]] = "alive"
    BY <2>1 DEF IInv, TypeOK, ReferredAlive
  <2> QED BY <1>3, <2>1, <2>2
<1>11. ASSUME NEW t \in Thread, NEW v \in Var, NEW w \in Var, MoveRef(t, v, w)
       PROVE  [Shared!Next]_(Shared!vars)
  <2>1. Shared!Move(v, w)
    BY <1>11 DEF MoveRef, Shared!Move
  <2> QED BY <2>1 DEF Shared!Next
<1>12. ASSUME NEW t \in Thread, NEW v \in Var, Invalidate(t, v)
       PROVE  [Shared!Next]_(Shared!vars)
  BY <1>2, <1>12 DEF Invalidate
<1>13. ASSUME NEW t \in Thread, NEW v \in Var, NEW from \in Var \cup Obj, AssignDrop(t, v, from)
       PROVE  [Shared!Next]_(Shared!vars)
  BY <1>2, <1>13 DEF AssignDrop
<1> QED BY <1>1, <1>4, <1>5, <1>6, <1>7, <1>8, <1>9, <1>10, <1>11, <1>12, <1>13 DEF Next, Step

(* Whatever threads do, objects live and die as SharedObjects promises: an *)
(* object is deleted only when nothing refers to it or to a part of it.    *)
THEOREM ObjectsAreShared ==
  Careful => (Spec => Shared!Init /\ [][Shared!Next]_(Shared!vars))
<1> SUFFICES ASSUME Careful PROVE Spec => Shared!Init /\ [][Shared!Next]_(Shared!vars)
  OBVIOUS
<1>1. IInv /\ [Next]_vars => [Shared!Next]_(Shared!vars)
  <2>1. CASE UNCHANGED vars
    BY <2>1 DEF vars, Shared!vars
  <2>2. ASSUME IInv, Next PROVE [Shared!Next]_(Shared!vars)
    BY <2>2, StepRefines
  <2> QED BY <2>1, <2>2
<1> QED BY <1>1, Inductive, InitRefines, PTL DEF Spec
=============================================================================
