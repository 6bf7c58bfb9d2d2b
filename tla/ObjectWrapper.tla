--------------------------- MODULE ObjectWrapper ----------------------------
(***************************************************************************)
(* QObjectWrapper: what Lua holds of a QObject.  A State has at most one   *)
(* wrapper for a QObject, found by `_whash`; the wrapper counts the        *)
(* references to it, its own while it has a QObject included, and may      *)
(* delete the QObject when it is the last to know of it.  The QObject may  *)
(* as well be deleted by C++ or by its parent at any moment, and a wrapper *)
(* that something still refers to goes on without it.                      *)
(*                                                                         *)
(* Lua functions connected to signals run inside the emission, and may     *)
(* do anything there; an iteration over children goes on by their number.  *)
(***************************************************************************)
EXTENDS Integers, FiniteSets, SequencesExt

CONSTANTS
  Objects,    \* QObjects, an address each: one that is deleted may be made again
  Wrappers,   \* the wrappers there is memory for
  Names,      \* object names
  Members,    \* names that are members of the class of every object
  Functions,  \* Lua functions
  Signals,    \* signals of every object
  Programs,   \* bound: the programs, each with the kinds of operations it does, the objects it
              \* makes, and how many references from Lua, and from C++, it takes of a wrapper
  MaxSlots,   \* bound: the numbers of Lua slots
  Careful,    \* whether programs keep clear of what the code gets wrong
  None

ASSUME WrapperAssumption ==
  /\ Members \subseteq Names /\ None \notin Objects \cup Wrappers \cup Names
  /\ Careful \in BOOLEAN /\ MaxSlots \in Nat
  /\ \A p \in Programs : p.objects \subseteq Objects /\ p.refs \in Nat \ {0}

VARIABLES
  uses,   \* the program
  heap,   \* the QObjects and the wrappers
  lua,    \* lua[w]: the userdata of Lua that refer to w
  cpp,    \* cpp[w]: the Ref objects of C++ that refer to w
  calls,  \* the Lua slots that run, each with what its emission has yet to call
  iter,   \* an iteration over children: its wrapper and the number it is at
  phase   \* "open", then "closing", "closed": the destruction of the State

vars == <<uses, heap, lua, cpp, calls, iter, phase>>

Blank == [obj |-> None, count |-> 0, reparent |-> FALSE, delete |-> FALSE,
          slots |-> <<>>, next |-> 1, conns |-> <<>>]

NoIter == [w |-> None, id |-> 0]

\* heap: kids[o], the children of o; name[o]; exist, the objects there are;
\* whash; wrap[w], where conns is what Qt has connected and slots what _lua_slots has.
Live(h, w) == h.wrap[w].count > 0
parent(h, o) == IF \E p \in h.exist : Contains(h.kids[p], o)
                  THEN CHOOSE p \in h.exist : Contains(h.kids[p], o) ELSE None

\* The entries of s that are in S, in their order.
Kept(s, S) ==
  LET K == {i \in DOMAIN s : s[i] \in S} IN
  [n \in 1 .. Cardinality(K) |-> s[CHOOSE k \in K : Cardinality({j \in K : j <= k}) = n]]

\* An object and what is below it: the least set with it that holds the children of its members.
Closed(h, S) == \A x \in S : ToSet(h.kids[x]) \subseteq S
Subtree(h, o) ==
  {x \in h.exist : \A S \in SUBSET h.exist : o \in S /\ Closed(h, S) => x \in S}

(***************************************************************************)
(* The life of QObjects and wrappers.                                      *)
(***************************************************************************)

\* ~QObject of an object and its children, or of several: destroyed() reaches obj_destroyed of
\* each wrapper, which leaves the hash and drops the reference to itself.
Destroyed(h, gone) ==
  [h EXCEPT
    !.exist = h.exist \ gone,
    !.kids = [p \in Objects |-> IF p \in gone THEN <<>> ELSE Kept(h.kids[p], Objects \ gone)],
    !.name = [p \in Objects |-> IF p \in gone THEN None ELSE h.name[p]],
    !.whash = [p \in Objects |-> IF p \in gone THEN None ELSE h.whash[p]],
    !.wrap = [w \in Wrappers |->
                IF h.wrap[w].obj \notin gone THEN h.wrap[w]
                ELSE IF h.wrap[w].count = 1 THEN Blank
                ELSE [h.wrap[w] EXCEPT !.obj = None, !.count = @ - 1, !.conns = <<>>]]]

\* Mutant of Freed: an object that has a parent is deleted too.
FreedOwned(h, w) ==
  LET o == h.wrap[w].obj
      left == [h EXCEPT !.wrap[w] = Blank, !.whash = [p \in Objects |-> IF p = o THEN None ELSE h.whash[p]]]
  IN IF o # None /\ h.wrap[w].delete THEN Destroyed(left, Subtree(left, o)) ELSE left

\* ~QObjectWrapper.
Freed(h, w) ==
  LET o == h.wrap[w].obj
      left == [h EXCEPT !.wrap[w] = Blank, !.whash = [p \in Objects |-> IF p = o THEN None ELSE h.whash[p]]]
  IN IF o # None /\ parent(h, o) = None /\ h.wrap[w].delete THEN Destroyed(left, Subtree(left, o)) ELSE left

\* Mutant of Dropped: a wrapper gives up its own reference whatever the object.
DroppedSingle(h, w) ==
  IF h.wrap[w].count <= 2 THEN Freed(h, w) ELSE [h EXCEPT !.wrap[w].count = @ - 1]

\* RefobjBase::_drop, with ref_single when one reference is left.
Dropped(h, w) ==
  LET n == h.wrap[w].count - 1
      o == h.wrap[w].obj
      single == n = 1 /\ o # None /\ parent(h, o) = None /\ h.wrap[w].delete
  IN IF n = 0 \/ single THEN Freed(h, w) ELSE [h EXCEPT !.wrap[w].count = n]

\* A wrapper is known for o, or there is memory for one.
Wrappable(h, o) == h.whash[o] # None \/ \E w \in Wrappers : ~Live(h, w)

\* QObjectWrapper::get_wrapper, with the Ref it returns.
get_wrapper(h, o) ==
  IF h.whash[o] # None THEN [h EXCEPT !.wrap[h.whash[o]].count = @ + 1]
  ELSE LET w == CHOOSE x \in Wrappers : ~Live(h, x) IN
       [h EXCEPT !.whash[o] = w,
                 !.wrap[w] = [Blank EXCEPT !.obj = o, !.count = 2, !.delete = parent(h, o) # None]]

\* set_reparent, set_delete.
Flagged(h, w, reparent, delete) ==
  [h EXCEPT !.wrap[w] = [h.wrap[w] EXCEPT !.reparent = reparent, !.delete = delete]]

SetParent(h, o, p) ==
  LET left == [h EXCEPT !.kids = [q \in Objects |-> Kept(h.kids[q], Objects \ {o})]]
  IN IF p = None THEN left ELSE [left EXCEPT !.kids[p] = Append(@, o)]

\* No child of an object that is iterated over goes away.
Shrinks(h) ==
  /\ iter # NoIter /\ heap.wrap[iter.w].obj # None
  /\ LET o == heap.wrap[iter.w].obj IN Len(h.kids[o]) < Len(heap.kids[o])

\* A step leaves heap h: what is disconnected is not called by an emission in progress.
\* Careful: not while its children are iterated over does an object lose one.
Becomes(h) ==
  /\ Careful => ~Shrinks(h)
  /\ heap' = h
  /\ calls' = [i \in DOMAIN calls |->
                [calls[i] EXCEPT !.todo = Kept(@, {k.id : k \in ToSet(h.wrap[calls[i].w].conns)})]]

Open == phase = "open"

(***************************************************************************)
(* What C++ does with its QObjects.                                        *)
(***************************************************************************)

New(o, p) ==
  /\ Open /\ "tree" \in uses.does
  /\ o \in uses.objects \ heap.exist /\ p \in heap.exist \cup {None}
  /\ LET h == [heap EXCEPT !.exist = @ \cup {o}] IN
     Becomes(SetParent(h, o, p))
  /\ UNCHANGED <<uses, lua, cpp, iter, phase>>

Delete(o) ==
  /\ Open /\ "delete" \in uses.does
  /\ o \in heap.exist
  /\ Becomes(Destroyed(heap, Subtree(heap, o)))
  /\ UNCHANGED <<uses, lua, cpp, iter, phase>>

\* A QObject given a parent or none.  Careful: whoever takes its parent from a QObject that only
\* its wrapper knows is the one to delete it, and names of children stay distinct.
Known(o) == \A w \in Wrappers : heap.whash[o] = w /\ heap.wrap[w].delete => lua[w] + cpp[w] > 0

Move(o, p) ==
  /\ Open /\ "tree" \in uses.does
  /\ o \in heap.exist /\ p \in heap.exist \cup {None} /\ p # parent(heap, o)
  /\ p # None => p \notin Subtree(heap, o)
  /\ Careful => /\ p = None => Known(o)
                /\ p # None /\ heap.name[o] # None
                     => \A c \in ToSet(heap.kids[p]) : heap.name[c] # heap.name[o]
  /\ Becomes(SetParent(heap, o, p))
  /\ UNCHANGED <<uses, lua, cpp, iter, phase>>

(***************************************************************************)
(* References to wrappers.                                                 *)
(***************************************************************************)

\* C++ gives Lua a QObject, by Value(ls, obj), or by the get_wrapper that sets the flags.
Give(o, flags) ==
  /\ Open /\ Wrappable(heap, o)
  /\ o \in heap.exist
  /\ LET h == get_wrapper(heap, o)
         w == h.whash[o]
     IN /\ lua[w] < uses.refs
        /\ lua' = [lua EXCEPT ![w] = @ + 1]
        /\ Becomes(IF flags = None THEN h ELSE Flagged(h, w, flags.reparent, flags.delete))
  /\ UNCHANGED <<uses, cpp, iter, phase>>

\* A Ref that C++ takes from a wrapper of Lua, and drops.
Hold(w) ==
  /\ Open /\ "hold" \in uses.does
  /\ lua[w] > 0 /\ cpp[w] < uses.refs
  /\ cpp' = [cpp EXCEPT ![w] = @ + 1]
  /\ Becomes([heap EXCEPT !.wrap[w].count = @ + 1])
  /\ UNCHANGED <<uses, lua, iter, phase>>

Release(w) ==
  /\ Open
  /\ cpp[w] > 0
  /\ cpp' = [cpp EXCEPT ![w] = @ - 1]
  /\ Becomes(Dropped(heap, w))
  /\ UNCHANGED <<uses, lua, iter, phase>>

\* Lua collects a userdata that it has no use for: not the sender of a slot that runs, nor
\* what is iterated over.
Used(w) == Cardinality({i \in DOMAIN calls : calls[i].w = w}) + (IF iter.w = w THEN 1 ELSE 0)

Collect(w) ==
  /\ phase \in {"open", "closing"}
  /\ lua[w] > IF phase = "open" THEN Used(w) ELSE 0
  /\ lua' = [lua EXCEPT ![w] = @ - 1]
  /\ Becomes(Dropped(heap, w))
  /\ UNCHANGED <<uses, cpp, iter, phase>>

(***************************************************************************)
(* Children as entries of a table.                                         *)
(***************************************************************************)

get_child(h, o, n) ==
  LET K == {i \in DOMAIN h.kids[o] : h.name[h.kids[o][i]] = n}
  IN IF K = {} THEN None ELSE h.kids[o][Min(K)]

\* meta_index: a child comes before a member of the same name.
meta_index(w, n) ==
  /\ Open /\ "entries" \in uses.does
  /\ lua[w] > 0 /\ heap.wrap[w].obj # None
  /\ LET c == get_child(heap, heap.wrap[w].obj, n) IN
     /\ c # None /\ Wrappable(heap, c)
     /\ LET h == get_wrapper(heap, c) IN
        /\ lua[h.whash[c]] < uses.refs
        /\ lua' = [lua EXCEPT ![h.whash[c]] = @ + 1]
        /\ Becomes(h)
  /\ UNCHANGED <<uses, cpp, iter, phase>>

\* QObjectWrapper::reparent: the heap, and whether it throws.
Result(h, ok) == [heap |-> h, ok |-> ok]
reparent(h, w, p) ==
  IF h.wrap[w].reparent THEN Result(SetParent(h, h.wrap[w].obj, p), TRUE) ELSE Result(h, FALSE)

\* vobj.setObjectName and reparent: the name is set before reparent may refuse.
Adopt(h, v, n, o) == reparent([h EXCEPT !.name[h.wrap[v].obj] = n], v, o)

\* Mutant of Assigned: a new child goes in beside the old one.
AssignedBeside(h, o, n, v) ==
  LET c == get_child(h, o, n) IN
  IF v # None THEN Adopt(h, v, n, o)
  ELSE IF c = None THEN Result(h, FALSE) ELSE reparent(h, h.whash[c], None)

\* The body of meta_newindex, with v the wrapper assigned or None for nil.
Assigned(h, o, n, v) ==
  LET c == get_child(h, o, n) IN
  IF c # None
    THEN LET out == reparent(h, h.whash[c], None) IN
         IF v = None \/ ~out.ok THEN out ELSE Adopt(out.heap, v, n, o)
  ELSE IF n \in Members \/ v = None THEN Result(h, n \in Members)
  ELSE Adopt(h, v, n, o)

\* meta_newindex.  The wrapper of the old child is referred to meanwhile.  Careful: what is
\* assigned may be given a parent, and is not the object itself or above it.
meta_newindex(w, n, v) ==
  /\ Open /\ "entries" \in uses.does
  /\ lua[w] > 0 /\ heap.wrap[w].obj # None
  /\ v # None => lua[v] > 0 /\ heap.wrap[v].obj # None
  /\ LET o == heap.wrap[w].obj
         c == get_child(heap, o, n)
         h == IF c = None THEN heap ELSE get_wrapper(heap, c)
         out == Assigned(h, o, n, v).heap
         end == IF c = None THEN out ELSE Dropped(out, h.whash[c])
     IN /\ c # None => Wrappable(heap, c)
        /\ v # None => o \notin Subtree(heap, heap.wrap[v].obj)
        /\ Careful /\ v # None => heap.wrap[v].reparent
        /\ Becomes(end)
  /\ UNCHANGED <<uses, lua, cpp, iter, phase>>

(***************************************************************************)
(* Iteration over the children: QObjectIterator.                           *)
(***************************************************************************)

More(h, w, id) == h.wrap[w].obj # None /\ id < Len(h.kids[h.wrap[w].obj])

Iterate(w) ==
  /\ Open /\ "iterate" \in uses.does
  /\ iter = NoIter
  /\ lua[w] > 0 /\ heap.wrap[w].obj # None
  /\ iter' = IF More(heap, w, 0) THEN [w |-> w, id |-> 0] ELSE NoIter
  /\ UNCHANGED <<uses, heap, lua, cpp, calls, phase>>

\* lua_cmd_iterator: more() is what update() found at the last step, the child is read by its
\* number now.  A child that is not there is undefined behaviour, here the end.
Step ==
  /\ Open
  /\ iter # NoIter
  /\ LET w == iter.w IN
     IF More(heap, w, iter.id)
       THEN LET c == heap.kids[heap.wrap[w].obj][iter.id + 1]
                h == get_wrapper(heap, c)
            IN /\ Wrappable(heap, c) /\ lua[h.whash[c]] < uses.refs
               /\ lua' = [lua EXCEPT ![h.whash[c]] = @ + 1]
               /\ Becomes(h)
               /\ iter' = IF More(heap, w, iter.id + 1) THEN [iter EXCEPT !.id = @ + 1] ELSE NoIter
       ELSE iter' = NoIter /\ UNCHANGED <<heap, lua, calls>>
  /\ UNCHANGED <<uses, cpp, phase>>

(***************************************************************************)
(* Lua functions connected to signals.                                     *)
(***************************************************************************)

Free(slots, id) == id \notin DOMAIN slots
With(f, id, e) == [x \in DOMAIN f \cup {id} |-> IF x = id THEN e ELSE f[x]]
Without(f, ids) == [x \in DOMAIN f \ ids |-> f[x]]
Running(w) == {calls[i].id : i \in {j \in DOMAIN calls : calls[j].w = w}}

_lua_connect(w, sig, fn) ==
  LET x == heap.wrap[w]
      id == CHOOSE i \in x.next .. MaxSlots + 1 :
              Free(x.slots, i) /\ \A j \in x.next .. i - 1 : ~Free(x.slots, j)
  IN /\ x.next <= MaxSlots /\ \E i \in x.next .. MaxSlots : Free(x.slots, i)
     /\ Becomes([heap EXCEPT !.wrap[w] =
                   [x EXCEPT !.slots = With(x.slots, id, [fn |-> fn, sig |-> sig]),
                             !.conns = Append(x.conns, [id |-> id, sig |-> sig]),
                             !.next = id + 1]])

\* Careful: not a slot that runs, whose function is still being called through the entry that goes.
Disconnected(w, ids) ==
  /\ ids # {}
  /\ Careful => ids \cap Running(w) = {}
  /\ LET x == heap.wrap[w] IN
     Becomes([heap EXCEPT !.wrap[w] =
               [x EXCEPT !.slots = Without(x.slots, ids),
                         !.conns = Kept(x.conns, {k \in ToSet(x.conns) : k.id \notin ids}),
                         !.next = Min(ids \cup {x.next})]])

\* Of the slots with this signal and function one is disconnected.
_lua_disconnect(w, sig, fn) ==
  \E id \in DOMAIN heap.wrap[w].slots :
    heap.wrap[w].slots[id] = [fn |-> fn, sig |-> sig] /\ Disconnected(w, {id})

_lua_disconnect_all(w, sig) ==
  Disconnected(w, {id \in DOMAIN heap.wrap[w].slots : heap.wrap[w].slots[id].sig = sig})

\* qt_metacall: the function is called with the wrapper as its first argument.
Called(w, id, todo, rest) ==
  /\ lua[w] < uses.refs
  /\ lua' = [lua EXCEPT ![w] = @ + 1]
  /\ heap' = [heap EXCEPT !.wrap[w].count = @ + 1]
  /\ calls' = Append(rest, [w |-> w, id |-> id, todo |-> todo])

Emit(o, sig) ==
  /\ Open /\ "signals" \in uses.does /\ Len(calls) < 2
  /\ o \in heap.exist /\ heap.whash[o] # None
  /\ LET w == heap.whash[o]
         ks == Kept(heap.wrap[w].conns, {k \in ToSet(heap.wrap[w].conns) : k.sig = sig})
         ids == [i \in DOMAIN ks |-> ks[i].id]
     IN ids # <<>> /\ Called(w, Head(ids), Tail(ids), calls)
  /\ UNCHANGED <<uses, cpp, iter, phase>>

\* A function returns, and the emission goes on to what is still connected.
SlotReturn ==
  /\ Open /\ calls # <<>>
  /\ LET c == Last(calls) IN
     IF c.todo # <<>> THEN Called(c.w, Head(c.todo), Tail(c.todo), Front(calls))
     ELSE calls' = Front(calls) /\ UNCHANGED <<heap, lua>>
  /\ UNCHANGED <<uses, cpp, iter, phase>>

(***************************************************************************)
(* ~State.                                                                 *)
(***************************************************************************)

\* Every slot is disconnected, then lua_close collects every userdata (Collect).  Careful: no
\* Ref to a wrapper is left in C++.
Close ==
  /\ Open
  /\ calls = <<>> /\ iter = NoIter
  /\ Careful => \A w \in Wrappers : cpp[w] = 0
  /\ phase' = "closing"
  /\ heap' = [heap EXCEPT !.wrap = [w \in Wrappers |->
                IF heap.wrap[w].obj = None THEN heap.wrap[w]
                ELSE [heap.wrap[w] EXCEPT !.slots = <<>>, !.conns = <<>>, !.next = 1]]]
  /\ UNCHANGED <<uses, lua, cpp, calls, iter>>

\* The wrappers left in the hash are dropped.
Wipe ==
  /\ phase = "closing"
  /\ \A w \in Wrappers : lua[w] = 0
  /\ IF \E o \in Objects : heap.whash[o] # None
       THEN /\ \E o \in Objects : heap.whash[o] # None /\ heap' = Dropped(heap, heap.whash[o])
            /\ UNCHANGED phase
       ELSE phase' = "closed" /\ UNCHANGED heap
  /\ UNCHANGED <<uses, lua, cpp, calls, iter>>

(***************************************************************************)
(* The specification.                                                      *)
(***************************************************************************)

Init ==
  /\ uses \in Programs
  /\ heap = [exist |-> {}, kids |-> [o \in Objects |-> <<>>], name |-> [o \in Objects |-> None],
             whash |-> [o \in Objects |-> None], wrap |-> [w \in Wrappers |-> Blank]]
  /\ lua = [w \in Wrappers |-> 0] /\ cpp = [w \in Wrappers |-> 0]
  /\ calls = <<>> /\ iter = NoIter
  /\ phase = "open"

Flags == [reparent : {TRUE}, delete : BOOLEAN]

Next ==
  \/ \E o \in Objects :
       \/ Delete(o)
       \/ \E p \in Objects \cup {None} : New(o, p) \/ Move(o, p)
       \/ \E flags \in Flags \cup {None} : Give(o, flags)
       \/ \E sig \in Signals : Emit(o, sig)
  \/ \E w \in Wrappers :
       \/ Hold(w) \/ Release(w) \/ Collect(w) \/ Iterate(w)
       \/ \E n \in Names : meta_index(w, n) \/ \E v \in Wrappers \cup {None} : meta_newindex(w, n, v)
  \/ Step \/ SlotReturn \/ Close \/ Wipe

Spec == Init /\ [][Next]_vars

(***************************************************************************)
(* Properties.                                                             *)
(***************************************************************************)

TypeOK ==
  /\ uses \in Programs
  /\ heap.exist \subseteq Objects
  /\ heap.kids \in [Objects -> Seq(Objects)]
  /\ heap.name \in [Objects -> Names \cup {None}]
  /\ heap.whash \in [Objects -> Wrappers \cup {None}]
  /\ {lua, cpp} \subseteq [Wrappers -> 0 .. uses.refs]
  /\ phase \in {"open", "closing", "closed"}

\* The count of a wrapper is what refers to it: Lua, C++, and itself exactly while it has a
\* QObject.  One reference given up twice, or never, frees it under its users or keeps it.
CountsRight ==
  \A w \in Wrappers :
    heap.wrap[w].count = lua[w] + cpp[w] + (IF heap.wrap[w].obj # None THEN 1 ELSE 0)

\* The hash and the wrappers agree, so no QObject has two wrappers, and no wrapper outlives its
\* QObject with the address of it, at which another QObject may be by then.
HashExact ==
  /\ \A o \in Objects, w \in Wrappers : heap.whash[o] = w <=> heap.wrap[w].obj = o
  /\ \A w \in Wrappers : heap.wrap[w].obj \in heap.exist \cup {None}
  /\ phase = "closed" => \A w \in Wrappers : heap.wrap[w].obj = None

\* What Qt has connected for a QObject is what its wrapper has in _lua_slots, and a slot that
\* runs is in it (asserted by qt_metacall).
SlotsMatch ==
  /\ \A w \in Wrappers :
       LET x == heap.wrap[w] IN
       IF x.obj = None THEN x.conns = <<>>
       ELSE /\ Len(x.conns) = Cardinality(DOMAIN x.slots)
            /\ \A k \in ToSet(x.conns) : k.id \in DOMAIN x.slots /\ x.slots[k.id].sig = k.sig
  /\ \A i \in DOMAIN calls : calls[i].id \in DOMAIN heap.wrap[calls[i].w].slots

\* A QObject that is to be deleted with its wrapper, has no parent and is not known any more to
\* Lua or C++ has been deleted.
NoneLeft ==
  \A w \in Wrappers :
    LET x == heap.wrap[w] IN
    ~(x.obj # None /\ x.delete /\ parent(heap, x.obj) = None /\ lua[w] + cpp[w] = 0)

\* An assignment to a name makes the QObject assigned the child of that name, or none for nil,
\* or it changes no child and no name at all.
AssignsWholeOrNot ==
  [][\A w \in Wrappers, n \in Names, v \in Wrappers \cup {None} :
       meta_newindex(w, n, v) =>
         \/ heap'.kids = heap.kids /\ heap'.name = heap.name
         \/ get_child(heap', heap.wrap[w].obj, n) = IF v = None THEN None ELSE heap.wrap[v].obj]_vars

\* An iteration that says it has more has a child to read (doc of Iterator::more).
MoreIsThere ==
  iter # NoIter /\ heap.wrap[iter.w].obj # None => iter.id < Len(heap.kids[heap.wrap[iter.w].obj])

\* Wrappers, QObjects and slots agree, however Lua, C++ and Qt hold, destroy, connect and
\* reparent them, and until the State is gone.
WrappersAgree == CountsRight /\ HashExact /\ SlotsMatch /\ NoneLeft /\ MoreIsThere
=============================================================================
