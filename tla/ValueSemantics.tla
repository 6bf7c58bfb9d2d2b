--------------------------- MODULE ValueSemantics ---------------------------
(***************************************************************************)
(* What a program that uses Value and ValueRef objects expects of them:    *)
(* each object stands for one Lua value, or for an entry of a container,   *)
(* and an operation on one object changes what that object stands for, or  *)
(* one entry of a container, and nothing else.  There are no registry      *)
(* slots here, no identifiers and no Lua stack.                            *)
(***************************************************************************)
CONSTANTS
  Val, Ref,    \* the Value and the ValueRef objects of the program
  Interp,      \* the State objects
  LuaVal, Nil, \* the Lua values
  Literal,     \* those C++ code makes: numbers, strings, userdata, globals
  Container,   \* those that can be indexed
  Body,        \* Body[c]: what is indexed then, which c may share with others
  Key,         \* the keys they are indexed with
  None         \* the null State pointer

VARIABLES
  den,   \* den[o]: the interpreter and the value, or the container and key, of o
  store  \* store[b][k]: the entry k of the body b

vars == <<den, store>>

Null == [st |-> None, val |-> Nil, key |-> Nil]

(* The value an object stands for.                                         *)
Read(o) ==
  IF den[o].st = None THEN Nil
  ELSE IF o \in Val THEN den[o].val
  ELSE IF den[o].val \in Container /\ den[o].key \in Key
       THEN store[Body[den[o].val]][den[o].key]
       ELSE Nil

Init ==
  /\ den = [o \in Val \cup Ref |-> Null]
  /\ store \in [{Body[c] : c \in Container} -> [Key -> LuaVal]]

(* A value is given, copied from another object, or gone.                  *)
Give(x, s, v) ==
  /\ den' = [den EXCEPT ![x] = [st |-> s, val |-> v, key |-> Nil]]
  /\ UNCHANGED store

Copy(x, o) ==
  /\ den' = [den EXCEPT ![x] = [st |-> den[o].st, val |-> Read(o), key |-> Nil]]
  /\ UNCHANGED store

Forget(o) ==
  /\ den' = [den EXCEPT ![o] = Null]
  /\ UNCHANGED store

(* x is given the entry of what o stands for at the key k stands for.      *)
Index(x, o, k) ==
  /\ Read(o) \in Container
  /\ den' = [den EXCEPT ![x] = [st |-> den[o].st, key |-> Nil, val |->
               IF Read(k) \in Key THEN store[Body[Read(o)]][Read(k)] ELSE Nil]]
  /\ UNCHANGED store

(* An object takes over what another stands for, which is left with none.  *)
Move(x, y) ==
  /\ den' = [den EXCEPT ![y] = Null, ![x] = den[y]]
  /\ UNCHANGED store

(* A reference is made of one or two values, which may be left with none.  *)
Refer(r, x, y) ==
  /\ \E gone \in SUBSET {x, y} :
       den' = [o \in Val \cup Ref |->
                IF o = r THEN [st |-> den[x].st, val |-> Read(x), key |-> Read(y)]
                ELSE IF o \in gone THEN Null ELSE den[o]]
  /\ UNCHANGED store

CopyRef(r, q) ==
  /\ den' = [den EXCEPT ![r] = den[q]]
  /\ UNCHANGED store

(* The entry a reference stands for is written, and no other.              *)
Write(r, v) ==
  /\ den[r].val \in Container /\ den[r].key \in Key
  /\ store' = [store EXCEPT ![Body[den[r].val]][den[r].key] = v]
  /\ UNCHANGED den

(* An object is given a new, empty container.                              *)
New(x, s, c) ==
  /\ \A o \in (Val \cup Ref) \ {x} : den[o].val # c /\ den[o].key # c
  /\ den' = [den EXCEPT ![x] = [st |-> s, val |-> c, key |-> Nil]]
  /\ store' = [store EXCEPT ![Body[c]] = [k \in Key |-> Nil]]

(* The objects of an interpreter stand for nothing once it is destroyed.   *)
Close(s) ==
  /\ den' = [o \in Val \cup Ref |-> IF den[o].st = s THEN Null ELSE den[o]]
  /\ UNCHANGED store

Next ==
  \/ \E x \in Val, s \in Interp, v \in Literal : Give(x, s, v)
  \/ \E o \in Val \cup Ref : Forget(o)
  \/ \E x, o, k \in Val : Index(x, o, k)
  \/ \E x, y \in Val : Move(x, y)
  \/ \E r, q \in Ref : Move(r, q) \/ CopyRef(r, q)
  \/ \E x \in Val, o \in Val \cup Ref : Copy(x, o)
  \/ \E r \in Ref, x, y \in Val : Refer(r, x, y)
  \/ \E r \in Ref, v \in LuaVal : Write(r, v)
  \/ \E x \in Val, s \in Interp, c \in Container : New(x, s, c)
  \/ \E s \in Interp : Close(s)

Spec == Init /\ [][Next]_vars
=============================================================================
