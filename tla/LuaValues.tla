----------------------------- MODULE LuaValues ------------------------------
(***************************************************************************)
(* Value and ValueRef objects: each owns one slot, or two, of the registry *)
(* table of its interpreter, by a number no other object has, and every    *)
(* operation goes through the Lua stack of the coroutine that runs.        *)
(*                                                                         *)
(* The interpreter is used as the code uses it: a stack of values, on      *)
(* which operations push and from which they pop, also when they fail.     *)
(***************************************************************************)
EXTENDS Integers, Sequences, FiniteSets, SequencesExt

CONSTANTS
  Val, Ref,    \* the Value and the ValueRef objects of the program
  Interp,      \* the State objects
  Slot,        \* bound: the numbers _id_counter hands out
  Number, Text, Numeric, \* numbers and strings, and the strings strtod reads whole
  Table, Userdata, \* tables and userdata that can be indexed
  NullUd, Foreign, Bare, \* userdata without an object; of another library;
               \* of another library, and without metatable
  Function, Thread, \* the Lua functions and coroutines
  Guarded,     \* the tables and userdata whose accesses raise an error
  Programs,    \* bound: the objects of C++ code and the values it gives to them
  Key,         \* bound: the keys of references
  Kept,        \* bound: the values that are written to entries
  Body,        \* Body[c]: the table c, or the object the userdata c refers to
  Global,      \* Global[s]: the table of global variables
  Block, Target, \* the addresses of Lua's blocks; of the objects of userdata
  Rank,        \* the order lua_lessthan gives to numbers and strings
  Nil, None,
  Careful      \* whether C++ code keeps clear of what the code gets wrong

Container == Table \cup Userdata
Own == Userdata \cup NullUd
AnyUd == Own \cup Foreign \cup Bare
LuaVal == {Nil} \cup Number \cup Text \cup Table \cup AnyUd \cup Function \cup Thread
Obj == Val \cup Ref

ASSUME LuaValuesAssumption ==
  /\ Val \cap Ref = {} /\ None \notin Interp
  /\ Slot \subseteq Nat \ {0} /\ IsFiniteSet(Slot)
  /\ Key \subseteq LuaVal \ {Nil} /\ Programs \subseteq SUBSET (LuaVal \cup Obj)
  /\ Kept \subseteq LuaVal
  /\ Guarded \subseteq Container
  /\ Global \in [Interp -> Table]
  /\ Careful \in BOOLEAN

(* A value has one type.                                                   *)
ASSUME TypesAssumption ==
  /\ Nil \notin Number \cup Text \cup Table \cup AnyUd \cup Function \cup Thread
  /\ Number \cap (Text \cup Table \cup AnyUd \cup Function \cup Thread) = {}
  /\ Text \cap (Table \cup AnyUd \cup Function \cup Thread) = {}
  /\ Table \cap (AnyUd \cup Function \cup Thread) = {}
  /\ AnyUd \cap (Function \cup Thread) = {} /\ Function \cap Thread = {}
  /\ Own \cap (Foreign \cup Bare) = {}

(* No two blocks have one address, and Lua orders numbers, and strings.    *)
ASSUME OrderAssumption ==
  /\ \A v \in Number \cup Text : Rank[v] \in Nat
  /\ \A v, w \in Number : Rank[v] = Rank[w] => v = w
  /\ \A v, w \in Text : Rank[v] = Rank[w] => v = w
  /\ \A v \in Own : Target[v] \in Nat
  /\ \A v \in Table \cup AnyUd \cup Function \cup Thread : Block[v] \in Nat
  /\ \A v, w \in Table \cup AnyUd \cup Function \cup Thread : Block[v] = Block[w] => v = w

VARIABLES
  alive,  \* the State objects that exist
  obj,    \* obj[o]: the State o points to and the numbers it has: _id, or
          \* _table_id and _key_id
  reg,    \* reg[s][i]: the slot i of the registry of s
  store,  \* store[Body[c]][k]: the entries of tables and objects
  uses,   \* the objects of C++ code, and the values that it gives or makes
  stack   \* stack[s]: the Lua stack of s, at first the arguments of a callback

vars == <<alive, obj, reg, store, stack, uses>>

Bodies == {Body[c] : c \in Container}
Literal == (UNION Programs) \ Obj

(* An object that does not exist, or has no number yet.                    *)
Blank == [st |-> None, id |-> 0, key |-> 0]

Init ==
  /\ alive = Interp
  /\ obj = [o \in Obj |-> Blank]
  /\ reg = [s \in Interp |-> [i \in Slot |-> Nil]]
  /\ store = [b \in Bodies |-> [k \in Key |-> Nil]]
  /\ uses \in Programs
  /\ stack = [s \in Interp |-> <<Global[s]>>]

-----------------------------------------------------------------------------
(* The numbers handed out are those no object has, an object that was      *)
(* moved from keeping its own.                                             *)
Taken == {obj[o].id : o \in Obj} \cup {obj[o].key : o \in Obj}
Unused == Slot \ Taken
Fresh == CHOOSE i \in Unused : \A j \in Unused : i <= j
Fresh2 == CHOOSE i \in Unused \ {Fresh} : \A j \in Unused \ {Fresh} : i <= j
Left == Cardinality(Unused)

(* The Lua API.                                                            *)
Push(st, v) == Append(st, v)
Pop(st, n) == SubSeq(st, 1, Len(st) - n)
Ix(st, i) == IF i < 0 THEN st[Len(st) + 1 + i] ELSE st[i]

Entry(c, k) == IF k \in Key THEN store[Body[c]][k] ELSE Nil

(* State::lua_pgettable: the key on the stack becomes the entry; an error  *)
(* is thrown for what cannot be indexed or fails, and leaves the key.      *)
PGetTable(st, i) ==
  LET c == Ix(st, i)
  IN  IF c \notin Container \ Guarded
      THEN [err |-> TRUE, st |-> st]
      ELSE [err |-> FALSE, st |-> Push(Pop(st, 1), Entry(c, Ix(st, -1)))]

(* ValueBase::push_value.                                                  *)
PushSlot(s, st, i) == Push(st, reg[s][i])

PushValue(s, st, o) ==
  IF obj[o].st = None THEN [err |-> FALSE, st |-> Push(st, Nil)]
  ELSE IF o \in Val THEN [err |-> FALSE, st |-> PushSlot(s, st, obj[o].id)]
  ELSE LET p == PGetTable(PushSlot(s, PushSlot(s, st, obj[o].id), obj[o].key), -2)
       IN  IF p.err THEN [err |-> TRUE, st |-> Pop(p.st, 2)]
           ELSE [err |-> FALSE, st |-> Push(Pop(p.st, 2), Ix(p.st, -1))]

(* UserData::get_ud: v is on top of the stack, the metatables are pushed   *)
(* to be compared.  The last pop is meant for the metatable of v.          *)
get_ud(st, v) ==
  IF v \in Own THEN Pop(Push(Push(st, Nil), Nil), 2)
  ELSE IF v \in Foreign THEN Pop(Pop(Push(Push(st, Nil), Nil), 1), 1)
  ELSE Pop(st, 1)

pop_ud(st, v) == Pop(get_ud(st, v), 1)

convert_error(st) == Pop(st, 1)

(* The value an object stands for, Nil where reading it fails.             *)
Read(o) ==
  LET s == obj[o].st
  IN  IF s = None THEN Nil
      ELSE IF PushValue(s, << >>, o).err THEN Nil ELSE Last(PushValue(s, << >>, o).st)

(* The conversions and queries.  Each of them gives the stack it leaves,   *)
(* from the stack with the value v on top.                                 *)
to_boolean(st, v) == Pop(st, 1)

(* Mutant of to_string: what cannot be converted is not popped.             *)
to_string_leaving(st, v) == IF v \in Number \cup Text THEN Pop(st, 1) ELSE st

to_string(st, v) == IF v \in Number \cup Text THEN Pop(st, 1) ELSE convert_error(st)

to_number(st, v) ==
  IF v \in Number \/ v \in Numeric THEN Pop(st, 1)
  ELSE IF v \in Text THEN convert_error(Pop(st, 1))
  ELSE convert_error(st)

to_userdata(st, v) ==
  IF v \in AnyUd THEN pop_ud(st, v) ELSE IF v = Nil THEN Pop(st, 1) ELSE convert_error(st)

to_bytecode(st, v) == IF v \in Function THEN Pop(st, 1) ELSE convert_error(st)

len(st, v) == IF v \in AnyUd THEN pop_ud(st, v) ELSE Pop(st, 1)

(* The nil pushed as first key is replaced by a key and its value, popped, *)
(* or left to the handler of an error.                                     *)
is_empty(st, v) ==
  IF v \in AnyUd THEN pop_ud(st, v)
  ELSE IF v \notin Table THEN Pop(st, 1)
  ELSE LET key == Push(st, Nil)
       IN  IF \A k \in Key : store[Body[v]][k] = Nil
           THEN Pop(Pop(key, 1), 1)
           ELSE Pop(Push(Push(Pop(key, 1), Nil), Nil), 3)

new_iterator(st, v) == IF v \in AnyUd THEN pop_ud(st, v) ELSE Pop(st, 1)

is_dead(st, v) == Pop(st, 1)

(* An object is looked at, or an error in doing so caught.                 *)
Looked(st, v) == Pop(IF v \in AnyUd THEN get_ud(st, v) ELSE st, 1)
type_name_u(st, v) == Looked(st, v)
to_string_p(st, v) == Looked(st, v)
support(st, v) == Looked(st, v)

(* operator== with a number or a string of C++.                            *)
equals(st, v) == Pop(st, 1)

(* A program that keeps clear of the code's defects does not convert to a  *)
(* number a string that is none, which is popped twice, and has no userdata*)
(* without metatable, which pop_ud pops twice.                             *)
Query(o) ==
  LET s == obj[o].st
      p == PushValue(s, stack[s], o)
      v == Ix(p.st, -1)
  IN
  /\ s # None
  /\ IF p.err
     THEN stack' = [stack EXCEPT ![s] = p.st]
     ELSE /\ Careful => v \notin Bare
          /\ \E st \in (IF Careful /\ v \in Text \ Numeric THEN {} ELSE {to_number(p.st, v)}) \cup
                       {to_boolean(p.st, v), to_string(p.st, v), to_userdata(p.st, v), to_bytecode(p.st, v), len(p.st, v),
                        is_empty(p.st, v), new_iterator(p.st, v), is_dead(p.st, v), equals(p.st, v),
                        type_name_u(p.st, v), to_string_p(p.st, v), support(p.st, v)} :
               stack' = [stack EXCEPT ![s] = st]
  /\ UNCHANGED <<alive, obj, reg, store, uses>>

-----------------------------------------------------------------------------
(* Comparison: what makes two values one key of a hash or a map.           *)
TypeNo(v) ==
  CASE v = Nil -> 0 [] v \in Number -> 3 [] v \in Text -> 4 [] v \in Table -> 5
    [] v \in Function -> 6 [] v \in AnyUd -> 7 [] v \in Thread -> 8

Equal(v, w) == IF v \in Own /\ w \in Own THEN Target[v] = Target[w] ELSE v = w

(* Mutant of Less: userdata are ordered by block, whatever they refer to.  *)
LessBlock(v, w) ==
  IF TypeNo(v) # TypeNo(w) THEN TypeNo(v) < TypeNo(w)
  ELSE IF v = Nil THEN FALSE
  ELSE IF v \in Number \cup Text THEN Rank[v] < Rank[w]
  ELSE Block[v] < Block[w]

Less(v, w) ==
  IF TypeNo(v) # TypeNo(w) THEN TypeNo(v) < TypeNo(w)
  ELSE IF v \in Own /\ w \in Own THEN Target[v] < Target[w]
  ELSE IF v = Nil THEN FALSE
  ELSE IF v \in Number \cup Text THEN Rank[v] < Rank[w]
  ELSE Block[v] < Block[w]

Hash(v) ==
  IF v = Nil THEN 0
  ELSE IF v \in Number \cup Text THEN Rank[v]
  ELSE IF v \in Own THEN Target[v]
  ELSE Block[v]

(* operator== and operator<, which catch what push_value and get_ud throw. *)
Compare(o, x) ==
  LET s == obj[o].st
      p == PushValue(s, PushValue(s, stack[s], x).st, o)
      v == Ix(p.st, -1)
      w == Ix(p.st, -2)
      plain == v \in AnyUd /\ w \in AnyUd /\ (v \in Bare \/ (v \in Own /\ w \in Bare))
  IN
  /\ s # None /\ obj[x].st = s
  /\ \/ /\ p.err
        /\ stack' = [stack EXCEPT ![s] = Pop(p.st, 1)]
     \/ /\ ~ p.err
        /\ Careful => ~ plain
        /\ stack' = [stack EXCEPT ![s] = Pop(p.st, IF plain THEN 3 ELSE 2)]
  /\ UNCHANGED <<alive, obj, reg, store, uses>>

-----------------------------------------------------------------------------
(* Writing slots.  A slot is written by pushing its number and a value,    *)
(* which lua_rawset pops.                                                  *)
Wrote(s, st, i, v) ==
  /\ stack' = [stack EXCEPT ![s] = Pop(Push(Push(st, i), v), 2)]
  /\ reg' = [reg EXCEPT ![s][i] = v]

Has(s, i) == [st |-> s, id |-> i, key |-> 0]

Exists(o) == obj[o] # Blank

(* Value(), Value(ls), Value(ls, v): a new number.                         *)
ConstructNull(x) ==
  /\ ~ Exists(x) /\ Left >= 1
  /\ obj' = [obj EXCEPT ![x] = Has(None, Fresh)]
  /\ UNCHANGED <<alive, reg, store, stack, uses>>

Construct(x, s, v) ==
  /\ ~ Exists(x) /\ s \in alive /\ Left >= 1
  /\ obj' = [obj EXCEPT ![x] = Has(s, Fresh)]
  /\ Wrote(s, stack[s], Fresh, v)
  /\ UNCHANGED <<alive, store, uses>>

(* Value::new_table.  The table is one that nothing refers to any more.    *)
Referenced == (UNION {Range(reg[s]) \cup Range(stack[s]) : s \in Interp})
              \cup (UNION {Range(store[b]) : b \in Bodies})

NewTable(x, s, t) ==
  /\ ~ Exists(x) /\ s \in alive /\ Left >= 1
  /\ t \notin Referenced \cup Range(Global) \cup Guarded
  /\ obj' = [obj EXCEPT ![x] = Has(s, Fresh)]
  /\ Wrote(s, stack[s], Fresh, t)
  /\ store' = [store EXCEPT ![Body[t]] = [k \in Key |-> Nil]]
  /\ UNCHANGED <<alive, uses>>

(* Value::new_thread: the number and the thread wait on the stack while    *)
(* the entry point m is looked at; type() pushes and pops it again.        *)
NewThread(x, s, m, th) ==
  LET waiting == Push(Push(stack[s], Fresh), th)
      main == PushValue(s, waiting, m)
  IN
  /\ ~ Exists(x) /\ s \in alive /\ Left >= 1 /\ obj[m].st \in {s, None}
  /\ IF Ix(main.st, -1) \in Function
     THEN /\ stack' = [stack EXCEPT ![s] = Pop(Pop(main.st, 1), 2)]
          /\ reg' = [reg EXCEPT ![s][Fresh] = th]
          /\ obj' = [obj EXCEPT ![x] = Has(s, Fresh)]
     ELSE /\ stack' = [stack EXCEPT ![s] = Pop(main.st, 3)]
          /\ UNCHANGED <<reg, obj>>
  /\ UNCHANGED <<alive, store, uses>>

(* Value::operator= from C++ values, which does nothing without a State.   *)
AssignLiteral(x, v) ==
  LET s == obj[x].st
  IN
  /\ s # None
  /\ Wrote(s, stack[s], obj[x].id, v)
  /\ UNCHANGED <<alive, obj, store, uses>>

(* Value::operator=(const Value &) and the copy constructor: what was in   *)
(* the slot of the other interpreter goes, then the number of x is used in *)
(* that of y.  An object that was moved from has the number it had before, *)
(* which is that of another object now.                                    *)
Reused(x) == \E o \in Obj \ {x} : obj[x].id \in {obj[o].id, obj[o].key}

(* Mutant of Cleared: the slot of the former interpreter is left.          *)
ClearedNothing(x, s) == reg

Cleared(x, s) ==
  IF obj[x].st \in Interp \ {s} THEN [reg EXCEPT ![obj[x].st][obj[x].id] = Nil] ELSE reg

Assign(x, y) ==
  LET s == obj[y].st
      i == IF Exists(x) THEN obj[x].id ELSE Fresh
  IN
  /\ Exists(y) /\ (~ Exists(x) => Left >= 1)
  /\ Careful => ~ (Exists(x) /\ obj[x].st = None /\ s # None /\ Reused(x))
  /\ obj' = [obj EXCEPT ![x] = Has(s, i)]
  /\ IF s = None
     THEN /\ reg' = Cleared(x, s)
          /\ UNCHANGED stack
     ELSE LET p == PushValue(s, Push(stack[s], i), y)
          IN  /\ reg' = [Cleared(x, s) EXCEPT ![s][i] = Ix(p.st, -1)]
              /\ stack' = [stack EXCEPT ![s] = Pop(p.st, 2)]
  /\ UNCHANGED <<alive, store, uses>>

(* The move constructors and operator=(Value &&), which cleans up first.   *)
Cleaned(o) ==
  IF obj[o].st = None THEN reg
  ELSE [reg EXCEPT ![obj[o].st] = [i \in Slot |->
         IF i \in {obj[o].id, obj[o].key} THEN Nil ELSE @[i]]]

Gone(o) == [obj[o] EXCEPT !.st = None]

(* Mutant of MoveTo: the source keeps its State pointer.                   *)
MoveToKeeping(x, y) ==
  /\ Exists(y) /\ x # y
  /\ reg' = Cleaned(x)
  /\ obj' = [obj EXCEPT ![x] = obj[y]]
  /\ UNCHANGED <<alive, store, stack, uses>>

MoveTo(x, y) ==
  /\ Exists(y) /\ x # y
  /\ reg' = Cleaned(x)
  /\ obj' = [obj EXCEPT ![x] = obj[y], ![y] = Gone(y)]
  /\ UNCHANGED <<alive, store, stack, uses>>

Destroy(o) ==
  /\ Exists(o)
  /\ reg' = Cleaned(o)
  /\ obj' = [obj EXCEPT ![o] = Blank]
  /\ UNCHANGED <<alive, store, stack, uses>>

(* x = o.at(k): the result has a number of its own, which x takes over.    *)
(* A string or number has no entries; an error leaves x as it was.         *)
Index(x, o, k) ==
  LET s == obj[o].st
      c == PushValue(s, stack[s], o)
      v == Ix(c.st, -1)
      p == PGetTable(PushValue(s, c.st, k).st, -2)
      result(e) == /\ reg' = [Cleaned(x) EXCEPT ![s][Fresh] = e]
                   /\ obj' = [obj EXCEPT ![x] = Has(s, Fresh)]
      error == UNCHANGED <<reg, obj>>
  IN
  /\ Exists(x) /\ s # None /\ obj[k].st = s /\ Left >= 1
  /\ \/ /\ v \in AnyUd
        /\ Careful => v \notin Bare
        /\ stack' = [stack EXCEPT ![s] = pop_ud(c.st, v)]
        /\ IF v \in Userdata \ Guarded THEN result(Entry(v, Read(k))) ELSE error
     \/ /\ v \in Table
        /\ stack' = [stack EXCEPT ![s] = Pop(p.st, 2)]
        /\ IF p.err THEN error ELSE result(Ix(p.st, -1))
     \/ /\ v \notin AnyUd \cup Table
        /\ stack' = [stack EXCEPT ![s] = Pop(c.st, 1)]
        /\ error
  /\ UNCHANGED <<alive, store, uses>>

-----------------------------------------------------------------------------
(* ValueRef.  The constructors copy the slots of the table and the key, or *)
(* take them over from an object that is about to go.                      *)
MakeRef(r, x, k, tablemoves, keymoves) ==
  LET s == obj[x].st
      tid == IF tablemoves THEN obj[x].id ELSE Fresh
      kid == IF keymoves THEN obj[k].id ELSE IF tablemoves THEN Fresh ELSE Fresh2
      gone == (IF tablemoves THEN {x} ELSE {}) \cup (IF keymoves THEN {k} ELSE {})
  IN
  /\ ~ Exists(r) /\ Exists(x) /\ obj[k].st = s /\ Exists(k) /\ Left >= 2
  /\ Read(k) \in Key \cup {Nil}
  /\ obj' = [o \in Obj |-> IF o = r THEN [st |-> s, id |-> tid, key |-> kid]
                           ELSE IF o \in gone THEN Gone(o) ELSE obj[o]]
  /\ IF s = None
     THEN UNCHANGED <<reg, stack>>
     ELSE /\ reg' = [reg EXCEPT ![s] = [@ EXCEPT ![tid] = reg[s][obj[x].id],
                                                 ![kid] = reg[s][obj[k].id]]]
          /\ stack' = [stack EXCEPT ![s] = Pop(Push(Push(@, kid), reg[s][obj[k].id]), 2)]
  /\ UNCHANGED <<alive, store, uses>>

CopyRef(r, q) ==
  LET s == obj[q].st
  IN
  /\ ~ Exists(r) /\ Exists(q) /\ Left >= 2
  /\ obj' = [obj EXCEPT ![r] = [st |-> s, id |-> Fresh, key |-> Fresh2]]
  /\ IF s = None
     THEN UNCHANGED reg
     ELSE reg' = [reg EXCEPT ![s] = [@ EXCEPT ![Fresh] = reg[s][obj[q].id],
                                              ![Fresh2] = reg[s][obj[q].key]]]
  /\ UNCHANGED <<alive, store, stack, uses>>

(* x = r: ValueRef::value(), and x takes over the number of the result.    *)
ReadRef(x, r) ==
  LET s == obj[r].st
      p == PGetTable(PushSlot(s, PushSlot(s, stack[s], obj[r].id), obj[r].key), -2)
  IN
  /\ Exists(x) /\ s # None /\ Left >= 1
  /\ stack' = [stack EXCEPT ![s] = Pop(p.st, 2)]
  /\ IF p.err
     THEN UNCHANGED <<reg, obj>>
     ELSE /\ reg' = [Cleaned(x) EXCEPT ![s][Fresh] = Ix(p.st, -1)]
          /\ obj' = [obj EXCEPT ![x] = Has(s, Fresh)]
  /\ UNCHANGED <<alive, store, uses>>

(* An entry is written; a guarded container raises an error instead.      *)
SetEntry(c, k, v) ==
  /\ v \in Kept \cup {Nil}
  /\ IF c \in Guarded THEN UNCHANGED store ELSE store' = [store EXCEPT ![Body[c]][k] = v]

(* table_set(y).  A nil key is ignored; userdata get the key as an object  *)
(* that borrows the slot of r and gives it back on each way out.           *)
TableSet(r, y) ==
  LET s == obj[r].st
      c == reg[s][obj[r].id]
      k == reg[s][obj[r].key]
      st1 == PushSlot(s, stack[s], obj[r].id)
      st2 == PushSlot(s, st1, obj[r].key)
      st3 == PushValue(s, st2, y).st
  IN
  /\ s # None /\ Exists(y)
  /\ \/ /\ c \in AnyUd
        /\ Careful => c \notin Bare
        /\ stack' = [stack EXCEPT ![s] = pop_ud(st1, c)]
        /\ IF c \in Userdata
           THEN k \in Key /\ SetEntry(c, k, Read(y))
           ELSE UNCHANGED store
     \/ /\ c \in Table /\ k = Nil
        /\ stack' = [stack EXCEPT ![s] = Pop(st2, 2)]
        /\ UNCHANGED store
     \/ /\ c \in Table /\ k \in Key
        /\ stack' = [stack EXCEPT ![s] = IF c \in Guarded THEN Pop(st3, 3) ELSE Pop(Pop(st3, 2), 1)]
        /\ SetEntry(c, k, Ix(st3, -1))
     \/ /\ c \notin AnyUd \cup Table
        /\ stack' = [stack EXCEPT ![s] = Pop(st1, 1)]
        /\ UNCHANGED store
  /\ UNCHANGED <<alive, obj, reg, uses>>

-----------------------------------------------------------------------------
(* The destructor of State.  QPointers to it are null from then on.        *)
Close(s) ==
  /\ s \in alive
  /\ alive' = alive \ {s}
  /\ obj' = [o \in Obj |-> IF obj[o].st = s THEN Gone(o) ELSE obj[o]]
  /\ reg' = [reg EXCEPT ![s] = [i \in Slot |-> Nil]]
  /\ stack' = [stack EXCEPT ![s] = << >>]
  /\ UNCHANGED <<store, uses>>

Vals == Val \cap uses
Refs == Ref \cap uses
Given == uses \ Obj

Next ==
  \/ \E x \in Vals : ConstructNull(x)
  \/ \E x \in Vals, s \in Interp, v \in Given : Construct(x, s, v)
  \/ \E x \in Vals, s \in Interp, t \in Table \cap uses : NewTable(x, s, t)
  \/ \E x, m \in Vals, s \in Interp, th \in Thread \cap uses : NewThread(x, s, m, th)
  \/ \E x \in Vals, v \in Given : AssignLiteral(x, v)
  \/ \E x, y \in Vals : Assign(x, y) \/ MoveTo(x, y)
  \/ \E r, q \in Refs : CopyRef(r, q) \/ (~ Exists(r) /\ MoveTo(r, q))
  \/ \E o \in Vals \cup Refs : Destroy(o) \/ Query(o)
  \/ \E o \in Vals \cup Refs, x \in Vals : Compare(o, x)
  \/ \E x, o, k \in Vals : Index(x, o, k)
  \/ \E r \in Refs, x, k \in Vals : \E tm, km \in BOOLEAN : MakeRef(r, x, k, tm, km)
  \/ \E r \in Refs, x \in Vals : ReadRef(x, r) \/ TableSet(r, x)
  \/ \E s \in Interp : Close(s)

Spec == Init /\ [][Next]_vars

-----------------------------------------------------------------------------
TypeOK ==
  /\ alive \subseteq Interp
  /\ obj \in [Obj -> [st : alive \cup {None}, id : Slot \cup {0}, key : Slot \cup {0}]]
  /\ reg \in [Interp -> [Slot -> LuaVal]]
  /\ store \in [Bodies -> [Key -> LuaVal]]
  /\ stack \in [Interp -> Seq(LuaVal)]

(* Every operation leaves the Lua stack as it found it, whatever it met    *)
(* and wherever it threw: the arguments of the callback it runs in are     *)
(* below, and State asserts an empty stack.                                *)
StackKept == [][\A s \in alive' : stack'[s] = stack[s]]_vars

(* A registry slot has one owner: no value is kept that no object can      *)
(* release, and no object writes or releases the slot of another.          *)
Slots(o) == {obj[o].id, obj[o].key} \ {0}

OneOwner ==
  /\ \A o, p \in Obj :
       o # p /\ obj[o].st # None /\ obj[p].st # None => Slots(o) \cap Slots(p) = {}
  /\ \A s \in Interp, i \in Slot :
       reg[s][i] # Nil => \E o \in Obj : obj[o].st = s /\ i \in Slots(o)

(* The values a program can meet at the same time are ordered as a map     *)
(* needs it: equal or one before the other, transitively, and equal values *)
(* have one hash.  Userdata of other libraries are not: they are compared  *)
(* by the address of their block, own ones by that of their object.        *)
Met ==
  ((UNION {Range(reg[s]) : s \in Interp}) \cup (UNION {Range(store[b]) : b \in Bodies}))
    \ (Foreign \cup Bare)

ValuesOrdered ==
  \A u, v \in Met :
    /\ Equal(u, v) <=> ~ Less(u, v) /\ ~ Less(v, u)
    /\ Equal(u, v) => Hash(u) = Hash(v)
    /\ Less(u, v) => ~ Less(v, u) /\ \A w \in Met : Less(v, w) => Less(u, w)

(* Whatever the slots are, objects behave as values and references.        *)
Sem == INSTANCE ValueSemantics WITH
  Literal <- Literal \cup Thread,
  den <- [o \in Obj |->
    IF obj[o].st = None THEN [st |-> None, val |-> Nil, key |-> Nil]
    ELSE [st  |-> obj[o].st,
          val |-> reg[obj[o].st][obj[o].id],
          key |-> IF o \in Ref THEN reg[obj[o].st][obj[o].key] ELSE Nil]]

ImplementsSemantics == Sem!Spec
=============================================================================
