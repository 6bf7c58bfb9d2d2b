----------------------------- MODULE MetaObjects ----------------------------
(***************************************************************************)
(* The Qt classes as Lua sees them: MetaCache gives every method,          *)
(* enumeration and property of a class a name of its own, Property reads   *)
(* and writes with the conversions of QMetaValue, Method calls slots and   *)
(* QMetaObjectWrapper makes objects.  The classes are a chain: class c is  *)
(* derived from class c - 1.                                               *)
(***************************************************************************)
EXTENDS Integers, SequencesExt

CONSTANTS
  Objects,
  Declarations, \* bound: the chains of classes; a class has methods, enums, properties,
                \* constructors (its Q_INVOKABLE ones) and creator (it is in meta_object_table)
  Numbers,      \* bound: the numbers of Lua
  IntMax,       \* bound: int is -IntMax - 1 .. IntMax
  Strings,
  MaxArgs,      \* bound: the arguments of a call
  Null,         \* no object
  Avoided       \* the types that the program has no properties or parameters of

Types == {"bool", "int", "double", "float", "string", "list", "point", "object", "custom"}
Int32 == -IntMax - 1 .. IntMax

\* The classes of a chain: members of the same name and kind are overloaded ones.
Used == Types \ Avoided
IsClass(k) ==
  /\ k.methods \in Seq([name : Seq(STRING), params : Seq(Used), slot : BOOLEAN])
  /\ k.enums \in Seq(ToSet(k.enums)) /\ \A e \in ToSet(k.enums) : e.name \in Seq(STRING)
  /\ k.properties \in Seq([name : Seq(STRING), type : Used, readable : BOOLEAN, writable : BOOLEAN, reset : BOOLEAN])
  /\ k.constructors \in Seq(Seq(Used))

ASSUME MetaAssumption ==
  /\ Numbers \subseteq Int /\ Numbers # {} /\ IntMax \in Nat /\ Strings # {} /\ Avoided \subseteq Types
  /\ \A chain \in Declarations : chain \in Seq(ToSet(chain)) /\ \A k \in ToSet(chain) : IsClass(k)

VARIABLES
  classes,    \* the chain of classes
  class_of,   \* the class of each object; 0 for one that is not made
  properties, \* of each object, the values of the properties of its class, by member
  types_map,  \* whether the custom type has a MetaType
  called      \* the last slot or constructor that ran, and what it was passed

vars == <<classes, class_of, properties, types_map, called>>

(***************************************************************************)
(* Lua values: [type, v].                                                  *)
(***************************************************************************)

Number(n) == [type |-> "number", v |-> n]
Text(s) == [type |-> "string", v |-> s]
Nil == [type |-> "nil", v |-> 0]

Scalars == {Number(n) : n \in Numbers} \cup {Text(s) : s \in Strings}
             \cup {[type |-> "boolean", v |-> b] : b \in BOOLEAN} \cup {Nil}
Tables == {[type |-> "table", v |-> <<x, y>>] : x \in Scalars, y \in Scalars}
Wrapped(o) == [type |-> "userdata", v |-> o]
Values == Scalars \cup Tables \cup {Wrapped(o) : o \in Objects}

(***************************************************************************)
(* QMetaValue.  What is stored is a Lua value again, of the form that      *)
(* raw_get_object makes of it.                                             *)
(***************************************************************************)

AsTable(s) == [type |-> "table", v |-> s]

\* What a Qt type holds.
Holds(t) ==
  CASE t = "bool" -> {[type |-> "boolean", v |-> b] : b \in BOOLEAN}
    [] t = "int" -> {Number(n) : n \in Int32}
    [] t \in {"double", "float"} -> {Number(n) : n \in Numbers}
    [] t \in {"string", "custom"} -> {Text(s) : s \in Strings}
    [] t = "list" -> {AsTable(s) : s \in SeqOf({Text(x) : x \in Strings}, 2)}
    [] t = "point" -> {AsTable(<<Number(x), Number(y)>>) : x \in Int32, y \in Int32}
    [] t = "object" -> {Nil} \cup {Wrapped(o) : o \in Objects}

\* Mutant of ToInt: the conversion of an unsigned int.
ToUInt(v) == IF v.v \in 0 .. IntMax THEN {v} ELSE Holds("int")

\* A double out of the range of an int is converted to any int.
ToInt(v) == IF v.v \in Int32 THEN {v} ELSE Holds("int")

\* QStringList: up to the first entry that has no string form, an error being the end.
Leading(s) ==
  LET ends == {i \in DOMAIN s : s[i].type # "string"} IN
  IF ends = {} THEN s ELSE SubSeq(s, 1, CHOOSE i \in 0 .. Len(s) : i + 1 \in ends /\ \A j \in ends : i < j)

\* raw_set_object: what v may become as a t; none for an error.  (Numbers are not given as
\* strings here.)  A float is written as a double, and reads as half of the bits of one.
raw_set_object(t, v) ==
  CASE t = "bool" -> {[type |-> "boolean", v |-> v # Nil /\ v # [type |-> "boolean", v |-> FALSE]]}
    [] t = "int" /\ v.type = "number" -> ToInt(v)
    [] t = "double" /\ v.type = "number" -> {v}
    [] t = "float" /\ v.type = "number" -> Holds("float")
    [] t = "string" /\ v.type = "string" -> {v}
    [] t = "list" -> {AsTable(IF v.type = "table" THEN Leading(v.v) ELSE <<>>)}
    [] t = "point" /\ v.type = "table" /\ (\A i \in {1, 2} : v.v[i].type = "number") ->
         {AsTable(<<x, y>>) : x \in ToInt(v.v[1]), y \in ToInt(v.v[2])}
    [] t = "object" /\ v.type \in {"nil", "userdata"} -> {v}
    [] t = "custom" /\ types_map /\ v.type = "string" -> {v}
    [] OTHER -> {}

\* raw_get_object.
raw_get_object(t, x) == IF t = "custom" /\ ~types_map THEN Nil ELSE x

(***************************************************************************)
(* MetaCache.                                                              *)
(***************************************************************************)

\* The members of class c: methods, enumerations and properties in their order.
Members(c) ==
  LET of(kind, s) == [i \in DOMAIN s |-> [class |-> c, kind |-> kind, index |-> i]] IN
  of("_m", classes[c].methods) \o of("_e", classes[c].enums) \o of("_p", classes[c].properties)

Declared(m) ==
  CASE m.kind = "_m" -> classes[m.class].methods[m.index]
    [] m.kind = "_e" -> classes[m.class].enums[m.index]
    [] m.kind = "_p" -> classes[m.class].properties[m.index]

\* Mutant of Renamed: the names of the class itself are not looked at.
RenamedOver(name, suffix, existing, cache) ==
  LET free == CHOOSE n \in 0 .. Cardinality(existing) :
                /\ name \o [i \in 1 .. n |-> suffix] \notin existing
                /\ \A j \in 0 .. n - 1 : name \o [i \in 1 .. j |-> suffix] \in existing
  IN name \o [i \in 1 .. free |-> suffix]

\* A name with as many suffixes as make it a new one; a name is the sequence of its parts.
Renamed(name, suffix, existing, cache) ==
  LET taken == existing \cup cache
      free == CHOOSE n \in 0 .. Cardinality(taken) :
                /\ name \o [i \in 1 .. n |-> suffix] \notin taken
                /\ \A j \in 0 .. n - 1 : name \o [i \in 1 .. j |-> suffix] \in taken
  IN name \o [i \in 1 .. free |-> suffix]

\* The members of all classes, those of a class after those of the classes it is derived from.
Chain == FlattenSeq([c \in DOMAIN classes |-> Members(c)])

\* The names of the first n members, each given when those before have theirs: existing are those
\* of the classes that its class is derived from.
Named[n \in 0 .. Len(Chain)] ==
  IF n = 0 THEN <<>>
  ELSE LET m == Chain[n]
           before == Named[n - 1]
           of(cs) == {before[k] : k \in {j \in 1 .. n - 1 : Chain[j].class \in cs}}
       IN Append(before, Renamed(Declared(m).name, m.kind, of(1 .. m.class - 1), of({m.class})))

\* _member_cache of a class.  The caches do not depend on when they are made.
MetaCache(c) ==
  LET own == {k \in DOMAIN Chain : Chain[k].class = c}
      names == Named[Len(Chain)]
  IN [name \in {names[k] : k \in own} |-> Chain[CHOOSE k \in own : names[k] = name]]

\* The nearest class that has the name; no member has class 0.
NoMember == [class |-> 0, kind |-> "", index |-> 0]
get_member(c, name) ==
  LET having == {d \in 1 .. c : name \in DOMAIN MetaCache(d)} IN
  IF having = {} THEN NoMember ELSE MetaCache(CHOOSE d \in having : \A e \in having : e <= d)[name]

\* The values that keys of enumerations have in class c and those it is derived from, the
\* nearest class first; a negative value is as none.
get_enum_value(c, key) ==
  LET values(d) == {e.keys[key] : e \in {f \in ToSet(classes[d].enums) : key \in DOMAIN f.keys}}
      having == {d \in 1 .. c : \E n \in values(d) : n >= 0}
  IN IF having = {} THEN {} ELSE {n \in values(CHOOSE d \in having : \A e \in having : e <= d) : n >= 0}

\* Enum::meta_index.
EnumIndex(m, key) ==
  LET keys == Declared(m).keys IN IF key \in DOMAIN keys /\ keys[key] >= 0 THEN Number(keys[key]) ELSE Nil

\* QMetaObjectWrapper::meta_index: a member, or a value of an enumeration.
meta_index(c, name) ==
  IF get_member(c, name) # NoMember THEN {get_member(c, name)}
  ELSE {Number(n) : n \in get_enum_value(c, Last(name))}

(***************************************************************************)
(* Property, Method and QMetaObjectWrapper.                                *)
(***************************************************************************)

PropertiesOf(c) == {m \in UNION {Range(Members(d)) : d \in 1 .. c} : m.kind = "_p"}
Initial(t) == CHOOSE x \in Holds(t) : TRUE

\* Property::access; none for an error.
access(o, m) ==
  IF Declared(m).readable THEN {raw_get_object(Declared(m).type, properties[o][m])} ELSE {}

\* Mutant of Assigned: whether the property can be written is not asked.
AssignedAnyway(m, v) ==
  IF v = Nil /\ Declared(m).reset THEN {Initial(Declared(m).type)}
  ELSE raw_set_object(Declared(m).type, v)

\* Property::assign: what the property may become; none for an error.
Assigned(m, v) ==
  IF v = Nil /\ Declared(m).reset THEN {Initial(Declared(m).type)}
  ELSE IF Declared(m).writable THEN raw_set_object(Declared(m).type, v) ELSE {}

assign(o, m, v) ==
  /\ class_of[o] # 0 /\ m \in PropertiesOf(class_of[o])
  /\ IF Assigned(m, v) = {} THEN UNCHANGED properties
     ELSE \E x \in Assigned(m, v) : properties' = [properties EXCEPT ![o][m] = x]
  /\ UNCHANGED <<classes, class_of, types_map, called>>

\* What a function with these parameters may get for these arguments; none for an error.
Converted(params, args) ==
  IF Len(params) # Len(args) THEN {}
  ELSE {s \in [DOMAIN args -> UNION {raw_set_object(params[i], args[i]) : i \in DOMAIN args}] :
          \A i \in DOMAIN args : s[i] \in raw_set_object(params[i], args[i])}

\* Mutant of Callable: the class of the object is not looked at.
CallableOnAny(o, m) == class_of[o] # 0 /\ Declared(m).slot

\* check_class, and a slot or an invokable method.
Callable(o, m) == class_of[o] # 0 /\ m.class <= class_of[o] /\ Declared(m).slot

\* Method::meta_call on an object and further arguments: all is converted before the call.
meta_call(o, m, args) ==
  /\ m.kind = "_m" /\ Callable(o, m)
  /\ \E s \in Converted(Declared(m).params, args) :
       called' = [what |-> m, on |-> o, args |-> s]
  /\ UNCHANGED <<classes, class_of, properties, types_map>>

\* The classes that Lua may name, and whether the row of each has a creator, which makes an object
\* without arguments.
meta_object_table == [c \in DOMAIN classes |-> classes[c].creator]

\* create: the creator of the table, or the first constructor that the arguments convert for.
create(c, o, args) ==
  LET fitting == {j \in DOMAIN classes[c].constructors : Converted(classes[c].constructors[j], args) # {}}
      j == CHOOSE i \in fitting : \A k \in fitting : i <= k
  IN /\ class_of[o] = 0
     /\ IF args = <<>> /\ meta_object_table[c] THEN UNCHANGED called
        ELSE /\ fitting # {}
             /\ \E s \in Converted(classes[c].constructors[j], args) :
                  called' = [what |-> [class |-> c, kind |-> "constructor", index |-> j], on |-> o, args |-> s]
     /\ class_of' = [class_of EXCEPT ![o] = c]
     /\ properties' = [properties EXCEPT ![o] =
                         [m \in PropertiesOf(c) |-> Initial(Declared(m).type)]]
     /\ UNCHANGED <<classes, types_map>>

\* A MetaType made or destroyed.
MetaType ==
  /\ types_map' = ~types_map
  /\ UNCHANGED <<classes, class_of, properties, called>>

\* Bound: of several arguments none is a table or an object.
Arguments == {<<v>> : v \in Values} \cup SeqOf(Scalars, MaxArgs)

Init ==
  /\ classes \in Declarations
  /\ class_of = [o \in Objects |-> 0]
  /\ properties = [o \in Objects |-> <<>>]
  /\ types_map = TRUE
  /\ called = [what |-> NoMember, on |-> Null, args |-> <<>>]

Next ==
  \/ \E o \in Objects, c \in DOMAIN classes :
       \/ \E m \in PropertiesOf(c), v \in Values : assign(o, m, v)
       \/ \E args \in Arguments :
            create(c, o, args) \/ \E m \in ToSet(Members(c)) : meta_call(o, m, args)
  \/ MetaType

Spec == Init /\ [][Next]_vars

(***************************************************************************)
(* Properties.                                                             *)
(***************************************************************************)

Known(c) == UNION {ToSet(Members(d)) : d \in 1 .. c}

\* Every method, enumeration and property of a class and of those it is derived from has one name
\* in Lua, overloaded and redeclared ones too (MetaCache::MetaCache, get_member).
EveryMemberNamed ==
  \A c \in DOMAIN classes :
    LET got == {<<name, get_member(c, name)>> : name \in UNION {DOMAIN MetaCache(d) : d \in 1 .. c}} IN
    \A m \in Known(c) : Cardinality({g \in got : g[2] = m}) = 1

\* A value that the type of a property holds can be written to it and is what is read then; the
\* custom type needs its MetaType for this (raw_set_object, raw_get_object).
RoundTrip ==
  \A c \in DOMAIN classes : \A m \in PropertiesOf(c) :
    LET d == Declared(m) IN
    d.writable /\ (types_map \/ d.type # "custom") =>
      \A v \in Holds(d.type) :
        ~(v = Nil /\ d.reset) => {raw_get_object(d.type, x) : x \in Assigned(m, v)} = {v}

\* A property always holds a value of its type, and one that can be neither written nor reset
\* keeps the value that C++ gave it (Property::assign).
PropertiesKept ==
  \A o \in Objects : class_of[o] # 0 => \A m \in PropertiesOf(class_of[o]) :
    LET d == Declared(m) IN
    properties[o][m] \in IF d.writable \/ d.reset THEN Holds(d.type) ELSE {Initial(d.type)}

\* A slot runs on an object of its class, and it or a constructor gets the arguments it
\* declares, of their types (Method::meta_call, QMetaObjectWrapper::create).
CalledAsDeclared ==
  LET m == called.what
      params == IF m.kind = "constructor" THEN classes[m.class].constructors[m.index]
                ELSE Declared(m).params
  IN m # NoMember =>
       /\ m.class <= class_of[called.on]
       /\ Len(called.args) = Len(params)
       /\ \A i \in DOMAIN params : called.args[i] \in Holds(params[i])
=============================================================================
