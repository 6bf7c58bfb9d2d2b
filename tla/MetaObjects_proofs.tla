------------------------- MODULE MetaObjects_proofs -------------------------
(***************************************************************************)
(* For chains of classes of any length with any members: values come back  *)
(* as they were stored, properties and parameters are of their types, and  *)
(* MetaCache gives each member one name, that no other member has.         *)
(***************************************************************************)
EXTENDS MetaObjects, FiniteSetTheorems, SequenceTheorems, WellFoundedInduction, TLAPS

-----------------------------------------------------------------------------
(* Conversions.                                                            *)

LEMMA HoldsAre ==
  /\ Holds("bool") = {[type |-> "boolean", v |-> b] : b \in BOOLEAN}
  /\ Holds("int") = {Number(n) : n \in Int32}
  /\ Holds("double") = {Number(n) : n \in Numbers}
  /\ Holds("float") = {Number(n) : n \in Numbers}
  /\ Holds("string") = {Text(s) : s \in Strings}
  /\ Holds("custom") = {Text(s) : s \in Strings}
  /\ Holds("list") = {AsTable(s) : s \in SeqOf({Text(x) : x \in Strings}, 2)}
  /\ Holds("point") = {AsTable(<<Number(x), Number(y)>>) : x \in Int32, y \in Int32}
  /\ Holds("object") = {Nil} \cup {Wrapped(o) : o \in Objects}
BY DEF Holds

LEMMA HoldsSome ==
  ASSUME NEW t \in Types
  PROVE  Holds(t) # {} /\ Initial(t) \in Holds(t)
<1>1. 0 \in Int32 /\ Number(0) \in {Number(n) : n \in Int32}
  BY MetaAssumption DEF Int32
<1>2. PICK n \in Numbers, s \in Strings : TRUE
  BY MetaAssumption
<1>3. CASE t = "bool"
  <2>1. [type |-> "boolean", v |-> TRUE] \in Holds(t)
    BY <1>3, HoldsAre
  <2>2. QED
    BY <2>1 DEF Initial
<1>4. CASE t = "int"
  BY <1>1, <1>4 DEF Holds, Initial
<1>5. CASE t \in {"double", "float"}
  <2>1. Number(n) \in Holds(t)
    BY <1>2, <1>5 DEF Holds
  <2>2. QED
    BY <2>1 DEF Initial
<1>6. CASE t \in {"string", "custom"}
  <2>1. Text(s) \in Holds(t)
    BY <1>2, <1>6 DEF Holds
  <2>2. QED
    BY <2>1 DEF Initial
<1>7. CASE t = "list"
  <2>1. << >> \in [1 .. 0 -> {Text(x) : x \in Strings}]
    OBVIOUS
  <2>2. << >> \in SeqOf({Text(x) : x \in Strings}, 2)
    BY <2>1 DEF SeqOf
  <2>3. AsTable(<< >>) \in Holds(t)
    BY <1>7, <2>2, HoldsAre
  <2>4. QED
    BY <2>3 DEF Initial
<1>8. CASE t = "point"
  <2>1. AsTable(<<Number(0), Number(0)>>) \in Holds(t)
    BY <1>1, <1>8 DEF Holds
  <2>2. QED
    BY <2>1 DEF Initial
<1>9. CASE t = "object"
  <2>1. Nil \in Holds(t)
    BY <1>9 DEF Holds
  <2>2. QED
    BY <2>1 DEF Initial
<1>10. QED
  BY <1>3, <1>4, <1>5, <1>6, <1>7, <1>8, <1>9 DEF Types

(* A number that is to be an int becomes one.                              *)
LEMMA ToIntIs ==
  ASSUME NEW v, v.type = "number", v = Number(v.v)
  PROVE  /\ ToInt(v) \subseteq Holds("int")
         /\ v.v \in Int32 => ToInt(v) = {v}
<1>1. CASE v.v \in Int32
  BY <1>1 DEF ToInt, Holds
<1>2. CASE v.v \notin Int32
  BY <1>2 DEF ToInt
<1>3. QED
  BY <1>1, <1>2

LEMMA NumbersAre ==
  ASSUME NEW v \in Scalars, v.type = "number"
  PROVE  v.v \in Numbers /\ v = Number(v.v)
BY DEF Scalars, Number, Text, Nil

LEMMA TextsAre ==
  ASSUME NEW v \in Scalars, v.type = "string"
  PROVE  v.v \in Strings /\ v = Text(v.v)
BY DEF Scalars, Number, Text, Nil

LEMMA KindsOfValues ==
  ASSUME NEW v \in Values
  PROVE  /\ v.type \in {"number", "string"} => v \in Scalars
         /\ v.type = "table" => \E x, y \in Scalars : v = AsTable(<<x, y>>)
         /\ v.type = "userdata" => \E o \in Objects : v = Wrapped(o)
         /\ v.type = "nil" => v = Nil
<1>1. CASE v \in Scalars
  BY <1>1 DEF Scalars, Number, Text, Nil
<1>2. CASE v \in Tables
  BY <1>2 DEF Tables, AsTable
<1>3. CASE v \in {Wrapped(o) : o \in Objects}
  BY <1>3 DEF Wrapped
<1>4. QED
  BY <1>1, <1>2, <1>3 DEF Values

(* The strings that a list of two may begin with.                          *)
LEMMA LeadingIs ==
  ASSUME NEW x \in Scalars, NEW y \in Scalars
  PROVE  Leading(<<x, y>>) \in SeqOf({Text(s) : s \in Strings}, 2)
<1> DEFINE S == {Text(s) : s \in Strings}
           z == <<x, y>>
           ends == {i \in DOMAIN z : z[i].type # "string"}
<1>0. DOMAIN z = {1, 2} /\ z[1] = x /\ z[2] = y /\ Len(z) = 2
  OBVIOUS
<1>1. \A n \in {0, 1, 2} : [1 .. n -> S] \subseteq SeqOf(S, 2)
  <2>1. ASSUME NEW n \in {0, 1, 2} PROVE [1 .. n -> S] \in {[1 .. m -> S] : m \in 0 .. 2}
    <3>1. n \in 0 .. 2
      OBVIOUS
    <3>2. QED
      BY <3>1
  <2>2. SeqOf(S, 2) = UNION {[1 .. m -> S] : m \in 0 .. 2}
    BY DEF SeqOf
  <2> HIDE DEF S
  <2>3. QED
    BY <2>1, <2>2
<1>2. CASE ends = {}
  <2>1. x \in S /\ y \in S
    BY <1>0, <1>2, TextsAre
  <2>2. z \in [1 .. 2 -> S]
    BY <2>1
  <2>3. Leading(z) = z
    BY <1>2 DEF Leading
  <2>4. QED
    BY <1>1, <2>2, <2>3
<1>3. CASE ends # {}
  <2> DEFINE k == CHOOSE i \in 0 .. Len(z) : i + 1 \in ends /\ \A j \in ends : i < j
  <2>1. \E i \in 0 .. Len(z) : i + 1 \in ends /\ \A j \in ends : i < j
    <3>1. CASE 1 \in ends
      BY <1>0, <3>1
    <3>2. CASE 1 \notin ends
      BY <1>0, <1>3, <3>2
    <3>3. QED
      BY <3>1, <3>2
  <2>2. k \in 0 .. Len(z) /\ k + 1 \in ends /\ \A j \in ends : k < j
    BY <2>1
  <2>3. Leading(z) = SubSeq(z, 1, k)
    BY <1>3 DEF Leading
  <2>4. k \in {0, 1} /\ (k = 1 => 1 \notin ends)
    <3> HIDE DEF k
    <3>1. QED
      BY <1>0, <2>2
  <2> HIDE DEF k
  <2>5. CASE k = 0
    <3>1. SubSeq(z, 1, 0) = << >> /\ << >> \in [1 .. 0 -> S]
      OBVIOUS
    <3>2. QED
      BY <1>1, <2>3, <2>5, <3>1
  <2>6. CASE k = 1
    <3>1. x \in S
      BY <1>0, <2>4, <2>6, TextsAre
    <3>2. SubSeq(z, 1, 1) \in Seq(S) /\ Len(SubSeq(z, 1, 1)) = 1
      <4>1. \A i \in 1 .. 1 : z[i] \in S
        BY <1>0, <3>1
      <4> HIDE DEF z, S
      <4>2. QED
        BY <4>1, SubSeqProperties
    <3>4. \A s \in Seq(S) : s \in [1 .. Len(s) -> S]
      BY LenProperties
    <3>3. QED
      BY <1>1, <2>3, <2>6, <3>2, <3>4
  <2>7. QED
    BY <2>4, <2>5, <2>6
<1>4. QED
  BY <1>2, <1>3

(* Whatever a value is converted to is of the type.                        *)
LEMMA ConversionFits ==
  ASSUME NEW t \in Types, NEW v \in Values
  PROVE  raw_set_object(t, v) \subseteq Holds(t)
<1>1. CASE t = "bool"
  <2> DEFINE b == v # Nil /\ v # [type |-> "boolean", v |-> FALSE]
  <2>1. raw_set_object(t, v) = {[type |-> "boolean", v |-> b]}
    BY <1>1 DEF raw_set_object
  <2>2. b \in BOOLEAN
    OBVIOUS
  <2> HIDE DEF b
  <2>3. QED
    BY <1>1, <2>1, <2>2, HoldsAre
<1>2. CASE t = "int"
  <2>1. CASE v.type = "number"
    <3>1. v = Number(v.v)
      BY <2>1, KindsOfValues, NumbersAre
    <3>2. raw_set_object(t, v) = ToInt(v)
      BY <1>2, <2>1 DEF raw_set_object
    <3>3. QED
      BY <1>2, <2>1, <3>1, <3>2, ToIntIs
  <2>2. CASE v.type # "number"
    BY <1>2, <2>2 DEF raw_set_object
  <2>3. QED
    BY <2>1, <2>2
<1>3. CASE t = "double"
  <2>1. CASE v.type = "number"
    <3>1. v = Number(v.v) /\ v.v \in Numbers
      BY <2>1, KindsOfValues, NumbersAre
    <3>2. raw_set_object(t, v) = {v}
      BY <1>3, <2>1 DEF raw_set_object
    <3>3. QED
      BY <1>3, <3>1, <3>2 DEF Holds
  <2>2. CASE v.type # "number"
    BY <1>3, <2>2 DEF raw_set_object
  <2>3. QED
    BY <2>1, <2>2
<1>4. CASE t = "float"
  BY <1>4 DEF raw_set_object
<1>5. CASE t \in {"string", "custom"}
  <2>1. CASE v.type = "string"
    <3>1. v = Text(v.v) /\ v.v \in Strings
      BY <2>1, KindsOfValues, TextsAre
    <3>2. raw_set_object(t, v) \subseteq {v}
      BY <1>5, <2>1 DEF raw_set_object
    <3>3. QED
      BY <1>5, <3>1, <3>2 DEF Holds
  <2>2. CASE v.type # "string"
    BY <1>5, <2>2 DEF raw_set_object
  <2>3. QED
    BY <2>1, <2>2
<1>6. CASE t = "list"
  <2> DEFINE S == {Text(s) : s \in Strings}
  <2>1. IF v.type = "table" THEN Leading(v.v) \in SeqOf(S, 2) ELSE << >> \in SeqOf(S, 2)
    <3>1. CASE v.type = "table"
      <4>1. PICK x \in Scalars, y \in Scalars : v = AsTable(<<x, y>>)
        BY <3>1, KindsOfValues
      <4>2. v.v = <<x, y>>
        BY <4>1 DEF AsTable
      <4>3. QED
        BY <3>1, <4>2, LeadingIs
    <3>2. CASE v.type # "table"
      <4>1. << >> \in [1 .. 0 -> S]
        OBVIOUS
      <4>2. QED
        BY <3>2, <4>1 DEF SeqOf
    <3>3. QED
      BY <3>1, <3>2
  <2>2. raw_set_object(t, v) = {AsTable(IF v.type = "table" THEN Leading(v.v) ELSE << >>)}
    BY <1>6 DEF raw_set_object
  <2> HIDE DEF S
  <2>3. \A s \in SeqOf(S, 2) : AsTable(s) \in Holds(t)
    BY <1>6, HoldsAre DEF S
  <2>4. QED
    BY <2>1, <2>2, <2>3
<1>7. CASE t = "point"
  <2>1. CASE v.type = "table" /\ \A i \in {1, 2} : v.v[i].type = "number"
    <3>1. PICK x \in Scalars, y \in Scalars : v = AsTable(<<x, y>>)
      BY <2>1, KindsOfValues
    <3>2. v.v[1] = x /\ v.v[2] = y
      BY <3>1 DEF AsTable
    <3>3. ToInt(x) \subseteq Holds("int") /\ ToInt(y) \subseteq Holds("int")
      BY <2>1, <3>2, NumbersAre, ToIntIs
    <3>4. raw_set_object(t, v) = {AsTable(<<a, b>>) : a \in ToInt(x), b \in ToInt(y)}
      BY <1>7, <2>1, <3>2 DEF raw_set_object
    <3>5. ASSUME NEW a \in Holds("int"), NEW b \in Holds("int") PROVE AsTable(<<a, b>>) \in Holds(t)
      BY <1>7, HoldsAre
    <3>6. \A a \in ToInt(x), b \in ToInt(y) : AsTable(<<a, b>>) \in Holds(t)
      BY <3>3, <3>5
    <3>7. ASSUME NEW w \in raw_set_object(t, v) PROVE w \in Holds(t)
      <4> DEFINE P(a, b) == AsTable(<<a, b>>)
      <4>1. raw_set_object(t, v) = {P(a, b) : a \in ToInt(x), b \in ToInt(y)}
        BY <3>4
      <4> HIDE DEF P
      <4>2. \E a \in ToInt(x), b \in ToInt(y) : w = P(a, b)
        BY <4>1
      <4>3. PICK a \in ToInt(x), b \in ToInt(y) : w = AsTable(<<a, b>>)
        BY <4>2 DEF P
      <4>4. QED
        BY <3>6, <4>3
    <3>8. QED
      BY <3>7
  <2>2. CASE ~ (v.type = "table" /\ \A i \in {1, 2} : v.v[i].type = "number")
    BY <1>7, <2>2 DEF raw_set_object
  <2>3. QED
    BY <2>1, <2>2
<1>8. CASE t = "object"
  <2>1. CASE v.type \in {"nil", "userdata"}
    <3>1. raw_set_object(t, v) = {v}
      BY <1>8, <2>1 DEF raw_set_object
    <3>2. QED
      BY <1>8, <2>1, <3>1, KindsOfValues DEF Holds
  <2>2. CASE v.type \notin {"nil", "userdata"}
    BY <1>8, <2>2 DEF raw_set_object
  <2>3. QED
    BY <2>1, <2>2
<1>9. QED
  BY <1>1, <1>2, <1>3, <1>4, <1>5, <1>6, <1>7, <1>8 DEF Types

(* Values of a type survive being stored and read again.                   *)
LEMMA SameBack ==
  ASSUME NEW t \in Used, "float" \in Avoided, types_map \/ t # "custom",
         NEW v \in Holds(t)
  PROVE  raw_set_object(t, v) = {v} /\ raw_get_object(t, v) = v
<1>0. t \in Types /\ t # "float"
  BY DEF Used
<1>1. raw_get_object(t, v) = v
  BY DEF raw_get_object
<1>2. CASE t = "bool"
  <2>1. PICK b \in BOOLEAN : v = [type |-> "boolean", v |-> b]
    BY <1>2, HoldsAre
  <2>2. (v # Nil /\ v # [type |-> "boolean", v |-> FALSE]) = b
    BY <2>1 DEF Nil
  <2>3. raw_set_object(t, v) = {[type |-> "boolean", v |-> v # Nil /\ v # [type |-> "boolean", v |-> FALSE]]}
    BY <1>2 DEF raw_set_object
  <2>4. QED
    BY <1>1, <2>1, <2>2, <2>3
<1>3. CASE t = "int"
  <2>1. PICK n \in Int32 : v = Number(n)
    BY <1>3, HoldsAre
  <2>2. v.type = "number" /\ v.v = n
    BY <2>1 DEF Number
  <2>3. raw_set_object(t, v) = ToInt(v)
    BY <1>3, <2>2 DEF raw_set_object
  <2>4. QED
    BY <1>1, <2>1, <2>2, <2>3 DEF ToInt
<1>4. CASE t = "double"
  <2>1. PICK n \in Numbers : v = Number(n)
    BY <1>4, HoldsAre
  <2>2. v.type = "number"
    BY <2>1 DEF Number
  <2>3. QED
    BY <1>1, <1>4, <2>2 DEF raw_set_object
<1>5. CASE t \in {"string", "custom"}
  <2>1. PICK s \in Strings : v = Text(s)
    BY <1>5, HoldsAre
  <2>2. v.type = "string"
    BY <2>1 DEF Text
  <2>3. QED
    BY <1>1, <1>5, <2>2 DEF raw_set_object
<1>6. CASE t = "list"
  <2> DEFINE S == {Text(x) : x \in Strings}
  <2>1. PICK s \in SeqOf(S, 2) : v = AsTable(s)
    BY <1>6, HoldsAre
  <2>2. PICK n \in 0 .. 2 : s \in [1 .. n -> S]
    <3> HIDE DEF S
    <3>1. QED
      BY <2>1 DEF SeqOf
  <2>3. \A x \in S : x.type = "string"
    BY DEF Text
  <2>4. Leading(s) = s
    <3> HIDE DEF S
    <3>1. QED
      BY <2>2, <2>3 DEF Leading
  <2>5. v.type = "table" /\ v.v = s
    BY <2>1 DEF AsTable
  <2>6. raw_set_object(t, v) = {AsTable(IF v.type = "table" THEN Leading(v.v) ELSE << >>)}
    BY <1>6 DEF raw_set_object
  <2>7. QED
    BY <1>1, <2>1, <2>4, <2>5, <2>6
<1>7. CASE t = "point"
  <2>1. PICK x \in Int32, y \in Int32 : v = AsTable(<<Number(x), Number(y)>>)
    BY <1>7, HoldsAre
  <2>2. v.type = "table" /\ v.v[1] = Number(x) /\ v.v[2] = Number(y)
    BY <2>1 DEF AsTable
  <2>3. /\ Number(x).type = "number" /\ Number(x).v = x
        /\ Number(y).type = "number" /\ Number(y).v = y
    BY DEF Number
  <2>4. ToInt(v.v[1]) = {Number(x)} /\ ToInt(v.v[2]) = {Number(y)}
    BY <2>2, <2>3 DEF ToInt
  <2>5. raw_set_object(t, v) = {AsTable(<<a, b>>) : a \in ToInt(v.v[1]), b \in ToInt(v.v[2])}
    BY <1>7, <2>2, <2>3 DEF raw_set_object
  <2>6. raw_set_object(t, v) = {AsTable(<<Number(x), Number(y)>>)}
    BY <2>4, <2>5
  <2>7. QED
    BY <1>1, <2>1, <2>6
<1>8. CASE t = "object"
  <2>1. v.type \in {"nil", "userdata"}
    BY <1>8, HoldsAre DEF Nil, Wrapped
  <2>2. QED
    BY <1>1, <1>8, <2>1 DEF raw_set_object
<1>9. QED
  BY <1>0, <1>2, <1>3, <1>4, <1>5, <1>6, <1>7, <1>8 DEF Types

-----------------------------------------------------------------------------
(* The members of a class.                                                 *)

Distinct(s) == \A i, j \in DOMAIN s : s[i] = s[j] => i = j

LEMMA ConcatIs ==
  ASSUME NEW S, NEW s \in Seq(S), NEW t \in Seq(S)
  PROVE  /\ s \o t \in Seq(S) /\ ToSet(s \o t) = ToSet(s) \cup ToSet(t)
         /\ Len(s \o t) = Len(s) + Len(t)
         /\ Distinct(s) /\ Distinct(t) /\ ToSet(s) \cap ToSet(t) = {} => Distinct(s \o t)
<1> DEFINE u == s \o t
<1>1. /\ u \in Seq(S) /\ Len(u) = Len(s) + Len(t)
      /\ \A i \in 1 .. Len(s) : u[i] = s[i]
      /\ \A i \in 1 .. Len(t) : u[Len(s) + i] = t[i]
      /\ \A i \in Len(s) + 1 .. Len(s) + Len(t) : u[i] = t[i - Len(s)]
  BY ConcatProperties
<1>2. /\ Len(s) \in Nat /\ DOMAIN s = 1 .. Len(s) /\ Len(t) \in Nat /\ DOMAIN t = 1 .. Len(t)
      /\ DOMAIN u = 1 .. Len(s) + Len(t)
  BY <1>1, LenProperties
<1> HIDE DEF u
<1>3. ASSUME NEW i \in DOMAIN u
      PROVE  \/ i \in DOMAIN s /\ u[i] = s[i]
             \/ i \notin DOMAIN s /\ i - Len(s) \in DOMAIN t /\ u[i] = t[i - Len(s)]
  BY <1>1, <1>2
<1>4. ToSet(u) = ToSet(s) \cup ToSet(t)
  <2>1. ASSUME NEW x \in ToSet(u) PROVE x \in ToSet(s) \cup ToSet(t)
    BY <1>3 DEF ToSet
  <2>2. ASSUME NEW x \in ToSet(s) PROVE x \in ToSet(u)
    <3>1. PICK i \in DOMAIN s : x = s[i]
      BY DEF ToSet
    <3>2. i \in DOMAIN u /\ u[i] = x
      BY <1>1, <1>2, <3>1
    <3>3. QED
      BY <3>2 DEF ToSet
  <2>3. ASSUME NEW x \in ToSet(t) PROVE x \in ToSet(u)
    <3>1. PICK i \in DOMAIN t : x = t[i]
      BY DEF ToSet
    <3>2. Len(s) + i \in DOMAIN u /\ u[Len(s) + i] = x
      BY <1>1, <1>2, <3>1
    <3>3. QED
      BY <3>2 DEF ToSet
  <2>4. QED
    BY <2>1, <2>2, <2>3
<1>5. ASSUME Distinct(s), Distinct(t), ToSet(s) \cap ToSet(t) = {} PROVE Distinct(u)
  <2>1. SUFFICES ASSUME NEW i \in DOMAIN u, NEW j \in DOMAIN u, u[i] = u[j] PROVE i = j
    BY DEF Distinct
  <2>2. CASE i \in DOMAIN s /\ j \in DOMAIN s
    BY <1>3, <1>5, <2>1, <2>2 DEF Distinct
  <2>3. CASE i \notin DOMAIN s /\ j \notin DOMAIN s
    <3>1. i - Len(s) = j - Len(s)
      BY <1>3, <1>5, <2>1, <2>3 DEF Distinct
    <3>2. QED
      BY <1>2, <3>1
  <2>4. CASE (i \in DOMAIN s) # (j \in DOMAIN s)
    <3>1. u[i] \in ToSet(s) \cap ToSet(t)
      BY <1>3, <2>1, <2>4 DEF ToSet
    <3>2. QED
      BY <1>5, <3>1
  <2>5. QED
    BY <2>2, <2>3, <2>4
<1>6. QED
  BY <1>1, <1>4, <1>5 DEF u

Kinds == {"_m", "_e", "_p"}
MemberSet == [class : Nat, kind : Kinds, index : Nat]
Mem(c, kind, i) == [class |-> c, kind |-> kind, index |-> i]
Part(c, kind, s) == [i \in DOMAIN s |-> Mem(c, kind, i)]

LEMMA EntryIs ==
  ASSUME NEW T, NEW s \in Seq(T), NEW i \in DOMAIN s
  PROVE  i \in Nat /\ s[i] \in T
BY LenProperties, ElementOfSeq

LEMMA PartIs ==
  ASSUME NEW c \in Nat, NEW kind \in Kinds, NEW T, NEW s \in Seq(T)
  PROVE  /\ Part(c, kind, s) \in Seq(MemberSet) /\ Distinct(Part(c, kind, s))
         /\ ToSet(Part(c, kind, s)) = {Mem(c, kind, i) : i \in DOMAIN s}
<1>1. DOMAIN s = 1 .. Len(s) /\ Len(s) \in Nat
  BY LenProperties
<1>2. \A i \in DOMAIN s : Mem(c, kind, i) \in MemberSet /\ Mem(c, kind, i).index = i
  BY <1>1 DEF Mem, MemberSet
<1>3. Part(c, kind, s) \in Seq(MemberSet)
  BY <1>1, <1>2 DEF Part
<1>4. Distinct(Part(c, kind, s))
  BY <1>2 DEF Distinct, Part
<1>5. ToSet(Part(c, kind, s)) = {Mem(c, kind, i) : i \in DOMAIN s}
  BY DEF ToSet, Part
<1>6. QED
  BY <1>3, <1>4, <1>5

LEMMA ClassesAre ==
  ASSUME classes \in Declarations
  PROVE  /\ Len(classes) \in Nat /\ DOMAIN classes = 1 .. Len(classes)
         /\ \A c \in DOMAIN classes : c \in Nat /\ c >= 1 /\ IsClass(classes[c])
<1>1. classes \in Seq(ToSet(classes)) /\ \A k \in ToSet(classes) : IsClass(k)
  BY MetaAssumption
<1>2. Len(classes) \in Nat /\ DOMAIN classes = 1 .. Len(classes)
  BY <1>1, LenProperties
<1>3. \A c \in DOMAIN classes : classes[c] \in ToSet(classes)
  BY DEF ToSet
<1>4. QED
  BY <1>1, <1>2, <1>3

LEMMA MembersAre ==
  ASSUME classes \in Declarations, NEW c \in DOMAIN classes
  PROVE  /\ Members(c) \in Seq(MemberSet) /\ Distinct(Members(c))
         /\ ToSet(Members(c)) = {Mem(c, "_m", i) : i \in DOMAIN classes[c].methods}
              \cup {Mem(c, "_e", i) : i \in DOMAIN classes[c].enums}
              \cup {Mem(c, "_p", i) : i \in DOMAIN classes[c].properties}
<1> DEFINE k == classes[c]
           M == Part(c, "_m", k.methods)
           E == Part(c, "_e", k.enums)
           P == Part(c, "_p", k.properties)
<1>1. Members(c) = (M \o E) \o P
  BY DEF Members, Part, Mem
<1>2. c \in Nat /\ IsClass(k)
  BY ClassesAre
<1>3. /\ M \in Seq(MemberSet) /\ Distinct(M) /\ ToSet(M) = {Mem(c, "_m", i) : i \in DOMAIN k.methods}
      /\ E \in Seq(MemberSet) /\ Distinct(E) /\ ToSet(E) = {Mem(c, "_e", i) : i \in DOMAIN k.enums}
      /\ P \in Seq(MemberSet) /\ Distinct(P) /\ ToSet(P) = {Mem(c, "_p", i) : i \in DOMAIN k.properties}
  BY <1>2, PartIs DEF IsClass, Kinds
<1>4. \A a, b : Mem(c, "_m", a) # Mem(c, "_e", b) /\ Mem(c, "_m", a) # Mem(c, "_p", b) /\ Mem(c, "_e", a) # Mem(c, "_p", b)
  BY DEF Mem
<1> HIDE DEF k, M, E, P
<1>5. ToSet(M) \cap ToSet(E) = {} /\ (ToSet(M) \cup ToSet(E)) \cap ToSet(P) = {}
  BY <1>3, <1>4
<1>6. M \o E \in Seq(MemberSet) /\ Distinct(M \o E) /\ ToSet(M \o E) = ToSet(M) \cup ToSet(E)
  BY <1>3, <1>5, ConcatIs
<1>7. /\ (M \o E) \o P \in Seq(MemberSet) /\ Distinct((M \o E) \o P)
      /\ ToSet((M \o E) \o P) = ToSet(M) \cup ToSet(E) \cup ToSet(P)
  <2> DEFINE U == M \o E
  <2>1. U \in Seq(MemberSet) /\ Distinct(U) /\ ToSet(U) \cap ToSet(P) = {} /\ P \in Seq(MemberSet) /\ Distinct(P)
    BY <1>3, <1>5, <1>6
  <2> HIDE DEF U
  <2>2. U \o P \in Seq(MemberSet) /\ Distinct(U \o P) /\ ToSet(U \o P) = ToSet(U) \cup ToSet(P)
    BY <2>1, ConcatIs
  <2>3. QED
    BY <1>6, <2>2 DEF U
<1>8. QED
  BY <1>1, <1>3, <1>7 DEF k

(* What is declared of a member.                                           *)
LEMMA DeclaredIs ==
  ASSUME classes \in Declarations, NEW c \in DOMAIN classes, NEW m \in ToSet(Members(c))
  PROVE  /\ m \in MemberSet /\ m.class = c /\ Declared(m).name \in Seq(STRING)
         /\ m.kind = "_m" => Declared(m).params \in Seq(Used)
         /\ m.kind = "_p" => /\ Declared(m).type \in Used
                             /\ Declared(m).writable \in BOOLEAN /\ Declared(m).reset \in BOOLEAN
<1>1. c \in Nat /\ IsClass(classes[c])
  BY ClassesAre
<1>2. CASE m \in {Mem(c, "_m", i) : i \in DOMAIN classes[c].methods}
  <2>1. PICK i \in DOMAIN classes[c].methods : m = Mem(c, "_m", i)
    BY <1>2
  <2>2. i \in Nat /\ classes[c].methods[i] \in [name : Seq(STRING), params : Seq(Used), slot : BOOLEAN]
    BY <1>1, EntryIs DEF IsClass
  <2>3. Declared(m) = classes[c].methods[i] /\ m.class = c /\ m.kind = "_m" /\ m \in MemberSet
    BY <1>1, <2>1, <2>2 DEF Declared, Mem, MemberSet, Kinds
  <2>4. QED
    BY <2>2, <2>3
<1>3. CASE m \in {Mem(c, "_e", i) : i \in DOMAIN classes[c].enums}
  <2>1. PICK i \in DOMAIN classes[c].enums : m = Mem(c, "_e", i)
    BY <1>3
  <2>2. i \in Nat /\ classes[c].enums[i] \in ToSet(classes[c].enums)
    BY <1>1, LenProperties DEF IsClass, ToSet
  <2>3. Declared(m) = classes[c].enums[i] /\ m.class = c /\ m.kind = "_e" /\ m \in MemberSet
    BY <1>1, <2>1, <2>2 DEF Declared, Mem, MemberSet, Kinds
  <2>4. QED
    BY <1>1, <2>2, <2>3 DEF IsClass
<1>4. CASE m \in {Mem(c, "_p", i) : i \in DOMAIN classes[c].properties}
  <2>1. PICK i \in DOMAIN classes[c].properties : m = Mem(c, "_p", i)
    BY <1>4
  <2>2. /\ i \in Nat
        /\ classes[c].properties[i] \in
             [name : Seq(STRING), type : Used, readable : BOOLEAN, writable : BOOLEAN, reset : BOOLEAN]
    BY <1>1, EntryIs DEF IsClass
  <2>3. Declared(m) = classes[c].properties[i] /\ m.class = c /\ m.kind = "_p" /\ m \in MemberSet
    BY <1>1, <2>1, <2>2 DEF Declared, Mem, MemberSet, Kinds
  <2>4. QED
    BY <2>2, <2>3
<1>5. QED
  BY <1>2, <1>3, <1>4, MembersAre

LEMMA PropertyIs ==
  ASSUME classes \in Declarations, NEW c \in DOMAIN classes, NEW m \in PropertiesOf(c)
  PROVE  /\ Declared(m).type \in Used /\ Declared(m).type \in Types
         /\ Declared(m).writable \in BOOLEAN /\ Declared(m).reset \in BOOLEAN
<1>1. PICK d \in 1 .. c : m \in Range(Members(d)) /\ m.kind = "_p"
  BY DEF PropertiesOf
<1>2. d \in DOMAIN classes /\ m \in ToSet(Members(d))
  <2>1. d \in DOMAIN classes
    BY ClassesAre
  <2>2. QED
    BY <1>1, <2>1 DEF Range, ToSet
<1>3. QED
  BY <1>1, <1>2, DeclaredIs DEF Used

-----------------------------------------------------------------------------
(* The state.                                                              *)

(* Classes are those declared, an object has the properties of its class,  *)
(* and what was called last was called on an object, by a class.           *)
Made ==
  /\ classes \in Declarations
  /\ class_of \in [Objects -> {0} \cup DOMAIN classes]
  /\ properties = [o \in Objects |-> properties[o]]
  /\ \A o \in Objects : class_of[o] # 0 =>
       properties[o] = [m \in PropertiesOf(class_of[o]) |-> properties[o][m]]
  /\ called.what # NoMember => called.on \in Objects /\ called.what.class \in DOMAIN classes

IInv == Made /\ PropertiesKept /\ CalledAsDeclared

(* What a property may hold.                                               *)
May(m) == IF Declared(m).writable \/ Declared(m).reset THEN Holds(Declared(m).type) ELSE {Initial(Declared(m).type)}

(* What a member or constructor takes.                                     *)
ParamsOf(m) ==
  IF m.kind = "constructor" THEN classes[m.class].constructors[m.index] ELSE Declared(m).params

LEMMA InitIInv ==
  Init => IInv
<1>1. SUFFICES ASSUME Init PROVE IInv
  OBVIOUS
<1>2. properties = [o \in Objects |-> properties[o]] /\ \A o \in Objects : class_of[o] = 0
  BY <1>1 DEF Init
<1>3. called.what = NoMember
  BY <1>1 DEF Init
<1>4. QED
  BY <1>1, <1>2, <1>3 DEF Init, IInv, Made, PropertiesKept, CalledAsDeclared

LEMMA AssignedFits ==
  ASSUME classes \in Declarations, NEW c \in DOMAIN classes, NEW m \in PropertiesOf(c), NEW v \in Values
  PROVE  Assigned(m, v) \subseteq May(m)
<1>1. Declared(m).type \in Types /\ Declared(m).writable \in BOOLEAN /\ Declared(m).reset \in BOOLEAN
  BY PropertyIs
<1>2. raw_set_object(Declared(m).type, v) \subseteq Holds(Declared(m).type)
  BY <1>1, ConversionFits
<1>3. Initial(Declared(m).type) \in Holds(Declared(m).type)
  BY <1>1, HoldsSome
<1>4. QED
  BY <1>1, <1>2, <1>3 DEF Assigned, May

LEMMA ConvertedFits ==
  ASSUME NEW params \in Seq(Used), NEW args \in Arguments, NEW s \in Converted(params, args)
  PROVE  Len(s) = Len(params) /\ \A i \in DOMAIN params : s[i] \in Holds(params[i])
<1>1. PICK n \in Nat : DOMAIN args = 1 .. n /\ \A i \in 1 .. n : args[i] \in Values
  <2>1. CASE args \in {<<v>> : v \in Values}
    <3>1. DOMAIN args = 1 .. 1 /\ \A i \in 1 .. 1 : args[i] \in Values
      BY <2>1
    <3>2. QED
      BY <3>1
  <2>2. CASE args \in SeqOf(Scalars, MaxArgs)
    <3>1. PICK n \in 0 .. MaxArgs : args \in [1 .. n -> Scalars]
      BY <2>2 DEF SeqOf
    <3>2. n \in Nat /\ \A i \in 1 .. n : args[i] \in Values
      BY <3>1 DEF Values
    <3>3. QED
      BY <3>1, <3>2
  <2>3. QED
    BY <2>1, <2>2 DEF Arguments
<1>2. Len(params) = Len(args)
  BY DEF Converted
<1>3. DOMAIN s = 1 .. n /\ \A i \in DOMAIN args : s[i] \in raw_set_object(params[i], args[i])
  BY <1>1, <1>2 DEF Converted
<1>4. Len(s) = n /\ Len(args) = n
  <2>1. args = [i \in 1 .. n |-> args[i]] /\ s = [i \in 1 .. n |-> s[i]]
    <3>1. CASE args \in {<<v>> : v \in Values}
      BY <1>1, <1>2, <3>1 DEF Converted
    <3>2. CASE args \in SeqOf(Scalars, MaxArgs)
      BY <1>1, <1>2, <3>2 DEF SeqOf, Converted
    <3>3. QED
      BY <3>1, <3>2 DEF Arguments
  <2>2. QED
    BY <2>1
<1>5. DOMAIN params = 1 .. n
  BY <1>2, <1>4, LenProperties
<1>6. ASSUME NEW i \in 1 .. n PROVE s[i] \in Holds(params[i])
  <2>1. params[i] \in Types /\ args[i] \in Values
    BY <1>1, <1>5, EntryIs DEF Used
  <2>2. QED
    BY <1>1, <1>3, <2>1, ConversionFits
<1>7. QED
  BY <1>2, <1>4, <1>5, <1>6

LEMMA AssignKeeps ==
  ASSUME IInv, NEW o \in Objects, NEW c \in DOMAIN classes, NEW m, NEW v \in Values, assign(o, m, v)
  PROVE  IInv'
<1>1. /\ class_of[o] \in DOMAIN classes /\ m \in PropertiesOf(class_of[o])
      /\ classes \in Declarations /\ UNCHANGED <<classes, class_of, types_map, called>>
      /\ \/ UNCHANGED properties
         \/ \E x \in Assigned(m, v) : properties' = [properties EXCEPT ![o][m] = x]
  BY DEF IInv, Made, assign
<1>2. /\ \A p : May(p)' = May(p) /\ Declared(p)' = Declared(p)
      /\ \A d : PropertiesOf(d)' = PropertiesOf(d)
      /\ CalledAsDeclared' = CalledAsDeclared
  BY <1>1 DEF May, Declared, PropertiesOf, Members, CalledAsDeclared
<1>3. CASE UNCHANGED properties
  BY <1>1, <1>2, <1>3 DEF IInv, Made, PropertiesKept
<1>4. ASSUME NEW x \in Assigned(m, v), properties' = [properties EXCEPT ![o][m] = x] PROVE IInv'
  <2>1. x \in May(m)
    BY <1>1, AssignedFits
  <2>2. properties' = [q \in Objects |-> IF q = o THEN [properties[o] EXCEPT ![m] = x] ELSE properties[q]]
    BY <1>4 DEF IInv, Made
  <2>3. /\ properties'[o] = [p \in PropertiesOf(class_of[o]) |-> IF p = m THEN x ELSE properties[o][p]]
        /\ \A q \in Objects : q # o => properties'[q] = properties[q]
    <3>1. class_of[o] # 0
      BY <1>1, ClassesAre
    <3>2. properties[o] = [p \in PropertiesOf(class_of[o]) |-> properties[o][p]]
      BY <3>1 DEF IInv, Made
    <3>3. [properties[o] EXCEPT ![m] = x]
            = [p \in PropertiesOf(class_of[o]) |-> IF p = m THEN x ELSE properties[o][p]]
      BY <3>2
    <3>4. QED
      BY <2>2, <3>3
  <2>4. Made'
    <3>1. properties' = [q \in Objects |-> properties'[q]]
      BY <2>2
    <3>2. ASSUME NEW q \in Objects, class_of[q] # 0
          PROVE  properties'[q] = [p \in PropertiesOf(class_of[q]) |-> properties'[q][p]]
      BY <2>3, <3>2 DEF IInv, Made
    <3>3. QED
      BY <1>1, <1>2, <3>1, <3>2 DEF IInv, Made
  <2>5. ASSUME NEW q \in Objects, class_of[q] # 0, NEW p \in PropertiesOf(class_of[q])
        PROVE  properties'[q][p] \in May(p)
    <3>1. properties[q][p] \in May(p)
      BY <2>5 DEF IInv, PropertiesKept, May
    <3>2. QED
      BY <2>1, <2>3, <3>1
  <2>6. PropertiesKept'
    BY <1>1, <1>2, <2>5 DEF PropertiesKept, May
  <2>7. QED
    BY <1>2, <2>4, <2>6 DEF IInv
<1>5. QED
  BY <1>1, <1>3, <1>4

LEMMA CallKeeps ==
  ASSUME IInv, NEW o \in Objects, NEW c \in DOMAIN classes, NEW m \in ToSet(Members(c)), NEW args \in Arguments,
         meta_call(o, m, args)
  PROVE  IInv'
<1>1. /\ classes \in Declarations /\ UNCHANGED <<classes, class_of, properties, types_map>>
      /\ m.kind = "_m" /\ m.class <= class_of[o]
      /\ \E s \in Converted(Declared(m).params, args) : called' = [what |-> m, on |-> o, args |-> s]
  BY DEF IInv, Made, meta_call, Callable
<1>2. PICK s \in Converted(Declared(m).params, args) : called' = [what |-> m, on |-> o, args |-> s]
  BY <1>1
<1>3. Declared(m).params \in Seq(Used) /\ m.class = c
  BY <1>1, DeclaredIs
<1>4. Len(s) = Len(Declared(m).params) /\ \A i \in DOMAIN Declared(m).params : s[i] \in Holds(Declared(m).params[i])
  BY <1>3, ConvertedFits
<1>5. /\ \A p : Declared(p)' = Declared(p)
      /\ \A d : PropertiesOf(d)' = PropertiesOf(d)
  BY <1>1 DEF Declared, PropertiesOf, Members
<1>6. Made' /\ PropertiesKept'
  BY <1>1, <1>2, <1>3, <1>5 DEF IInv, Made, PropertiesKept
<1>7. CalledAsDeclared'
  <2>1. called'.what = m /\ called'.on = o /\ called'.args = s
    BY <1>2
  <2>2. QED
    BY <1>1, <1>4, <1>5, <2>1 DEF CalledAsDeclared
<1>8. QED
  BY <1>6, <1>7 DEF IInv

LEMMA CreateKeeps ==
  ASSUME IInv, NEW o \in Objects, NEW c \in DOMAIN classes, NEW args \in Arguments, create(c, o, args)
  PROVE  IInv'
<1> DEFINE fitting == {j \in DOMAIN classes[c].constructors : Converted(classes[c].constructors[j], args) # {}}
           j == CHOOSE i \in fitting : \A k \in fitting : i <= k
           P == [m \in PropertiesOf(c) |-> Initial(Declared(m).type)]
<1>1. /\ classes \in Declarations /\ UNCHANGED <<classes, types_map>>
      /\ class_of[o] = 0 /\ class_of' = [class_of EXCEPT ![o] = c]
      /\ properties' = [properties EXCEPT ![o] = P]
      /\ \/ UNCHANGED called
         \/ /\ fitting # {}
            /\ \E s \in Converted(classes[c].constructors[j], args) :
                 called' = [what |-> [class |-> c, kind |-> "constructor", index |-> j], on |-> o, args |-> s]
  BY DEF IInv, Made, create
<1>2. /\ \A p : May(p)' = May(p) /\ Declared(p)' = Declared(p)
      /\ \A d : PropertiesOf(d)' = PropertiesOf(d)
  BY <1>1 DEF May, Declared, PropertiesOf, Members
<1>3. /\ class_of' \in [Objects -> {0} \cup DOMAIN classes] /\ class_of'[o] = c
      /\ \A q \in Objects : q # o => class_of'[q] = class_of[q] /\ properties'[q] = properties[q]
      /\ properties'[o] = P /\ properties' = [q \in Objects |-> properties'[q]]
  <2> HIDE DEF P
  <2>1. QED
    BY <1>1 DEF IInv, Made
<1>4. c # 0 /\ 0 \notin DOMAIN classes
  BY <1>1, ClassesAre
<1>5. \A m \in PropertiesOf(c) : P[m] \in May(m)
  BY <1>1, PropertyIs, HoldsSome DEF May
<1>6. ASSUME NEW q \in Objects, class_of'[q] # 0
      PROVE  /\ properties'[q] = [m \in PropertiesOf(class_of'[q]) |-> properties'[q][m]]
             /\ \A m \in PropertiesOf(class_of'[q]) : properties'[q][m] \in May(m)
  <2>1. CASE q = o
    BY <1>3, <1>5, <2>1
  <2>2. CASE q # o
    BY <1>3, <1>6, <2>2 DEF IInv, Made, PropertiesKept, May
  <2>3. QED
    BY <2>1, <2>2
<1>7. PropertiesKept'
  BY <1>1, <1>2, <1>6 DEF PropertiesKept, May
<1> HIDE DEF P
<1>8. CASE UNCHANGED called
  <2>1. Made'
    BY <1>1, <1>2, <1>3, <1>6, <1>8 DEF IInv, Made
  <2>2. called.what # NoMember => class_of'[called.on] = class_of[called.on]
    <3>1. called.what # NoMember =>
            /\ called.on \in Objects /\ called.what.class \in DOMAIN classes
            /\ called.what.class <= class_of[called.on]
      BY DEF IInv, Made, CalledAsDeclared
    <3>2. \A d \in DOMAIN classes : ~ d <= 0
      BY <1>1, ClassesAre
    <3>3. QED
      BY <1>1, <1>3, <3>1, <3>2
  <2>3. CalledAsDeclared'
    BY <1>1, <1>2, <1>8, <2>2 DEF IInv, CalledAsDeclared
  <2>4. QED
    BY <1>7, <2>1, <2>3 DEF IInv
<1>9. ASSUME fitting # {}, NEW s \in Converted(classes[c].constructors[j], args),
             called' = [what |-> [class |-> c, kind |-> "constructor", index |-> j], on |-> o, args |-> s]
      PROVE  IInv'
  <2>1. classes[c].constructors \in Seq(Seq(Used))
    BY <1>1, ClassesAre DEF IsClass
  <2>2. fitting \in SUBSET Nat
    BY <2>1, EntryIs
  <2>3. j \in fitting
    <3>1. \E i \in fitting : \A k \in fitting : i <= k
      <4>1. PICK i \in fitting : \A k \in fitting : ~ (<<k, i>> \in OpToRel(<, Nat))
        BY <1>9, <2>2, NatLessThanWellFounded, WFMin
      <4>2. ASSUME NEW k \in fitting PROVE i <= k
        <5>1. ~ k < i
          BY <2>2, <4>1 DEF OpToRel
        <5>2. QED
          BY <2>2, <5>1
      <4>3. QED
        BY <4>2
    <3> HIDE DEF fitting
    <3>2. QED
      BY <3>1
  <2>4. classes[c].constructors[j] \in Seq(Used)
    <3>1. j \in DOMAIN classes[c].constructors
      BY <2>3
    <3> HIDE DEF j
    <3>2. QED
      BY <2>1, <3>1, EntryIs
  <2> HIDE DEF j, fitting
  <2>5. /\ Len(s) = Len(classes[c].constructors[j])
        /\ \A i \in DOMAIN classes[c].constructors[j] : s[i] \in Holds(classes[c].constructors[j][i])
    BY <1>9, <2>4, ConvertedFits
  <2>6. /\ called'.what.class = c /\ called'.what.kind = "constructor" /\ called'.what.index = j
        /\ called'.on = o /\ called'.args = s
    BY <1>9
  <2>7. CalledAsDeclared'
    <3>1. c <= c
      BY <1>1, ClassesAre
    <3>2. QED
      BY <1>1, <1>3, <2>5, <2>6, <3>1 DEF CalledAsDeclared
  <2>8. Made'
    BY <1>1, <1>2, <1>3, <1>6, <2>6 DEF IInv, Made
  <2>9. QED
    BY <1>7, <2>7, <2>8 DEF IInv
<1>10. QED
  BY <1>1, <1>8, <1>9

LEMMA StepKeeps ==
  IInv /\ [Next]_vars => IInv'
<1> SUFFICES ASSUME IInv, [Next]_vars PROVE IInv'
  OBVIOUS
<1>1. ASSUME UNCHANGED <<classes, class_of, properties, called>> PROVE IInv'
  <2>1. /\ \A p : Declared(p)' = Declared(p)
        /\ \A d : PropertiesOf(d)' = PropertiesOf(d)
    BY <1>1 DEF Declared, PropertiesOf, Members
  <2>2. QED
    BY <1>1, <2>1 DEF IInv, Made, PropertiesKept, CalledAsDeclared
<1>2. CASE UNCHANGED vars
  BY <1>1, <1>2 DEF vars
<1>3. CASE MetaType
  BY <1>1, <1>3 DEF MetaType
<1>4. ASSUME NEW o \in Objects, NEW c \in DOMAIN classes, NEW m \in PropertiesOf(c), NEW v \in Values, assign(o, m, v)
      PROVE  IInv'
  BY <1>4, AssignKeeps
<1>5. ASSUME NEW o \in Objects, NEW c \in DOMAIN classes, NEW args \in Arguments, create(c, o, args)
      PROVE  IInv'
  BY <1>5, CreateKeeps
<1>6. ASSUME NEW o \in Objects, NEW c \in DOMAIN classes, NEW args \in Arguments,
             NEW m \in ToSet(Members(c)), meta_call(o, m, args)
      PROVE  IInv'
  BY <1>6, CallKeeps
<1>7. QED
  BY <1>2, <1>3, <1>4, <1>5, <1>6 DEF Next

LEMMA Invariance == Spec => []IInv
BY InitIInv, StepKeeps, PTL DEF Spec

(* For any classes, objects and values: a property holds a value of its    *)
(* type always, and the one that C++ gave it if it can be neither written  *)
(* nor reset.                                                              *)
THEOREM PropertiesStayTyped == Spec => []PropertiesKept
<1>1. IInv => PropertiesKept
  BY DEF IInv
<1>2. QED
  BY <1>1, Invariance, PTL

(* For any classes, overloads and arguments: slots and constructors get    *)
(* the arguments they declare, converted, and slots objects of their class.*)
THEOREM CallsAsDeclared == Spec => []CalledAsDeclared
<1>1. IInv => CalledAsDeclared
  BY DEF IInv
<1>2. QED
  BY <1>1, Invariance, PTL

(* For any classes, if there is no property of type float, which           *)
(* QMetaValue does not convert: what a property of a type can hold comes   *)
(* back from it unchanged.                                                 *)
THEOREM ValuesComeBack == "float" \in Avoided => (Spec => []RoundTrip)
<1> SUFFICES ASSUME "float" \in Avoided PROVE Spec => []RoundTrip
  OBVIOUS
<1>1. IInv => RoundTrip
  <2>1. SUFFICES ASSUME IInv, NEW c \in DOMAIN classes, NEW m \in PropertiesOf(c),
                        Declared(m).writable, types_map \/ Declared(m).type # "custom",
                        NEW v \in Holds(Declared(m).type), ~ (v = Nil /\ Declared(m).reset)
                 PROVE  {raw_get_object(Declared(m).type, x) : x \in Assigned(m, v)} = {v}
    BY DEF RoundTrip
  <2> DEFINE t == Declared(m).type
  <2>2. t \in Used
    BY <2>1, PropertyIs DEF IInv, Made
  <2>3. Assigned(m, v) = raw_set_object(t, v)
    BY <2>1 DEF Assigned
  <2>4. raw_set_object(t, v) = {v} /\ raw_get_object(t, v) = v
    BY <2>1, <2>2, SameBack
  <2>5. QED
    BY <2>3, <2>4
<1>2. QED
  BY <1>1, Invariance, PTL
-----------------------------------------------------------------------------
(* The names of members.                                                   *)

LEMMA LeastIs ==
  ASSUME NEW T \in SUBSET Nat, T # {}
  PROVE  \E n \in T : \A k \in T : n <= k
<1>1. PICK n \in T : \A k \in T : ~ (<<k, n>> \in OpToRel(<, Nat))
  BY NatLessThanWellFounded, WFMin
<1>2. ASSUME NEW k \in T PROVE n <= k
  <2>1. ~ k < n
    BY <1>1 DEF OpToRel
  <2>2. QED
    BY <2>1
<1>3. QED
  BY <1>2

(* A function that is defined along 0 .. N exists.                         *)
Follows(g, v0, F, N) == g[0] = v0 /\ \A n \in 1 .. N : g[n] = F[n][g[n - 1]]

LEMMA StepsExist ==
  ASSUME NEW V, NEW v0 \in V, NEW N \in Nat, NEW F \in [1 .. N -> [V -> V]]
  PROVE  \E g \in [0 .. N -> V] : Follows(g, v0, F, N)
<1> DEFINE T == {n \in 0 .. N : ~ \E g \in [0 .. n -> V] : Follows(g, v0, F, n)}
<1>1. SUFFICES ASSUME T # {} PROVE FALSE
  OBVIOUS
<1>2. T \in SUBSET Nat
  OBVIOUS
<1>3. PICK n \in T : \A k \in T : n <= k
  <2> HIDE DEF T
  <2>1. QED
    BY <1>1, <1>2, LeastIs
<1>4. n \in 0 .. N /\ ~ \E g \in [0 .. n -> V] : Follows(g, v0, F, n)
  OBVIOUS
<1>5. n # 0
  <2>1. SUFFICES ASSUME n = 0 PROVE FALSE
    OBVIOUS
  <2> DEFINE g == [i \in 0 .. n |-> v0]
  <2>2. g \in [0 .. n -> V] /\ Follows(g, v0, F, n)
    BY <2>1 DEF Follows
  <2>3. QED
    BY <1>4, <2>2
<1>6. n - 1 \in 0 .. N /\ n - 1 \notin T
  <2> HIDE DEF T
  <2>1. QED
    BY <1>3, <1>4, <1>5
<1>7. PICK g \in [0 .. n - 1 -> V] : Follows(g, v0, F, n - 1)
  BY <1>6
<1> DEFINE h == [i \in 0 .. n |-> IF i = n THEN F[n][g[n - 1]] ELSE g[i]]
<1>8. h \in [0 .. n -> V]
  <2>1. F[n][g[n - 1]] \in V
    BY <1>4, <1>5, <1>7
  <2>2. QED
    BY <1>4, <1>5, <1>7, <2>1
<1>9. Follows(h, v0, F, n)
  BY <1>4, <1>5, <1>7 DEF Follows
<1>10. QED
  BY <1>4, <1>8, <1>9

(* What the classes up to class n hold, in order.                          *)
Parts == [c \in DOMAIN classes |-> Members(c)]
Flatten[i \in 1 .. Len(Parts)] == IF i = 1 THEN Parts[i] ELSE Flatten[i - 1] \o Parts[i]

LEMMA FlattenIs ==
  ASSUME classes \in Declarations, DOMAIN classes # {}
  PROVE  /\ Chain = Flatten[Len(classes)] /\ Flatten[1] = Members(1)
         /\ \A i \in 2 .. Len(classes) : Flatten[i] = Flatten[i - 1] \o Members(i)
<1> DEFINE L == Len(classes)
           V == Seq(MemberSet)
           F == [n \in 1 .. L - 1 |-> [s \in V |-> s \o Members(n + 1)]]
<1>1. L \in Nat /\ L >= 1 /\ DOMAIN classes = 1 .. L
  BY ClassesAre
<1>2. \A c \in 1 .. L : Members(c) \in V
  BY <1>1, MembersAre
<1>3. Len(Parts) = L /\ \A c \in 1 .. L : Parts[c] = Members(c)
  <2>1. Parts = [c \in 1 .. L |-> Members(c)]
    BY <1>1 DEF Parts
  <2>2. Parts \in Seq(V)
    BY <1>1, <1>2, <2>1, IsASeq
  <2>3. QED
    BY <1>1, <2>1, <2>2, LenProperties
<1>4. Chain = Flatten[L]
  <2>1. Chain = FlattenSeq(Parts)
    BY DEF Chain, Parts
  <2>2. FlattenSeq(Parts) = IF Len(Parts) = 0 THEN Parts ELSE Flatten[Len(Parts)]
    BY ZenonT(30) DEF FlattenSeq, Flatten
  <2>3. QED
    BY <1>1, <1>3, <2>1, <2>2
<1>5. F \in [1 .. L - 1 -> [V -> V]]
  <2>1. ASSUME NEW n \in 1 .. L - 1, NEW s \in V PROVE s \o Members(n + 1) \in V
    BY <1>1, <1>2, ConcatProperties
  <2>2. QED
    BY <2>1
<1>6. \E f : f = [i \in 1 .. Len(Parts) |-> IF i = 1 THEN Parts[i] ELSE f[i - 1] \o Parts[i]]
  <2>1. PICK g \in [0 .. L - 1 -> V] : Follows(g, Members(1), F, L - 1)
    <3> HIDE DEF F, V
    <3>1. Members(1) \in V /\ L - 1 \in Nat
      BY <1>1, <1>2
    <3>2. QED
      BY <1>5, <3>1, StepsExist
  <2> DEFINE f == [i \in 1 .. L |-> g[i - 1]]
  <2>2. f[1] = Members(1)
    BY <1>1, <2>1 DEF Follows
  <2>3. ASSUME NEW i \in 2 .. L PROVE f[i] = f[i - 1] \o Members(i)
    <3>1. i - 1 \in 1 .. L - 1 /\ i - 2 \in 0 .. L - 1 /\ (i - 1) - 1 = i - 2 /\ (i - 1) + 1 = i
      BY <1>1
    <3>2. g[i - 1] = F[i - 1][g[i - 2]] /\ g[i - 2] \in V
      BY <2>1, <3>1 DEF Follows
    <3>3. F[i - 1][g[i - 2]] = g[i - 2] \o Members(i)
      BY <3>1, <3>2
    <3>4. QED
      BY <1>1, <3>1, <3>2, <3>3
  <2>4. f = [i \in 1 .. L |-> IF i = 1 THEN Parts[i] ELSE f[i - 1] \o Parts[i]]
    <3>1. f = [i \in 1 .. L |-> f[i]]
      OBVIOUS
    <3> HIDE DEF f
    <3>2. ASSUME NEW i \in 1 .. L PROVE f[i] = IF i = 1 THEN Parts[i] ELSE f[i - 1] \o Parts[i]
      <4>1. CASE i = 1
        BY <1>3, <2>2, <4>1
      <4>2. CASE i # 1
        <5>1. i \in 2 .. L /\ Parts[i] = Members(i)
          BY <1>1, <1>3, <4>2
        <5>2. QED
          BY <2>3, <4>2, <5>1
      <4>3. QED
        BY <4>1, <4>2
    <3>3. QED
      BY <3>1, <3>2
  <2>5. QED
    BY <1>3, <2>4
<1>7. Flatten = [i \in 1 .. Len(Parts) |-> IF i = 1 THEN Parts[i] ELSE Flatten[i - 1] \o Parts[i]]
  BY <1>6 DEF Flatten
<1>8. Flatten[1] = Members(1)
  BY <1>1, <1>3, <1>7
<1>9. ASSUME NEW i \in 2 .. L PROVE Flatten[i] = Flatten[i - 1] \o Members(i)
  <2>1. i \in 1 .. Len(Parts) /\ i # 1 /\ Parts[i] = Members(i)
    BY <1>1, <1>3
  <2>2. QED
    BY <1>7, <2>1
<1>10. QED
  BY <1>4, <1>8, <1>9

(* The members of all classes, each once, those of a class after those of  *)
(* the classes it is derived from.                                         *)
ChainTo(s, n) ==
  /\ s \in Seq(MemberSet) /\ Distinct(s) /\ ToSet(s) = UNION {ToSet(Members(c)) : c \in 1 .. n}
  /\ \A i, j \in DOMAIN s : i < j => s[i].class <= s[j].class

LEMMA ChainIs ==
  ASSUME classes \in Declarations
  PROVE  ChainTo(Chain, Len(classes))
<1> DEFINE L == Len(classes)
<1>1. L \in Nat /\ DOMAIN classes = 1 .. L
  BY ClassesAre
<1>2. \A c \in 1 .. L : /\ Members(c) \in Seq(MemberSet) /\ Distinct(Members(c))
                        /\ \A m \in ToSet(Members(c)) : m.class = c
  BY <1>1, MembersAre, DeclaredIs
<1>3. CASE L = 0
  <2>1. Chain = << >>
    <3>1. DOMAIN classes = {} /\ Parts = [c \in {} |-> Members(c)]
      BY <1>1, <1>3 DEF Parts
    <3>2. Parts = << >>
      BY <3>1
    <3>3. Chain = FlattenSeq(Parts)
      BY DEF Chain, Parts
    <3>4. QED
      BY <3>2, <3>3 DEF FlattenSeq
  <2>2. QED
    BY <1>3, <2>1 DEF ChainTo, Distinct, ToSet
<1>4. CASE L # 0
  <2>1. /\ Chain = Flatten[L] /\ Flatten[1] = Members(1)
        /\ \A i \in 2 .. L : Flatten[i] = Flatten[i - 1] \o Members(i)
    <3>1. DOMAIN classes # {}
      BY <1>1, <1>4
    <3>2. QED
      BY <3>1, FlattenIs
  <2> DEFINE T == {n \in 1 .. L : ~ ChainTo(Flatten[n], n)}
  <2>2. SUFFICES ASSUME T # {} PROVE FALSE
    BY <1>1, <1>4, <2>1
  <2>3. PICK n \in T : \A k \in T : n <= k
    <3>1. T \in SUBSET Nat
      BY <1>1
    <3> HIDE DEF T
    <3>2. QED
      BY <2>2, <3>1, LeastIs
  <2>4. n \in 1 .. L /\ ~ ChainTo(Flatten[n], n) /\ \A k \in T : n <= k
    BY <2>3
  <2>5. n # 1
    <3>1. SUFFICES ASSUME n = 1 PROVE FALSE
      OBVIOUS
    <3>2. 1 .. n = {1} /\ Flatten[n] = Members(1)
      BY <2>1, <3>1
    <3>3. UNION {ToSet(Members(c)) : c \in 1 .. n} = ToSet(Members(1))
      BY <3>2
    <3>4. \A i \in DOMAIN Members(1) : Members(1)[i].class = 1
      BY <1>2, <2>4, <3>1 DEF ToSet
    <3>5. QED
      BY <1>2, <2>4, <3>1, <3>2, <3>3, <3>4 DEF ChainTo
  <2>6. n \in 2 .. L /\ n - 1 \in 1 .. L /\ n - 1 \notin T
    <3> HIDE DEF T
    <3>1. QED
      BY <1>1, <2>4, <2>5
  <2> DEFINE s == Flatten[n - 1]
             t == Members(n)
  <2>7. /\ s \in Seq(MemberSet) /\ Distinct(s) /\ ToSet(s) = UNION {ToSet(Members(c)) : c \in 1 .. n - 1}
        /\ \A i, j \in DOMAIN s : i < j => s[i].class <= s[j].class
        /\ t \in Seq(MemberSet) /\ Distinct(t) /\ \A m \in ToSet(t) : m.class = n
    BY <1>2, <2>6 DEF ChainTo
  <2>8. \A m \in ToSet(s) : m.class \in 1 .. n - 1
    <3>1. SUFFICES ASSUME NEW m \in ToSet(s) PROVE m.class \in 1 .. n - 1
      OBVIOUS
    <3>2. PICK c \in 1 .. n - 1 : m \in ToSet(Members(c))
      BY <2>7
    <3>3. m.class = c
      BY <1>1, <1>2, <2>6, <3>2
    <3>4. QED
      BY <3>2, <3>3
  <2>9. ToSet(s) \cap ToSet(t) = {} /\ n \in Nat
    BY <1>1, <2>6, <2>7, <2>8
  <2> HIDE DEF s, t, T
  <2>10. /\ s \o t \in Seq(MemberSet) /\ Distinct(s \o t) /\ ToSet(s \o t) = ToSet(s) \cup ToSet(t)
         /\ Len(s \o t) = Len(s) + Len(t)
    BY <2>7, <2>9, ConcatIs
  <2>11. ToSet(s) \cup ToSet(t) = UNION {ToSet(Members(c)) : c \in 1 .. n}
    <3>1. 1 .. n = (1 .. n - 1) \cup {n}
      BY <1>1, <2>6
    <3>2. ToSet(t) = ToSet(Members(n))
      BY DEF t
    <3>3. QED
      BY <2>7, <3>1, <3>2
  <2>12. ASSUME NEW i \in DOMAIN (s \o t), NEW j \in DOMAIN (s \o t), i < j
         PROVE  (s \o t)[i].class <= (s \o t)[j].class
    <3>1. /\ Len(s) \in Nat /\ DOMAIN s = 1 .. Len(s) /\ Len(t) \in Nat /\ DOMAIN t = 1 .. Len(t)
          /\ DOMAIN (s \o t) = 1 .. Len(s) + Len(t)
      BY <2>7, <2>10, LenProperties
    <3>2. /\ \A k \in 1 .. Len(s) : (s \o t)[k] = s[k]
          /\ \A k \in Len(s) + 1 .. Len(s) + Len(t) : (s \o t)[k] = t[k - Len(s)]
      BY <2>7, ConcatProperties
    <3>3. CASE j \in 1 .. Len(s)
      BY <2>7, <2>12, <3>1, <3>2, <3>3
    <3>4. CASE j \notin 1 .. Len(s)
      <4>1. (s \o t)[j] \in ToSet(t)
        BY <3>1, <3>2, <3>4 DEF ToSet
      <4>2. (s \o t)[j].class = n
        BY <2>7, <4>1
      <4>3. (s \o t)[i] \in ToSet(s) \cup ToSet(t)
        BY <2>10 DEF ToSet
      <4>4. (s \o t)[i].class \in 1 .. n
        BY <1>1, <2>6, <2>7, <2>8, <4>3
      <4>5. QED
        BY <1>1, <2>6, <4>2, <4>4
    <3>5. QED
      BY <3>3, <3>4
  <2>13. Flatten[n] = s \o t
    BY <2>1, <2>6 DEF s, t
  <2>14. ChainTo(Flatten[n], n)
    BY <2>10, <2>11, <2>12, <2>13 DEF ChainTo
  <2>15. QED
    BY <2>4, <2>14
<1>5. QED
  BY <1>3, <1>4

LEMMA RepeatedIs ==
  ASSUME NEW S, NEW x \in S, NEW n \in Nat
  PROVE  [i \in 1 .. n |-> x] \in Seq(S) /\ Len([i \in 1 .. n |-> x]) = n
<1> DEFINE s == [i \in 1 .. n |-> x]
<1>1. s \in [1 .. n -> S] /\ DOMAIN s = 1 .. n
  OBVIOUS
<1>2. s \in Seq(S)
  BY <1>1, SeqDef
<1> HIDE DEF s
<1>3. Len(s) = n
  BY <1>1, <1>2, LenProperties
<1>4. QED
  BY <1>2, <1>3 DEF s

(* What names are made of.                                                 *)
Letters == STRING \cup Kinds

(* A name that is given is a new one.                                      *)
LEMMA RenamedIs ==
  ASSUME NEW name \in Seq(Letters), NEW suffix \in Letters, NEW existing, NEW cache,
         IsFiniteSet(existing \cup cache)
  PROVE  Renamed(name, suffix, existing, cache) \in Seq(Letters) \ (existing \cup cache)
<1> DEFINE taken == existing \cup cache
           N == Cardinality(taken)
           more(n) == name \o [i \in 1 .. n |-> suffix]
           T == {n \in 0 .. N : more(n) \notin taken}
           Free(n) == more(n) \notin taken /\ \A j \in 0 .. n - 1 : more(j) \in taken
           free == CHOOSE n \in 0 .. N : Free(n)
<1>1. N \in Nat /\ IsFiniteSet(taken)
  BY FS_CardinalityType
<1>2. ASSUME NEW n \in Nat PROVE more(n) \in Seq(Letters) /\ Len(more(n)) = Len(name) + n
  <2> DEFINE s == [i \in 1 .. n |-> suffix]
  <2>1. s \in Seq(Letters) /\ Len(s) = n
    BY RepeatedIs
  <2> HIDE DEF s
  <2>2. name \o s \in Seq(Letters) /\ Len(name \o s) = Len(name) + n
    BY <2>1, ConcatProperties
  <2>3. QED
    BY <2>2 DEF s
<1> HIDE DEF more, N, taken
<1>3. T # {}
  <2>1. SUFFICES ASSUME \A n \in 0 .. N : more(n) \in taken PROVE FALSE
    OBVIOUS
  <2> DEFINE f == [n \in 0 .. N |-> more(n)]
  <2>2. f \in [0 .. N -> taken]
    BY <2>1
  <2>3. IsFiniteSet(0 .. N) /\ Cardinality(taken) < Cardinality(0 .. N)
    <3>1. IsFiniteSet(0 .. N) /\ Cardinality(0 .. N) = N + 1
      BY <1>1, FS_Interval
    <3>2. QED
      BY <1>1, <3>1 DEF N
  <2> HIDE DEF f
  <2>4. PICK x, y \in 0 .. N : x # y /\ f[x] = f[y]
    BY <1>1, <2>2, <2>3, FS_PigeonHole
  <2>5. more(x) = more(y)
    BY <2>4 DEF f
  <2>6. Len(name) + x = Len(name) + y
    <3>1. x \in Nat /\ y \in Nat
      BY <1>1
    <3>2. Len(more(x)) = Len(name) + x /\ Len(more(y)) = Len(name) + y
      BY <1>2, <3>1
    <3>3. QED
      BY <2>5, <3>2
  <2>7. Len(name) \in Nat
    BY LenProperties
  <2>8. QED
    BY <1>1, <2>4, <2>6, <2>7
<1>4. PICK n \in T : \A k \in T : n <= k
  <2>1. T \in SUBSET Nat
    BY <1>1
  <2> HIDE DEF T
  <2>2. QED
    BY <1>3, <2>1, LeastIs
<1>5. n \in 0 .. N /\ Free(n)
  BY <1>1, <1>4
<1>6. free \in 0 .. N /\ Free(free)
  <2> HIDE DEF Free, T
  <2>1. QED
    BY <1>5
<1>7. Renamed(name, suffix, existing, cache) = more(free)
  BY ZenonT(30) DEF Renamed, more, taken, N
<1> HIDE DEF free
<1>8. QED
  BY <1>1, <1>2, <1>6, <1>7 DEF taken

(* What Named makes of the names of those before.                          *)
NameAfter(n, before) ==
  LET m == Chain[n]
      of(cs) == {before[k] : k \in {j \in 1 .. n - 1 : Chain[j].class \in cs}}
  IN Renamed(Declared(m).name, m.kind, of(1 .. m.class - 1), of({m.class}))

(* A member of the chain.                                                  *)
LEMMA LinkIs ==
  ASSUME classes \in Declarations, NEW n \in DOMAIN Chain
  PROVE  /\ n \in Nat /\ Len(Chain) \in Nat /\ DOMAIN Chain = 1 .. Len(Chain)
         /\ Chain[n].class \in DOMAIN classes /\ Chain[n] \in ToSet(Members(Chain[n].class))
         /\ Chain[n].kind \in Letters /\ Declared(Chain[n]).name \in Seq(Letters)
<1>1. /\ Chain \in Seq(MemberSet)
      /\ ToSet(Chain) = UNION {ToSet(Members(c)) : c \in 1 .. Len(classes)}
  BY ChainIs DEF ChainTo
<1>2. PICK c \in 1 .. Len(classes) : Chain[n] \in ToSet(Members(c))
  BY <1>1 DEF ToSet
<1>3. c \in DOMAIN classes
  BY ClassesAre
<1>4. Chain[n] \in MemberSet /\ Chain[n].class = c /\ Declared(Chain[n]).name \in Seq(Letters)
  <2>1. Chain[n] \in MemberSet /\ Chain[n].class = c /\ Declared(Chain[n]).name \in Seq(STRING)
    BY <1>2, <1>3, DeclaredIs
  <2>2. STRING \subseteq Letters
    BY DEF Letters
  <2>3. QED
    BY <2>1, <2>2, SeqMonotonic
<1>5. Chain[n].kind \in Letters
  <2>1. Chain[n].kind \in Kinds
    BY <1>4 DEF MemberSet
  <2>2. QED
    BY <2>1 DEF Letters
<1>6. QED
  BY <1>1, <1>2, <1>3, <1>4, <1>5, LenProperties

(* The new name is none of those before.                                   *)
LEMMA NameAfterIs ==
  ASSUME classes \in Declarations, NEW n \in DOMAIN Chain, NEW before \in Seq(Seq(Letters)), Len(before) = n - 1
  PROVE  NameAfter(n, before) \in Seq(Letters) \ ToSet(before)
<1> DEFINE m == Chain[n]
           of(cs) == {before[k] : k \in {j \in 1 .. n - 1 : Chain[j].class \in cs}}
           A == of(1 .. m.class - 1)
           B == of({m.class})
<1>1. /\ n \in Nat /\ DOMAIN Chain = 1 .. Len(Chain) /\ Len(Chain) \in Nat
      /\ m.class \in DOMAIN classes /\ m.kind \in Letters /\ Declared(m).name \in Seq(Letters)
  BY LinkIs
<1>2. DOMAIN before = 1 .. n - 1
  BY LenProperties
<1>3. \A k \in 1 .. n - 1 : Chain[k].class \in 1 .. m.class
  <2>1. ASSUME NEW k \in 1 .. n - 1 PROVE Chain[k].class \in 1 .. m.class
    <3>1. k \in DOMAIN Chain /\ k < n
      BY <1>1
    <3>2. Chain[k].class <= m.class
      BY <3>1, ChainIs DEF ChainTo
    <3>3. Chain[k].class \in DOMAIN classes
      BY <3>1, LinkIs
    <3>4. QED
      BY <1>1, <3>2, <3>3, ClassesAre
  <2>2. QED
    BY <2>1
<1>4. A \cup B = ToSet(before)
  <2>1. A \cup B \subseteq ToSet(before)
    BY <1>2 DEF ToSet
  <2>2. ASSUME NEW k \in 1 .. n - 1 PROVE before[k] \in A \cup B
    <3>1. m.class \in Nat
      BY <1>1, ClassesAre
    <3> HIDE DEF m
    <3>2. Chain[k].class \in 1 .. m.class - 1 \/ Chain[k].class = m.class
      BY <1>3, <3>1
    <3>3. QED
      BY <3>2
  <2>3. ToSet(before) \subseteq A \cup B
    BY <1>2, <2>2 DEF ToSet
  <2>4. QED
    BY <2>1, <2>3
<1>5. IsFiniteSet(ToSet(before))
  <2>1. before \in Surjection(1 .. n - 1, ToSet(before))
    <3>1. before \in [1 .. n - 1 -> ToSet(before)]
      BY <1>2 DEF ToSet
    <3>2. \A x \in ToSet(before) : \E k \in 1 .. n - 1 : before[k] = x
      BY <1>2 DEF ToSet
    <3>3. QED
      BY <3>1, <3>2 DEF Surjection
  <2>2. IsFiniteSet(1 .. n - 1)
    BY <1>1, FS_Interval
  <2>3. QED
    BY <2>1, <2>2, FS_Surjection
<1>6. NameAfter(n, before) = Renamed(Declared(m).name, m.kind, A, B)
  BY DEF NameAfter
<1>7. Renamed(Declared(m).name, m.kind, A, B) \in Seq(Letters) \ (A \cup B)
  <2> DEFINE name == Declared(m).name
             suffix == m.kind
  <2>1. name \in Seq(Letters) /\ suffix \in Letters /\ IsFiniteSet(A \cup B)
    BY <1>1, <1>4, <1>5
  <2> HIDE DEF A, B, name, suffix
  <2>2. Renamed(name, suffix, A, B) \in Seq(Letters) \ (A \cup B)
    BY <2>1, RenamedIs
  <2>3. QED
    BY <2>2 DEF name, suffix
<1> HIDE DEF A, B, m
<1>8. QED
  BY <1>4, <1>6, <1>7

(* Names are given one after the other, each to a member.                  *)
LEMMA NamedFollows ==
  ASSUME classes \in Declarations
  PROVE  /\ Len(Chain) \in Nat /\ Named[0] = << >>
         /\ \A n \in 1 .. Len(Chain) : Named[n] = Append(Named[n - 1], NameAfter(n, Named[n - 1]))
<1> DEFINE N == Len(Chain)
           Body(f) == [n \in 0 .. N |-> IF n = 0 THEN << >> ELSE Append(f[n - 1], NameAfter(n, f[n - 1]))]
           F == [n \in 1 .. N |-> [s \in Seq(Seq(Letters)) |->
                  IF Len(s) = n - 1 THEN Append(s, NameAfter(n, s)) ELSE s]]
<1>1. N \in Nat /\ DOMAIN Chain = 1 .. N
  <2>1. Chain \in Seq(MemberSet)
    BY ChainIs DEF ChainTo
  <2>2. QED
    BY <2>1, LenProperties
<1>2. F \in [1 .. N -> [Seq(Seq(Letters)) -> Seq(Seq(Letters))]]
  <2>1. ASSUME NEW n \in 1 .. N, NEW s \in Seq(Seq(Letters)), Len(s) = n - 1
        PROVE  Append(s, NameAfter(n, s)) \in Seq(Seq(Letters))
    <3>1. NameAfter(n, s) \in Seq(Letters)
      BY <1>1, <2>1, NameAfterIs
    <3>2. QED
      BY <3>1, AppendProperties
  <2>2. QED
    BY <2>1
<1>3. PICK g \in [0 .. N -> Seq(Seq(Letters))] : Follows(g, << >>, F, N)
  <2>1. << >> \in Seq(Seq(Letters))
    OBVIOUS
  <2> HIDE DEF F
  <2>2. QED
    BY <1>1, <1>2, <2>1, StepsExist
<1>4. g[0] = << >> /\ \A n \in 1 .. N : g[n] = F[n][g[n - 1]]
  BY <1>3 DEF Follows
<1>5. \A n \in 0 .. N : Len(g[n]) = n
  <2> DEFINE T == {n \in 0 .. N : Len(g[n]) # n}
  <2>1. SUFFICES ASSUME T # {} PROVE FALSE
    OBVIOUS
  <2>2. T \in SUBSET Nat
    BY <1>1
  <2>3. PICK n \in T : \A k \in T : n <= k
    <3> HIDE DEF T
    <3>1. QED
      BY <2>1, <2>2, LeastIs
  <2>4. n \in 0 .. N /\ Len(g[n]) # n
    OBVIOUS
  <2>5. n # 0
    BY <1>4, <2>4
  <2>6. n \in 1 .. N /\ n - 1 \in 0 .. N /\ n - 1 \notin T
    <3> HIDE DEF T
    <3>1. QED
      BY <1>1, <2>3, <2>4, <2>5
  <2>7. Len(g[n - 1]) = n - 1 /\ g[n - 1] \in Seq(Seq(Letters))
    BY <1>3, <2>6
  <2>8. g[n] = Append(g[n - 1], NameAfter(n, g[n - 1]))
    BY <1>4, <2>6, <2>7
  <2>9. NameAfter(n, g[n - 1]) \in Seq(Letters)
    BY <1>1, <2>6, <2>7, NameAfterIs
  <2>10. Len(g[n]) = (n - 1) + 1
    BY <2>7, <2>8, <2>9, AppendProperties
  <2>11. QED
    BY <1>1, <2>4, <2>10
<1>6. ASSUME NEW n \in 1 .. N PROVE g[n] = Append(g[n - 1], NameAfter(n, g[n - 1]))
  <2>1. n - 1 \in 0 .. N
    BY <1>1
  <2>2. Len(g[n - 1]) = n - 1 /\ g[n - 1] \in Seq(Seq(Letters))
    BY <1>3, <1>5, <2>1
  <2>3. QED
    BY <1>4, <2>2
<1>7. g = Body(g)
  <2>1. g = [n \in 0 .. N |-> g[n]]
    BY <1>3
  <2>2. \A n \in 0 .. N : g[n] = IF n = 0 THEN << >> ELSE Append(g[n - 1], NameAfter(n, g[n - 1]))
    BY <1>1, <1>4, <1>6
  <2>3. QED
    BY <2>1, <2>2
<1>8. Named = CHOOSE f : f = Body(f)
  BY ZenonT(30) DEF Named, NameAfter
<1>9. Named = Body(Named)
  <2> DEFINE f == CHOOSE h : h = Body(h)
  <2>1. f = Body(f)
    <3> HIDE DEF Body
    <3>1. QED
      BY <1>7
  <2>2. QED
    BY <1>8, <2>1
<1>10. 0 \in 0 .. N /\ \A n \in 1 .. N : n \in 0 .. N /\ n # 0
  BY <1>1
<1>11. Named[0] = << >>
  BY <1>9, <1>10
<1>12. ASSUME NEW n \in 1 .. N PROVE Named[n] = Append(Named[n - 1], NameAfter(n, Named[n - 1]))
  BY <1>9, <1>10
<1>13. QED
  BY <1>1, <1>11, <1>12

(* Names are distinct.                                                     *)
LEMMA NamedIs ==
  ASSUME classes \in Declarations
  PROVE  \A n \in 0 .. Len(Chain) : Named[n] \in Seq(Seq(Letters)) /\ Len(Named[n]) = n /\ Distinct(Named[n])
<1> DEFINE N == Len(Chain)
           Is(n) == Named[n] \in Seq(Seq(Letters)) /\ Len(Named[n]) = n /\ Distinct(Named[n])
           T == {n \in 0 .. N : ~ Is(n)}
<1>1. /\ N \in Nat /\ Named[0] = << >>
      /\ \A n \in 1 .. N : Named[n] = Append(Named[n - 1], NameAfter(n, Named[n - 1]))
  BY NamedFollows
<1>2. SUFFICES ASSUME T # {} PROVE FALSE
  OBVIOUS
<1>3. T \in SUBSET Nat
  BY <1>1
<1>4. PICK n \in T : \A k \in T : n <= k
  <2> HIDE DEF T
  <2>1. QED
    BY <1>2, <1>3, LeastIs
<1>5. n \in 0 .. N /\ ~ Is(n)
  OBVIOUS
<1>6. n # 0
  <2>1. Is(0)
    BY <1>1 DEF Distinct
  <2>2. QED
    BY <1>5, <2>1
<1>7. n \in 1 .. N /\ n - 1 \in 0 .. N /\ n - 1 \notin T
  <2> HIDE DEF T
  <2>1. QED
    BY <1>1, <1>4, <1>5, <1>6
<1> DEFINE s == Named[n - 1]
           x == NameAfter(n, s)
<1>8. s \in Seq(Seq(Letters)) /\ Len(s) = n - 1 /\ Distinct(s)
  BY <1>7
<1>9. n \in DOMAIN Chain
  <2>1. Chain \in Seq(MemberSet)
    BY ChainIs DEF ChainTo
  <2>2. QED
    BY <1>7, <2>1, LenProperties
<1>10. x \in Seq(Letters) \ ToSet(s) /\ Named[n] = Append(s, x)
  <2>1. x \in Seq(Letters) \ ToSet(s)
    <3> HIDE DEF s
    <3>1. QED
      BY <1>8, <1>9, NameAfterIs
  <2>2. QED
    BY <1>1, <1>7, <2>1
<1> HIDE DEF s, x
<1>11. /\ Append(s, x) \in Seq(Seq(Letters)) /\ Len(Append(s, x)) = Len(s) + 1
       /\ \A i \in 1 .. Len(s) : Append(s, x)[i] = s[i]
       /\ Append(s, x)[Len(s) + 1] = x
  BY <1>8, <1>10, AppendProperties
<1>12. Distinct(Append(s, x))
  <2>1. /\ DOMAIN s = 1 .. Len(s) /\ DOMAIN Append(s, x) = 1 .. Len(s) + 1 /\ Len(s) \in Nat
    BY <1>8, <1>11, LenProperties
  <2>2. ASSUME NEW i \in 1 .. Len(s), NEW j \in 1 .. Len(s), s[i] = s[j] PROVE i = j
    BY <1>8, <2>1, <2>2 DEF Distinct
  <2>3. \A i \in 1 .. Len(s) : s[i] # x
    BY <1>10, <2>1 DEF ToSet
  <2>4. QED
    BY <1>11, <2>1, <2>2, <2>3 DEF Distinct
<1>13. Len(s) + 1 = n
  BY <1>1, <1>7, <1>8
<1>14. Is(n)
  BY <1>10, <1>11, <1>12, <1>13
<1>15. QED
  BY <1>5, <1>14

(* The last names, and what has them.                                      *)
Names == Named[Len(Chain)]
Has(d) == {k \in DOMAIN Chain : Chain[k].class = d}

LEMMA NamesAre ==
  ASSUME classes \in Declarations
  PROVE  /\ DOMAIN Names = DOMAIN Chain /\ Distinct(Names) /\ Distinct(Chain)
         /\ \A k \in DOMAIN Chain : Chain[k].class \in DOMAIN classes
<1>1. Chain \in Seq(MemberSet) /\ Distinct(Chain)
  BY ChainIs DEF ChainTo
<1>2. Len(Chain) \in Nat /\ DOMAIN Chain = 1 .. Len(Chain)
  BY <1>1, LenProperties
<1>3. Names \in Seq(Seq(Letters)) /\ Len(Names) = Len(Chain) /\ Distinct(Names)
  BY <1>2, NamedIs DEF Names
<1>4. \A k \in DOMAIN Chain : Chain[k].class \in DOMAIN classes
  BY LinkIs
<1>5. QED
  BY <1>1, <1>2, <1>3, <1>4, LenProperties

(* The cache of a class.                                                   *)
LEMMA CacheIs ==
  ASSUME classes \in Declarations, NEW d
  PROVE  /\ DOMAIN MetaCache(d) = {Names[k] : k \in Has(d)}
         /\ \A k \in Has(d) : MetaCache(d)[Names[k]] = Chain[k]
<1>1. MetaCache(d) = [name \in {Names[k] : k \in Has(d)} |->
                        Chain[CHOOSE k \in Has(d) : Names[k] = name]]
  BY DEF MetaCache, Names, Has
<1>2. ASSUME NEW k \in Has(d) PROVE (CHOOSE j \in Has(d) : Names[j] = Names[k]) = k
  <2>1. \A j \in Has(d) : Names[j] = Names[k] => j = k
    BY NamesAre DEF Has, Distinct
  <2>2. QED
    BY <2>1
<1>3. ASSUME NEW k \in Has(d) PROVE MetaCache(d)[Names[k]] = Chain[k]
  <2>1. MetaCache(d)[Names[k]] = Chain[CHOOSE j \in Has(d) : Names[j] = Names[k]]
    BY <1>1
  <2>2. QED
    BY <1>2, <2>1
<1>4. QED
  BY <1>1, <1>3

(* A name leads to the member that it was given to.                        *)
LEMMA FoundIs ==
  ASSUME classes \in Declarations, NEW c \in DOMAIN classes, NEW k \in DOMAIN Chain, Chain[k].class <= c
  PROVE  get_member(c, Names[k]) = Chain[k]
<1> DEFINE d == Chain[k].class
           having == {e \in 1 .. c : Names[k] \in DOMAIN MetaCache(e)}
<1>1. d \in 1 .. c /\ k \in Has(d)
  BY NamesAre, ClassesAre DEF Has
<1>2. \A e : Names[k] \in DOMAIN MetaCache(e) <=> e = d
  <2>1. ASSUME NEW e, Names[k] \in DOMAIN MetaCache(e) PROVE e = d
    <3>1. DOMAIN MetaCache(e) = {Names[j] : j \in Has(e)}
      BY CacheIs
    <3>2. PICK j \in Has(e) : Names[j] = Names[k]
      BY <2>1, <3>1
    <3>3. j = k
      BY <3>2, NamesAre DEF Has, Distinct
    <3>4. QED
      BY <3>2, <3>3 DEF Has
  <2>2. Names[k] \in DOMAIN MetaCache(d)
    BY <1>1, CacheIs
  <2>3. QED
    BY <2>1, <2>2
<1>3. having = {d}
  BY <1>1, <1>2
<1>4. (CHOOSE e \in having : \A f \in having : f <= e) = d
  <2>1. d <= d
    BY <1>1
  <2> HIDE DEF having
  <2>2. QED
    BY <1>3, <2>1
<1>5. MetaCache(d)[Names[k]] = Chain[k]
  BY <1>1, CacheIs
<1>6. QED
  BY <1>3, <1>4, <1>5 DEF get_member

LEMMA NamedOnce ==
  classes \in Declarations => EveryMemberNamed
<1>1. SUFFICES ASSUME classes \in Declarations, NEW c \in DOMAIN classes, NEW m \in Known(c)
               PROVE  Cardinality({g \in {<<name, get_member(c, name)>> :
                                            name \in UNION {DOMAIN MetaCache(d) : d \in 1 .. c}} : g[2] = m}) = 1
  BY DEF EveryMemberNamed
<1> DEFINE all == UNION {DOMAIN MetaCache(d) : d \in 1 .. c}
           got == {<<name, get_member(c, name)>> : name \in all}
<1>2. PICK e \in 1 .. c : m \in ToSet(Members(e))
  BY <1>1 DEF Known
<1>3. e \in DOMAIN classes /\ m.class = e
  <2>1. e \in DOMAIN classes
    BY <1>1, <1>2, ClassesAre
  <2>2. QED
    BY <1>1, <1>2, <2>1, DeclaredIs
<1>4. PICK k \in DOMAIN Chain : Chain[k] = m
  <2>1. m \in ToSet(Chain)
    BY <1>1, <1>2, <1>3, ChainIs, ClassesAre DEF ChainTo
  <2>2. QED
    BY <2>1 DEF ToSet
<1>5. get_member(c, Names[k]) = m /\ Names[k] \in all
  <2>1. Chain[k].class <= c
    BY <1>1, <1>2, <1>3, <1>4, ClassesAre
  <2>2. Names[k] \in DOMAIN MetaCache(e)
    <3>1. k \in Has(e)
      BY <1>3, <1>4 DEF Has
    <3>2. DOMAIN MetaCache(e) = {Names[j] : j \in Has(e)}
      BY <1>1, CacheIs
    <3>3. QED
      BY <3>1, <3>2
  <2>3. QED
    BY <1>1, <1>2, <1>4, <2>1, <2>2, FoundIs
<1>6. ASSUME NEW name \in all, get_member(c, name) = m PROVE name = Names[k]
  <2>1. PICK d \in 1 .. c : name \in DOMAIN MetaCache(d)
    OBVIOUS
  <2>2. PICK j \in Has(d) : name = Names[j]
    <3>1. DOMAIN MetaCache(d) = {Names[j] : j \in Has(d)}
      BY <1>1, CacheIs
    <3>2. QED
      BY <2>1, <3>1
  <2>3. j \in DOMAIN Chain /\ Chain[j].class <= c
    BY <1>1, <2>1, <2>2, ClassesAre DEF Has
  <2>4. Chain[j] = m
    BY <1>1, <1>6, <2>2, <2>3, FoundIs
  <2>5. j = k
    BY <1>1, <1>4, <2>3, <2>4, NamesAre DEF Distinct
  <2>6. QED
    BY <2>2, <2>5
<1> HIDE DEF all
<1>7. {g \in got : g[2] = m} = {<<Names[k], m>>}
  <2>1. <<Names[k], m>> \in got
    BY <1>5
  <2>2. ASSUME NEW g \in got, g[2] = m PROVE g = <<Names[k], m>>
    BY <1>6, <2>2
  <2>3. QED
    BY <2>1, <2>2
<1>8. Cardinality({<<Names[k], m>>}) = 1
  BY FS_Singleton
<1>9. QED
  BY <1>7, <1>8 DEF all

(* For any classes, derived from each other, with any members, overloaded  *)
(* and redeclared ones too: Lua has one name for each member.              *)
THEOREM EachMemberNamed == Spec => []EveryMemberNamed
<1>1. IInv => EveryMemberNamed
  BY NamedOnce DEF IInv, Made
<1>2. QED
  BY <1>1, Invariance, PTL
=============================================================================
