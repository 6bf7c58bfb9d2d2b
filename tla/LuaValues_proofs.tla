-------------------------- MODULE LuaValues_proofs --------------------------
(***************************************************************************)
(* For any number of interpreters, values and references: a registry slot  *)
(* has one owner, every operation leaves the Lua stack as it found it, the *)
(* objects behave as values and references, and values are ordered.        *)
(***************************************************************************)
EXTENDS LuaValues, FiniteSetTheorems, SequenceTheorems, WellFoundedInduction, TLAPS

(* What the Lua stack holds: values, and the numbers of slots.             *)
Item == LuaVal \cup Slot

Typed ==
  /\ TypeOK
  /\ uses \in Programs

(* An object that exists has its numbers.                                  *)
Numbered ==
  \A o \in Obj :
    /\ o \in Val => obj[o].key = 0
    /\ Exists(o) => obj[o].id \in Slot
    /\ Exists(o) /\ o \in Ref => obj[o].key \in Slot

Distinct ==
  \A o, p \in Obj :
    o # p /\ obj[o].st # None /\ obj[p].st # None => Slots(o) \cap Slots(p) = {}

Owned ==
  \A s \in Interp, i \in Slot :
    reg[s][i] # Nil => \E o \in Obj : obj[o].st = s /\ i \in Slots(o)

(* The inductive invariants: of any program, and of one that keeps clear   *)
(* of the code's defects.                                                  *)
IInv == Typed /\ Numbered

OwnInv == Distinct /\ Owned

-----------------------------------------------------------------------------
(* The Lua stack.                                                          *)

LEMMA PopFacts ==
  ASSUME NEW S, NEW st \in Seq(S), NEW k \in Nat
  PROVE  Pop(st, k) \in Seq(S)
<1> DEFINE n == Len(st) - k
<1>1. n \in Int /\ \A i \in 1 .. n : st[i] \in S
  OBVIOUS
<1> HIDE DEF n
<1>2. SubSeq(st, 1, n) \in Seq(S)
  BY <1>1, SubSeqProperties
<1>3. QED
  BY <1>2 DEF Pop, n

LEMMA PrefixFacts ==
  ASSUME NEW S, NEW st \in Seq(S), NEW u \in Seq(S), NEW k \in Nat,
         Len(u) = Len(st) + k, \A i \in 1 .. Len(st) : u[i] = st[i]
  PROVE  Pop(u, k) = st
<1> DEFINE n == Len(u) - k
<1>1. n \in Nat /\ n = Len(st) /\ \A i \in 1 .. n : u[i] \in S
  OBVIOUS
<1> HIDE DEF n
<1>2. n - 1 + 1 = n /\ \A i \in 1 .. n : 1 + i - 1 = i
  BY <1>1
<1>3. /\ SubSeq(u, 1, n) \in Seq(S)
      /\ Len(SubSeq(u, 1, n)) = IF 1 <= n THEN n - 1 + 1 ELSE 0
      /\ \A i \in 1 .. n - 1 + 1 : SubSeq(u, 1, n)[i] = u[1 + i - 1]
  BY <1>1, SubSeqProperties
<1> DEFINE w == SubSeq(u, 1, n)
<1> HIDE DEF w
<1>4. w \in Seq(S) /\ Len(w) = Len(st) /\ \A i \in 1 .. Len(w) : w[i] = st[i]
  BY <1>1, <1>2, <1>3 DEF w
<1>5. w = st
  BY <1>4, SeqEqual
<1>6. QED
  BY <1>5 DEF Pop, w, n

LEMMA StackFacts ==
  ASSUME NEW S, NEW st \in Seq(S), NEW a \in S
  PROVE  /\ Push(st, a) \in Seq(S)
         /\ Pop(Push(st, a), 1) = st
         /\ Ix(Push(st, a), -1) = a
<1>1. /\ Append(st, a) \in Seq(S) /\ Len(Append(st, a)) = Len(st) + 1 /\ Len(st) \in Nat
      /\ \A i \in 1 .. Len(st) : Append(st, a)[i] = st[i]
      /\ Append(st, a)[Len(st) + 1] = a
  BY AppendProperties
<1>2. Pop(Append(st, a), 1) = st
  BY <1>1, PrefixFacts
<1>3. Len(Append(st, a)) + 1 + (-1) = Len(st) + 1
  BY <1>1
<1>4. Ix(Append(st, a), -1) = a
  BY <1>1, <1>3 DEF Ix
<1>5. QED
  BY <1>1, <1>2, <1>4 DEF Push

LEMMA StackFacts2 ==
  ASSUME NEW S, NEW st \in Seq(S), NEW a \in S, NEW b \in S
  PROVE  /\ Push(Push(st, a), b) \in Seq(S)
         /\ Pop(Push(Push(st, a), b), 1) = Push(st, a)
         /\ Pop(Push(Push(st, a), b), 2) = st
         /\ Ix(Push(Push(st, a), b), -1) = b
         /\ Ix(Push(Push(st, a), b), -2) = a
<1> DEFINE u == Append(st, a)
           w == Append(u, b)
<1>1. /\ u \in Seq(S) /\ Len(u) = Len(st) + 1 /\ Len(st) \in Nat
      /\ \A i \in 1 .. Len(st) : u[i] = st[i]
      /\ u[Len(st) + 1] = a
  BY AppendProperties
<1>2. /\ w \in Seq(S) /\ Len(w) = Len(u) + 1
      /\ \A i \in 1 .. Len(u) : w[i] = u[i]
  BY <1>1, AppendProperties
<1>3. Pop(w, 1) = u /\ Ix(w, -1) = b
  BY <1>1, StackFacts DEF Push
<1> HIDE DEF u, w
<1>4. Len(w) = Len(st) + 2 /\ (\A i \in 1 .. Len(st) : w[i] = st[i]) /\ w[Len(st) + 1] = a
  BY <1>1, <1>2
<1>5. Pop(w, 2) = st
  BY <1>2, <1>4, PrefixFacts
<1>6. Len(w) + 1 + (-2) = Len(st) + 1
  BY <1>1, <1>4
<1>7. Ix(w, -2) = a
  BY <1>4, <1>6 DEF Ix
<1>8. QED
  BY <1>2, <1>3, <1>5, <1>7 DEF Push, u, w

LEMMA StackFacts3 ==
  ASSUME NEW S, NEW st \in Seq(S), NEW a \in S, NEW b \in S, NEW c \in S
  PROVE  /\ Push(Push(Push(st, a), b), c) \in Seq(S)
         /\ Pop(Push(Push(Push(st, a), b), c), 1) = Push(Push(st, a), b)
         /\ Pop(Push(Push(Push(st, a), b), c), 2) = Push(st, a)
         /\ Pop(Push(Push(Push(st, a), b), c), 3) = st
         /\ Ix(Push(Push(Push(st, a), b), c), -1) = c
         /\ Ix(Push(Push(Push(st, a), b), c), -2) = b
<1> DEFINE u == Push(st, a)
<1>1. u \in Seq(S)
  BY StackFacts
<1>2. /\ Push(Push(u, b), c) \in Seq(S) /\ Pop(Push(Push(u, b), c), 1) = Push(u, b)
      /\ Pop(Push(Push(u, b), c), 2) = u
      /\ Ix(Push(Push(u, b), c), -1) = c /\ Ix(Push(Push(u, b), c), -2) = b
  BY <1>1, StackFacts2
<1> DEFINE w == Push(Push(u, b), c)
<1>3. /\ u \in Seq(S) /\ Len(u) = Len(st) + 1 /\ Len(st) \in Nat
      /\ \A i \in 1 .. Len(st) : u[i] = st[i]
  BY AppendProperties DEF Push
<1>4. /\ Push(u, b) \in Seq(S) /\ Len(Push(u, b)) = Len(u) + 1
      /\ \A i \in 1 .. Len(u) : Push(u, b)[i] = u[i]
  BY <1>1, AppendProperties DEF Push
<1>5. /\ Len(w) = Len(Push(u, b)) + 1
      /\ \A i \in 1 .. Len(Push(u, b)) : w[i] = Push(u, b)[i]
  BY <1>4, AppendProperties DEF Push
<1> HIDE DEF u, w
<1>6. Len(w) = Len(st) + 3 /\ \A i \in 1 .. Len(st) : w[i] = st[i]
  BY <1>3, <1>4, <1>5
<1>7. Pop(w, 3) = st
  BY <1>2, <1>6, PrefixFacts DEF w
<1>8. QED
  BY <1>2, <1>7 DEF u, w

-----------------------------------------------------------------------------
(* Numbers handed out, and what an object stands for.                      *)

LEMMA LeastFacts ==
  ASSUME NEW T, T \subseteq Nat, T # {}
  PROVE  (CHOOSE i \in T : \A j \in T : i <= j) \in T
<1>1. PICK i \in T : \A j \in T : ~ (<<j, i>> \in OpToRel(<, Nat))
  BY NatLessThanWellFounded, WFMin
<1>2. \A j \in T : i <= j
  <2> TAKE j \in T
  <2>1. i \in Nat /\ j \in Nat
    OBVIOUS
  <2>2. ~ (j < i)
    BY <1>1, <2>1 DEF OpToRel
  <2>3. QED
    BY <2>1, <2>2
<1>3. QED
  BY <1>2

LEMMA FreshFacts ==
  ASSUME Left >= 1
  PROVE  Fresh \in Slot /\ Fresh \notin Taken
<1>1. Unused \subseteq Slot /\ Unused \subseteq Nat
  BY LuaValuesAssumption DEF Unused
<1>2. Unused # {}
  BY FS_EmptySet DEF Left
<1>3. Fresh \in Unused
  BY <1>1, <1>2, LeastFacts DEF Fresh
<1>4. QED
  BY <1>3 DEF Unused

LEMMA Fresh2Facts ==
  ASSUME Left >= 2
  PROVE  Fresh2 \in Slot /\ Fresh2 \notin Taken /\ Fresh2 # Fresh
<1>1. Unused \subseteq Slot /\ Unused \subseteq Nat
  BY LuaValuesAssumption DEF Unused
<1>2. Unused \ {Fresh} # {}
  <2> SUFFICES ASSUME Unused \subseteq {Fresh} PROVE FALSE
    OBVIOUS
  <2>1. Unused = {} \/ Unused = {Fresh}
    OBVIOUS
  <2>2. Left = 0 \/ Left = 1
    BY <2>1, FS_EmptySet, FS_Singleton DEF Left
  <2>3. QED
    BY <2>2
<1>3. Fresh2 \in Unused \ {Fresh}
  <2> DEFINE T == Unused \ {Fresh}
  <2>1. T \subseteq Nat /\ T # {}
    BY <1>1, <1>2
  <2> HIDE DEF T
  <2>2. (CHOOSE i \in T : \A j \in T : i <= j) \in T
    BY <2>1, LeastFacts
  <2>3. QED
    BY <2>2 DEF Fresh2, T
<1>4. QED
  BY <1>3 DEF Unused

LEMMA SlotsFacts ==
  ASSUME NEW o \in Obj, NEW i \in Slot
  PROVE  /\ i \in Slots(o) <=> i = obj[o].id \/ i = obj[o].key
         /\ i \notin Taken => i \notin Slots(o)
BY LuaValuesAssumption DEF Slots, Taken

LEMMA ObjFacts ==
  ASSUME IInv, NEW o \in Obj
  PROVE  /\ obj[o] \in [st : alive \cup {None}, id : Slot \cup {0}, key : Slot \cup {0}]
         /\ obj[o].st # None => /\ Exists(o) /\ obj[o].st \in alive /\ obj[o].st \in Interp
                                /\ obj[o].id \in Slot
                                /\ o \in Val => obj[o].key = 0
                                /\ o \in Ref => obj[o].key \in Slot
<1>1. obj[o] \in [st : alive \cup {None}, id : Slot \cup {0}, key : Slot \cup {0}] /\ alive \subseteq Interp
  BY DEF IInv, Typed, TypeOK
<1>2. obj[o].st # None => Exists(o)
  BY <1>1 DEF Exists, Blank
<1>3. QED
  BY <1>1, <1>2 DEF IInv, Numbered

LEMMA RegFacts ==
  ASSUME IInv, NEW s \in Interp
  PROVE  /\ \A i \in Slot : reg[s][i] \in LuaVal
         /\ stack[s] \in Seq(LuaVal)
         /\ stack[s] \in Seq(Item)
         /\ Nil \in LuaVal /\ LuaVal \subseteq Item /\ Slot \subseteq Item
<1>1. /\ \A i \in Slot : reg[s][i] \in LuaVal
      /\ stack[s] \in Seq(LuaVal)
  BY DEF IInv, Typed, TypeOK
<1>2. Nil \in LuaVal /\ LuaVal \subseteq Item /\ Slot \subseteq Item
  BY DEF Item, LuaVal
<1>3. QED
  BY <1>1, <1>2, SeqMonotonic

LEMMA EntryFacts ==
  ASSUME IInv, NEW c \in Container, NEW k
  PROVE  Entry(c, k) \in LuaVal
<1>1. Body[c] \in Bodies /\ Nil \in LuaVal
  BY DEF Bodies, LuaVal
<1>2. QED
  BY <1>1 DEF IInv, Typed, TypeOK, Entry

(* What an object stands for, without the Lua stack.                       *)
Meaning(o) ==
  LET s == obj[o].st
      c == reg[s][obj[o].id] IN
  IF s = None THEN Nil
  ELSE IF o \in Val THEN c
  ELSE IF c \in Container \ Guarded THEN Entry(c, reg[s][obj[o].key])
  ELSE Nil

Fails(o) == obj[o].st # None /\ o \notin Val /\ reg[obj[o].st][obj[o].id] \notin Container \ Guarded

LEMMA MeaningFacts ==
  ASSUME IInv, NEW o \in Obj
  PROVE  Meaning(o) \in LuaVal
<1> DEFINE s == obj[o].st
           c == reg[s][obj[o].id]
           k == reg[s][obj[o].key]
<1>1. Nil \in LuaVal
  BY DEF LuaVal
<1>2. s # None => c \in LuaVal
  BY ObjFacts, RegFacts
<1>3. c \in Container => Entry(c, k) \in LuaVal
  BY EntryFacts
<1>4. Meaning(o) = IF s = None THEN Nil
                   ELSE IF o \in Val THEN c
                   ELSE IF c \in Container \ Guarded THEN Entry(c, k)
                   ELSE Nil
  BY DEF Meaning
<1> HIDE DEF s, c, k
<1>5. QED
  BY <1>1, <1>2, <1>3, <1>4

LEMMA PushValueFacts ==
  ASSUME IInv, NEW o \in Obj, NEW s \in Interp, obj[o].st \in {s, None}, NEW st \in Seq(Item)
  PROVE  LET p == PushValue(s, st, o) IN
         /\ p.err \in BOOLEAN /\ (p.err <=> Fails(o))
         /\ p.st = IF Fails(o) THEN st ELSE Push(st, Meaning(o))
         /\ Meaning(o) \in Item
<1> DEFINE c == reg[s][obj[o].id]
           k == reg[s][obj[o].key]
<1>1. Meaning(o) \in Item /\ Nil \in Item
  BY MeaningFacts, RegFacts
<1>2. CASE obj[o].st = None
  BY <1>1, <1>2 DEF PushValue, Fails, Meaning
<1>3. CASE obj[o].st # None /\ o \in Val
  BY <1>1, <1>3 DEF PushValue, PushSlot, Fails, Meaning
<1>4. CASE obj[o].st # None /\ o \notin Val
  <2>1. obj[o].st = s /\ c \in Item /\ k \in Item
    BY <1>4, ObjFacts, RegFacts DEF Obj
  <2> DEFINE two == Push(Push(st, c), k)
             p == PGetTable(two, -2)
  <2>2. /\ Pop(two, 2) = st /\ Pop(two, 1) = Push(st, c) /\ Ix(two, -1) = k /\ Ix(two, -2) = c
    <3>1. \A a, b \in Item : /\ Pop(Push(Push(st, a), b), 2) = st
                             /\ Pop(Push(Push(st, a), b), 1) = Push(st, a)
                             /\ Ix(Push(Push(st, a), b), -1) = b
                             /\ Ix(Push(Push(st, a), b), -2) = a
      BY StackFacts2
    <3>2. QED
      BY <2>1, <3>1
  <2>3. p = IF c \notin Container \ Guarded THEN [err |-> TRUE, st |-> two]
            ELSE [err |-> FALSE, st |-> Push(Push(st, c), Entry(c, k))]
    BY <2>2, Zenon DEF PGetTable
  <2>4. PushValue(s, st, o) = IF p.err THEN [err |-> TRUE, st |-> Pop(p.st, 2)]
                              ELSE [err |-> FALSE, st |-> Push(Pop(p.st, 2), Ix(p.st, -1))]
    BY <1>4, Zenon DEF PushValue, PushSlot
  <2>5. /\ Fails(o) <=> c \notin Container \ Guarded
        /\ ~ Fails(o) => Meaning(o) = Entry(c, k)
    BY <1>4, <2>1 DEF Fails, Meaning
  <2> HIDE DEF two, p, c, k
  <2>6. CASE Fails(o)
    <3>1. p.err /\ p.st = two
      BY <2>3, <2>5, <2>6
    <3>2. PushValue(s, st, o) = [err |-> TRUE, st |-> st]
      BY <2>2, <2>4, <3>1
    <3>3. QED
      BY <1>1, <2>6, <3>2
  <2>7. CASE ~ Fails(o)
    <3>1. ~ p.err /\ p.st = Push(Push(st, c), Entry(c, k)) /\ Entry(c, k) \in Item
      BY <1>1, <2>3, <2>5, <2>7
    <3>2. Pop(p.st, 2) = st /\ Ix(p.st, -1) = Entry(c, k)
      BY <2>1, <3>1, StackFacts2
    <3>3. PushValue(s, st, o) = [err |-> FALSE, st |-> Push(st, Meaning(o))]
      BY <2>4, <2>5, <2>7, <3>1, <3>2
    <3>4. QED
      BY <1>1, <2>7, <3>3
  <2>8. QED
    BY <2>6, <2>7
<1>5. QED
  BY <1>2, <1>3, <1>4

LEMMA ReadFacts ==
  ASSUME IInv, NEW o \in Obj
  PROVE  Read(o) = Meaning(o)
<1>1. CASE obj[o].st = None
  BY <1>1 DEF Read, Meaning
<1>2. CASE obj[o].st # None
  <2> DEFINE s == obj[o].st
             p == PushValue(s, << >>, o)
  <2>1. s \in Interp /\ << >> \in Seq(Item)
    BY <1>2, ObjFacts
  <2>2. /\ p.err \in BOOLEAN /\ (p.err <=> Fails(o))
        /\ p.st = IF Fails(o) THEN << >> ELSE Push(<< >>, Meaning(o))
        /\ Meaning(o) \in Item
    BY <2>1, PushValueFacts, Zenon
  <2>3. Last(Push(<< >>, Meaning(o))) = Meaning(o)
    BY DEF Last, Push
  <2>4. Fails(o) => Meaning(o) = Nil
    BY <1>2 DEF Fails, Meaning
  <2>5. Read(o) = IF p.err THEN Nil ELSE Last(p.st)
    BY <1>2, Zenon DEF Read
  <2> HIDE DEF p, s
  <2>6. QED
    BY <2>2, <2>3, <2>4, <2>5
<1>3. QED
  BY <1>1, <1>2

-----------------------------------------------------------------------------
(* Owners of slots.  What the objects stand for, as the semantics has it:  *)

Den ==
  [o \in Obj |->
    IF obj[o].st = None THEN [st |-> None, val |-> Nil, key |-> Nil]
    ELSE [st  |-> obj[o].st,
          val |-> reg[obj[o].st][obj[o].id],
          key |-> IF o \in Ref THEN reg[obj[o].st][obj[o].key] ELSE Nil]]

(* An object whose slots keep what they hold stands for what it stood for. *)
LEMMA DenKept ==
  ASSUME IInv, NEW o \in Obj, obj'[o] = obj[o],
         obj[o].st # None => \A j \in Slots(o) : reg'[obj[o].st][j] = reg[obj[o].st][j]
  PROVE  Den'[o] = Den[o]
<1>1. CASE obj[o].st = None
  BY <1>1 DEF Den
<1>2. CASE obj[o].st # None
  <2>1. obj[o].id \in Slot /\ (o \in Ref => obj[o].key \in Slot)
    BY <1>2, ObjFacts
  <2>2. obj[o].id \in Slots(o) /\ (o \in Ref => obj[o].key \in Slots(o))
    BY <2>1, SlotsFacts
  <2>3. /\ reg'[obj[o].st][obj[o].id] = reg[obj[o].st][obj[o].id]
        /\ o \in Ref => reg'[obj[o].st][obj[o].key] = reg[obj[o].st][obj[o].key]
    BY <1>2, <2>2
  <2>4. QED
    BY <1>2, <2>3 DEF Den
<1>3. QED
  BY <1>1, <1>2

(* x is given the value v in the slot i of s, and its own slot is nil if   *)
(* it was another.                                                         *)
Sets(x, s, i, v) ==
  /\ x \in Val /\ s \in alive /\ i \in Slot /\ v \in LuaVal
  /\ i \notin Taken \/ (Exists(x) /\ i = obj[x].id)
  /\ obj' = [obj EXCEPT ![x] = Has(s, i)]
  /\ reg' \in [Interp -> [Slot -> LuaVal]]
  /\ reg'[s][i] = v
  /\ \A t \in Interp, j \in Slot : <<t, j>> # <<s, i>> =>
       reg'[t][j] = IF t = obj[x].st /\ j = obj[x].id THEN Nil ELSE reg[t][j]
  /\ alive' = alive

LEMMA SetsFacts ==
  ASSUME IInv, NEW x, NEW s, NEW i, NEW v, Sets(x, s, i, v)
  PROVE  /\ obj' \in [Obj -> [st : alive' \cup {None}, id : Slot \cup {0}, key : Slot \cup {0}]]
         /\ Numbered'
         /\ OwnInv /\ (i \notin Taken \/ obj[x].st # None \/ ~ Reused(x)) =>
              OwnInv' /\ Den' = [Den EXCEPT ![x] = [st |-> s, val |-> v, key |-> Nil]]
<1>1. /\ x \in Val /\ x \in Obj /\ x \notin Ref /\ s \in alive /\ s \in Interp /\ i \in Slot /\ v \in LuaVal
      /\ s # None /\ alive' = alive
  BY LuaValuesAssumption DEF Sets, Obj, IInv, Typed, TypeOK
<1>2. /\ obj \in [Obj -> [st : alive \cup {None}, id : Slot \cup {0}, key : Slot \cup {0}]]
      /\ reg \in [Interp -> [Slot -> LuaVal]] /\ None \notin Interp /\ alive \subseteq Interp
      /\ 0 \notin Slot
  BY LuaValuesAssumption DEF IInv, Typed, TypeOK
<1>3. /\ obj' = [obj EXCEPT ![x] = Has(s, i)]
      /\ Has(s, i) = [st |-> s, id |-> i, key |-> 0]
  BY DEF Sets, Has
<1>4. \A o \in Obj : obj'[o] = IF o = x THEN Has(s, i) ELSE obj[o]
  BY <1>1, <1>2, <1>3
<1>5. obj' \in [Obj -> [st : alive' \cup {None}, id : Slot \cup {0}, key : Slot \cup {0}]]
  BY <1>1, <1>2, <1>3
<1>6. Numbered'
  <2> SUFFICES ASSUME NEW o \in Obj
               PROVE  /\ o \in Val => obj'[o].key = 0
                      /\ obj'[o] # Blank => obj'[o].id \in Slot
                      /\ obj'[o] # Blank /\ o \in Ref => obj'[o].key \in Slot
    BY DEF Numbered, Exists, Blank
  <2>1. CASE o = x
    BY <1>1, <1>3, <1>4, <2>1
  <2>2. CASE o # x
    BY <1>4, <2>2 DEF IInv, Numbered, Exists
  <2>3. QED
    BY <2>1, <2>2
<1>7. ASSUME OwnInv, i \notin Taken \/ obj[x].st # None \/ ~ Reused(x)
      PROVE  OwnInv' /\ Den' = [Den EXCEPT ![x] = [st |-> s, val |-> v, key |-> Nil]]
  <2>1. \A p \in Obj : p # x /\ obj[p].st # None => i \notin Slots(p)
    <3> SUFFICES ASSUME NEW p \in Obj, p # x, obj[p].st # None
                 PROVE  i \notin Slots(p)
      OBVIOUS
    <3>1. CASE i \notin Taken
      BY <1>1, <3>1, SlotsFacts
    <3>2. CASE Exists(x) /\ i = obj[x].id /\ obj[x].st # None
      <4>1. i \in Slots(x)
        BY <1>1, <3>2, SlotsFacts
      <4>2. QED
        BY <1>1, <1>7, <3>2, <4>1 DEF OwnInv, Distinct
    <3>3. CASE Exists(x) /\ i = obj[x].id /\ ~ Reused(x)
      BY <1>1, <3>3, SlotsFacts DEF Reused
    <3>4. QED
      BY <1>7, <3>1, <3>2, <3>3 DEF Sets
  <2>2. \A o \in Obj : Slots(o)' = IF o = x THEN {i} ELSE Slots(o)
    BY <1>2, <1>3, <1>4, <1>1 DEF Slots
  <2>3. \A o \in Obj : obj'[o].st = IF o = x THEN s ELSE obj[o].st
    BY <1>3, <1>4
  <2>4. Distinct'
    BY <1>7, <2>1, <2>2, <2>3 DEF Distinct, OwnInv
  <2>5. \A t \in Interp, j \in Slot : <<t, j>> # <<s, i>> =>
          reg'[t][j] = IF t = obj[x].st /\ j \in Slots(x) THEN Nil ELSE reg[t][j]
    <3>1. \A j \in Slot : j \in Slots(x) <=> j = obj[x].id
      BY <1>1, <1>2, SlotsFacts DEF IInv, Numbered
    <3>2. QED
      BY <3>1 DEF Sets
  <2>6. Owned'
    <3> SUFFICES ASSUME NEW t \in Interp, NEW j \in Slot, reg'[t][j] # Nil
                 PROVE  \E o \in Obj : obj'[o].st = t /\ j \in Slots(o)'
      BY DEF Owned, Slots
    <3>1. CASE t = s /\ j = i
      BY <1>1, <2>2, <2>3, <3>1
    <3>2. CASE ~ (t = s /\ j = i)
      <4>1. reg[t][j] # Nil /\ ~ (t = obj[x].st /\ j \in Slots(x))
        BY <2>5, <3>2
      <4>2. PICK o \in Obj : obj[o].st = t /\ j \in Slots(o)
        BY <1>7, <4>1 DEF OwnInv, Owned
      <4>3. QED
        BY <2>2, <2>3, <4>1, <4>2
    <3>3. QED
      BY <3>1, <3>2
  <2>7. ASSUME NEW o \in Obj, o # x PROVE Den'[o] = Den[o]
    <3>1. ASSUME obj[o].st # None, NEW j \in Slots(o)
          PROVE  reg'[obj[o].st][j] = reg[obj[o].st][j]
      <4>1. obj[o].st \in Interp /\ j \in Slot
        BY <3>1, ObjFacts DEF Slots
      <4>2. j # i
        BY <2>1, <2>7, <3>1
      <4>3. ~ (obj[o].st = obj[x].st /\ j \in Slots(x))
        BY <1>1, <1>7, <2>7, <3>1 DEF OwnInv, Distinct
      <4>4. QED
        BY <2>5, <4>1, <4>2, <4>3
    <3>2. QED
      BY <1>4, <2>7, <3>1, DenKept
  <2>8. Den'[x] = [st |-> s, val |-> v, key |-> Nil]
    BY <1>1, <1>3, <1>4 DEF Den, Sets
  <2>9. Den' = [Den EXCEPT ![x] = [st |-> s, val |-> v, key |-> Nil]]
    <3>1. Den' = [o \in Obj |-> Den'[o]] /\ Den = [o \in Obj |-> Den[o]]
      BY DEF Den
    <3>2. QED
      BY <1>1, <2>7, <2>8, <3>1
  <2>10. QED
    BY <2>4, <2>6, <2>9 DEF OwnInv
<1>8. QED
  BY <1>5, <1>6, <1>7

LEMMA CleanedFacts ==
  ASSUME IInv, NEW o \in Obj
  PROVE  /\ Cleaned(o) \in [Interp -> [Slot -> LuaVal]]
         /\ \A t \in Interp, j \in Slot :
              Cleaned(o)[t][j] = IF t = obj[o].st /\ j \in Slots(o) THEN Nil ELSE reg[t][j]
<1>1. reg \in [Interp -> [Slot -> LuaVal]] /\ None \notin Interp /\ Nil \in LuaVal
  BY LuaValuesAssumption DEF IInv, Typed, TypeOK, LuaVal
<1>2. CASE obj[o].st = None
  BY <1>1, <1>2 DEF Cleaned
<1>3. CASE obj[o].st # None
  <2> DEFINE s == obj[o].st
             r == [i \in Slot |-> IF i \in {obj[o].id, obj[o].key} THEN Nil ELSE reg[s][i]]
  <2>1. s \in Interp
    BY <1>3, ObjFacts
  <2>2. Cleaned(o) = [reg EXCEPT ![s] = r]
    BY <1>1, <1>3, <2>1 DEF Cleaned
  <2>3. r \in [Slot -> LuaVal]
    BY <1>1, <2>1
  <2>4. \A j \in Slot : r[j] = IF j \in Slots(o) THEN Nil ELSE reg[s][j]
    BY SlotsFacts
  <2> HIDE DEF r, s
  <2>5. QED
    BY <1>1, <2>1, <2>2, <2>3, <2>4 DEF s
<1>4. QED
  BY <1>2, <1>3

(* The slots of x are nil, and it has no State.                            *)
Frees(x, new) ==
  /\ x \in Obj /\ new.st = None
  /\ new \in [st : {None}, id : Slot \cup {0}, key : Slot \cup {0}]
  /\ new # Blank => new.id \in Slot /\ (x \in Ref => new.key \in Slot)
  /\ x \in Val => new.key = 0
  /\ obj' = [obj EXCEPT ![x] = new]
  /\ \A t \in Interp, j \in Slot :
       reg'[t][j] = IF t = obj[x].st /\ j \in Slots(x) THEN Nil ELSE reg[t][j]
  /\ alive' = alive

LEMMA FreesFacts ==
  ASSUME IInv, NEW x, NEW new, Frees(x, new)
  PROVE  /\ obj' \in [Obj -> [st : alive' \cup {None}, id : Slot \cup {0}, key : Slot \cup {0}]]
         /\ Numbered'
         /\ OwnInv => OwnInv' /\ Den' = [Den EXCEPT ![x] = [st |-> None, val |-> Nil, key |-> Nil]]
<1>1. x \in Obj /\ new.st = None /\ alive' = alive
  BY DEF Frees
<1>2. /\ obj \in [Obj -> [st : alive \cup {None}, id : Slot \cup {0}, key : Slot \cup {0}]]
      /\ new \in [st : {None}, id : Slot \cup {0}, key : Slot \cup {0}]
  BY DEF IInv, Typed, TypeOK, Frees
<1>3. obj' = [obj EXCEPT ![x] = new]
  BY DEF Frees
<1>4. \A o \in Obj : obj'[o] = IF o = x THEN new ELSE obj[o]
  BY <1>1, <1>2, <1>3
<1>5. obj' \in [Obj -> [st : alive' \cup {None}, id : Slot \cup {0}, key : Slot \cup {0}]]
  BY <1>1, <1>2, <1>3
<1>6. Numbered'
  <2> SUFFICES ASSUME NEW o \in Obj
               PROVE  /\ o \in Val => obj'[o].key = 0
                      /\ obj'[o] # Blank => obj'[o].id \in Slot
                      /\ obj'[o] # Blank /\ o \in Ref => obj'[o].key \in Slot
    BY DEF Numbered, Exists, Blank
  <2>1. CASE o = x
    BY <1>1, <1>4, <2>1 DEF Frees
  <2>2. CASE o # x
    BY <1>4, <2>2 DEF IInv, Numbered, Exists
  <2>3. QED
    BY <2>1, <2>2
<1>7. ASSUME OwnInv
      PROVE  OwnInv' /\ Den' = [Den EXCEPT ![x] = [st |-> None, val |-> Nil, key |-> Nil]]
  <2>1. \A o \in Obj : o # x => Slots(o)' = Slots(o) /\ obj'[o].st = obj[o].st
    BY <1>4 DEF Slots
  <2>2. Distinct'
    BY <1>1, <1>4, <1>7, <2>1 DEF Distinct, OwnInv
  <2>3. Owned'
    <3> SUFFICES ASSUME NEW t \in Interp, NEW j \in Slot, reg'[t][j] # Nil
                 PROVE  \E o \in Obj : obj'[o].st = t /\ j \in Slots(o)'
      BY DEF Owned, Slots
    <3>1. reg[t][j] # Nil /\ ~ (t = obj[x].st /\ j \in Slots(x))
      BY DEF Frees
    <3>2. PICK o \in Obj : obj[o].st = t /\ j \in Slots(o)
      BY <1>7, <3>1 DEF OwnInv, Owned
    <3>3. QED
      BY <2>1, <3>1, <3>2
  <2>4. ASSUME NEW o \in Obj, o # x PROVE Den'[o] = Den[o]
    <3>1. ASSUME obj[o].st # None, NEW j \in Slots(o)
          PROVE  reg'[obj[o].st][j] = reg[obj[o].st][j]
      <4>1. obj[o].st \in Interp /\ j \in Slot
        BY <3>1, ObjFacts DEF Slots
      <4>2. ~ (obj[o].st = obj[x].st /\ j \in Slots(x))
        BY <1>1, <1>7, <2>4, <3>1 DEF OwnInv, Distinct
      <4>3. QED
        BY <4>1, <4>2 DEF Frees
    <3>2. QED
      BY <1>4, <2>4, <3>1, DenKept
  <2>5. Den'[x] = [st |-> None, val |-> Nil, key |-> Nil]
    BY <1>1, <1>4 DEF Den
  <2>6. Den' = [o \in Obj |-> Den'[o]] /\ Den = [o \in Obj |-> Den[o]]
    BY DEF Den
  <2>7. QED
    BY <1>1, <2>2, <2>3, <2>4, <2>5, <2>6 DEF OwnInv
<1>8. QED
  BY <1>5, <1>6, <1>7

LEMMA MoveToFacts ==
  ASSUME IInv, NEW x \in Obj, NEW y \in Obj, x \in Val <=> y \in Val, MoveTo(x, y)
  PROVE  /\ obj' \in [Obj -> [st : alive' \cup {None}, id : Slot \cup {0}, key : Slot \cup {0}]]
         /\ reg' \in [Interp -> [Slot -> LuaVal]]
         /\ Numbered'
         /\ OwnInv => OwnInv' /\ Den' = [Den EXCEPT ![y] = [st |-> None, val |-> Nil, key |-> Nil], ![x] = Den[y]]
<1>1. /\ Exists(y) /\ x # y /\ alive' = alive /\ reg' = Cleaned(x)
      /\ obj' = [obj EXCEPT ![x] = obj[y], ![y] = Gone(y)]
  BY DEF MoveTo
<1>2. /\ obj \in [Obj -> [st : alive \cup {None}, id : Slot \cup {0}, key : Slot \cup {0}]]
      /\ Obj = Val \cup Ref /\ Val \cap Ref = {} /\ None \notin Interp /\ 0 \notin Slot
  BY LuaValuesAssumption DEF IInv, Typed, TypeOK, Obj
<1>3. Gone(y) = [st |-> None, id |-> obj[y].id, key |-> obj[y].key]
  BY <1>2 DEF Gone
<1>4. \A o \in Obj : obj'[o] = IF o = x THEN obj[y] ELSE IF o = y THEN Gone(y) ELSE obj[o]
  BY <1>1, <1>2
<1>5. obj' \in [Obj -> [st : alive' \cup {None}, id : Slot \cup {0}, key : Slot \cup {0}]]
  BY <1>1, <1>2, <1>3
<1>6. /\ reg' \in [Interp -> [Slot -> LuaVal]]
      /\ \A t \in Interp, j \in Slot :
           reg'[t][j] = IF t = obj[x].st /\ j \in Slots(x) THEN Nil ELSE reg[t][j]
  BY <1>1, CleanedFacts
<1>7. Numbered'
  <2> SUFFICES ASSUME NEW o \in Obj
               PROVE  /\ o \in Val => obj'[o].key = 0
                      /\ obj'[o] # Blank => obj'[o].id \in Slot
                      /\ obj'[o] # Blank /\ o \in Ref => obj'[o].key \in Slot
    BY DEF Numbered, Exists, Blank
  <2>1. CASE o = x \/ o = y
    <3>1. /\ o \in Val => obj[y].key = 0
          /\ obj[y].id \in Slot
          /\ o \in Ref => obj[y].key \in Slot
      BY <1>1, <1>2, <2>1 DEF IInv, Numbered
    <3>2. QED
      BY <1>3, <1>4, <2>1, <3>1
  <2>2. CASE ~ (o = x \/ o = y)
    BY <1>4, <2>2 DEF IInv, Numbered, Exists
  <2>3. QED
    BY <2>1, <2>2
<1>8. ASSUME OwnInv
      PROVE  OwnInv' /\ Den' = [Den EXCEPT ![y] = [st |-> None, val |-> Nil, key |-> Nil], ![x] = Den[y]]
  <2>1. /\ \A o \in Obj : Slots(o)' = IF o = x THEN Slots(y) ELSE Slots(o)
        /\ \A o \in Obj : obj'[o].st = IF o = x THEN obj[y].st ELSE IF o = y THEN None ELSE obj[o].st
    BY <1>3, <1>4 DEF Slots
  <2>2. Distinct'
    BY <1>8, <2>1 DEF Distinct, OwnInv
  <2>3. Owned'
    <3> SUFFICES ASSUME NEW t \in Interp, NEW j \in Slot, reg'[t][j] # Nil
                 PROVE  \E o \in Obj : obj'[o].st = t /\ j \in Slots(o)'
      BY DEF Owned, Slots
    <3>1. reg[t][j] # Nil /\ ~ (t = obj[x].st /\ j \in Slots(x))
      BY <1>6
    <3>2. PICK o \in Obj : obj[o].st = t /\ j \in Slots(o)
      BY <1>8, <3>1 DEF OwnInv, Owned
    <3>3. CASE o = y
      BY <2>1, <3>2, <3>3
    <3>4. CASE o # y
      BY <2>1, <3>1, <3>2, <3>4
    <3>5. QED
      BY <3>3, <3>4
  <2>4. ASSUME NEW o \in Obj, o # x, obj[o].st # None, NEW j \in Slots(o)
        PROVE  reg'[obj[o].st][j] = reg[obj[o].st][j]
    <3>1. obj[o].st \in Interp /\ j \in Slot
      BY <2>4, ObjFacts DEF Slots
    <3>2. ~ (obj[o].st = obj[x].st /\ j \in Slots(x))
      BY <1>8, <2>4 DEF OwnInv, Distinct
    <3>3. QED
      BY <1>6, <3>1, <3>2
  <2>5. ASSUME NEW o \in Obj, o # x, o # y PROVE Den'[o] = Den[o]
    BY <1>4, <2>4, <2>5, DenKept
  <2>6. Den'[y] = [st |-> None, val |-> Nil, key |-> Nil]
    <3>1. x # y
      BY <1>1
    <3>2. obj'[y] = Gone(y)
      BY <1>4, <3>1
    <3>3. obj'[y].st = None
      BY <1>3, <3>2
    <3>4. QED
      BY <3>3 DEF Den
  <2>7. Den'[x] = Den[y]
    <3>1. CASE obj[y].st = None
      BY <1>4, <3>1 DEF Den
    <3>2. CASE obj[y].st # None
      <4>1. obj[y].id \in Slots(y) /\ (y \in Ref => obj[y].key \in Slots(y)) /\ (x \in Ref <=> y \in Ref)
        BY <1>2, <3>2, ObjFacts DEF Slots
      <4>2. /\ reg'[obj[y].st][obj[y].id] = reg[obj[y].st][obj[y].id]
            /\ y \in Ref => reg'[obj[y].st][obj[y].key] = reg[obj[y].st][obj[y].key]
        BY <1>1, <2>4, <3>2, <4>1
      <4>3. QED
        BY <1>4, <3>2, <4>1, <4>2 DEF Den
    <3>3. QED
      BY <3>1, <3>2
  <2>8. Den' = [o \in Obj |-> Den'[o]] /\ Den = [o \in Obj |-> Den[o]]
    BY DEF Den
  <2>9. Den' = [Den EXCEPT ![y] = [st |-> None, val |-> Nil, key |-> Nil], ![x] = Den[y]]
    BY <1>1, <2>5, <2>6, <2>7, <2>8
  <2>10. QED
    BY <2>2, <2>3, <2>9 DEF OwnInv
<1>9. QED
  BY <1>5, <1>6, <1>7, <1>8

(* r is made a reference with the slots tid and kid of s, of which those   *)
(* that are not new are taken over from the values in gone.                *)
Refers(r, s, tid, kid, gone) ==
  /\ r \in Ref /\ ~ Exists(r) /\ gone \subseteq Val /\ s \in alive \cup {None}
  /\ tid \in Slot /\ kid \in Slot
  /\ \A i \in {tid, kid} : i \notin Taken \/ \E g \in gone : i = obj[g].id
  /\ \A g \in gone : Exists(g) /\ obj[g].st = s /\ obj[g].id \in {tid, kid}
  /\ obj' = [o \in Obj |-> IF o = r THEN [st |-> s, id |-> tid, key |-> kid]
                           ELSE IF o \in gone THEN Gone(o) ELSE obj[o]]
  /\ s = None => reg' = reg
  /\ \A t \in Interp, j \in Slot : t # s \/ j \notin {tid, kid} => reg'[t][j] = reg[t][j]
  /\ alive' = alive

LEMMA RefersFacts ==
  ASSUME IInv, NEW r, NEW s, NEW tid, NEW kid, NEW gone, Refers(r, s, tid, kid, gone)
  PROVE  /\ obj' \in [Obj -> [st : alive' \cup {None}, id : Slot \cup {0}, key : Slot \cup {0}]]
         /\ Numbered'
         /\ OwnInv =>
              /\ OwnInv'
              /\ Den' = [o \in Obj |->
                          IF o = r THEN IF s = None THEN [st |-> None, val |-> Nil, key |-> Nil]
                                        ELSE [st |-> s, val |-> reg'[s][tid], key |-> reg'[s][kid]]
                          ELSE IF o \in gone THEN [st |-> None, val |-> Nil, key |-> Nil] ELSE Den[o]]
<1>1. /\ r \in Ref /\ r \in Obj /\ r \notin Val /\ r \notin gone /\ gone \subseteq Obj /\ gone \subseteq Val
      /\ s \in alive \cup {None} /\ tid \in Slot /\ kid \in Slot /\ alive' = alive
      /\ 0 \notin Slot /\ gone \cap Ref = {} /\ alive \subseteq Interp /\ None \notin Interp
  BY LuaValuesAssumption DEF Refers, Obj, IInv, Typed, TypeOK
<1>2. obj \in [Obj -> [st : alive \cup {None}, id : Slot \cup {0}, key : Slot \cup {0}]]
  BY DEF IInv, Typed, TypeOK
<1>3. /\ \A o \in Obj : obj'[o] = IF o = r THEN [st |-> s, id |-> tid, key |-> kid]
                                  ELSE IF o \in gone THEN Gone(o) ELSE obj[o]
      /\ obj' \in [Obj -> [st : alive' \cup {None}, id : Slot \cup {0}, key : Slot \cup {0}]]
      /\ \A g \in gone : Gone(g) = [st |-> None, id |-> obj[g].id, key |-> obj[g].key]
  <2>1. obj' = [o \in Obj |-> IF o = r THEN [st |-> s, id |-> tid, key |-> kid]
                              ELSE IF o \in gone THEN Gone(o) ELSE obj[o]]
    BY DEF Refers
  <2>2. \A g \in gone : Gone(g) = [st |-> None, id |-> obj[g].id, key |-> obj[g].key]
    BY <1>1, <1>2 DEF Gone
  <2>3. QED
    BY <1>1, <1>2, <2>1, <2>2
<1>4. Numbered'
  <2> SUFFICES ASSUME NEW o \in Obj
               PROVE  /\ o \in Val => obj'[o].key = 0
                      /\ obj'[o] # Blank => obj'[o].id \in Slot
                      /\ obj'[o] # Blank /\ o \in Ref => obj'[o].key \in Slot
    BY DEF Numbered, Exists, Blank
  <2>1. CASE o = r
    BY <1>1, <1>3, <2>1
  <2>2. CASE o \in gone
    <3>1. Exists(o) /\ obj[o].key = 0 /\ obj[o].id \in Slot
      BY <1>1, <2>2 DEF Refers, IInv, Numbered
    <3>2. QED
      BY <1>1, <1>3, <2>2, <3>1
  <2>3. CASE o # r /\ o \notin gone
    BY <1>3, <2>3 DEF IInv, Numbered, Exists
  <2>4. QED
    BY <2>1, <2>2, <2>3
<1>5. ASSUME OwnInv
      PROVE  /\ OwnInv'
             /\ Den' = [o \in Obj |->
                          IF o = r THEN IF s = None THEN [st |-> None, val |-> Nil, key |-> Nil]
                                        ELSE [st |-> s, val |-> reg'[s][tid], key |-> reg'[s][kid]]
                          ELSE IF o \in gone THEN [st |-> None, val |-> Nil, key |-> Nil] ELSE Den[o]]
  <2>1. /\ \A o \in Obj : Slots(o)' = IF o = r THEN {tid, kid} ELSE Slots(o)
        /\ \A o \in Obj : obj'[o].st = IF o = r THEN s ELSE IF o \in gone THEN None ELSE obj[o].st
    BY <1>1, <1>3 DEF Slots
  <2>2. obj[r].st = None
    BY <1>1 DEF Refers, Exists, Blank
  <2>3. \A g \in gone : Slots(g) = {obj[g].id} /\ obj[g].st = s
    BY <1>1 DEF Refers, Slots, IInv, Numbered
  <2>4. ASSUME s # None, NEW o \in Obj, o # r, o \notin gone, obj[o].st # None, NEW i \in {tid, kid}
        PROVE  i \notin Slots(o)
    <3>1. CASE i \notin Taken
      BY <1>1, <2>4, <3>1, SlotsFacts
    <3>2. ASSUME NEW g \in gone, i = obj[g].id PROVE i \notin Slots(o)
      <4>1. i \in Slots(g) /\ obj[g].st # None /\ g # o /\ g \in Obj
        BY <1>1, <2>3, <2>4, <3>2
      <4>2. QED
        BY <1>5, <2>4, <4>1 DEF OwnInv, Distinct
    <3>3. QED
      BY <3>1, <3>2 DEF Refers
  <2>5. Distinct'
    <3> SUFFICES ASSUME NEW o \in Obj, NEW p \in Obj, o # p, obj'[o].st # None, obj'[p].st # None
                 PROVE  Slots(o)' \cap Slots(p)' = {}
      BY DEF Distinct, Slots
    <3>1. CASE o = r
      BY <2>1, <2>4, <3>1
    <3>2. CASE p = r
      BY <2>1, <2>4, <3>2
    <3>3. CASE o # r /\ p # r
      BY <1>5, <2>1, <3>3 DEF OwnInv, Distinct
    <3>4. QED
      BY <3>1, <3>2, <3>3
  <2>6. Owned'
    <3> SUFFICES ASSUME NEW t \in Interp, NEW j \in Slot, reg'[t][j] # Nil
                 PROVE  \E o \in Obj : obj'[o].st = t /\ j \in Slots(o)'
      BY DEF Owned, Slots
    <3>1. CASE t = s /\ j \in {tid, kid}
      BY <1>1, <2>1, <3>1
    <3>2. CASE ~ (t = s /\ j \in {tid, kid})
      <4>1. reg[t][j] # Nil
        BY <3>2 DEF Refers
      <4>2. PICK o \in Obj : obj[o].st = t /\ j \in Slots(o)
        BY <1>5, <4>1 DEF OwnInv, Owned
      <4>3. o # r
        BY <1>1, <2>2, <4>2
      <4>4. o \notin gone
        BY <2>3, <3>2, <4>2 DEF Refers
      <4>5. QED
        BY <2>1, <4>2, <4>3, <4>4
    <3>3. QED
      BY <3>1, <3>2
  <2>7. ASSUME NEW o \in Obj, o # r, o \notin gone PROVE Den'[o] = Den[o]
    <3>1. ASSUME obj[o].st # None, NEW j \in Slots(o)
          PROVE  reg'[obj[o].st][j] = reg[obj[o].st][j]
      <4>1. obj[o].st \in Interp /\ j \in Slot
        BY <3>1, ObjFacts DEF Slots
      <4>2. obj[o].st # s \/ j \notin {tid, kid}
        BY <2>4, <2>7, <3>1
      <4>3. QED
        BY <4>1, <4>2 DEF Refers
    <3>2. QED
      BY <1>3, <2>7, <3>1, DenKept
  <2>8. ASSUME NEW o \in gone PROVE Den'[o] = [st |-> None, val |-> Nil, key |-> Nil]
    <3>1. o \in Obj /\ obj'[o].st = None
      BY <1>1, <2>1
    <3>2. QED
      BY <3>1 DEF Den
  <2>9. Den'[r] = IF s = None THEN [st |-> None, val |-> Nil, key |-> Nil]
                  ELSE [st |-> s, val |-> reg'[s][tid], key |-> reg'[s][kid]]
    BY <1>1, <1>3 DEF Den
  <2>10. Den' = [o \in Obj |-> Den'[o]] /\ Den = [o \in Obj |-> Den[o]]
    BY DEF Den
  <2>11. Den' = [o \in Obj |->
                  IF o = r THEN IF s = None THEN [st |-> None, val |-> Nil, key |-> Nil]
                                ELSE [st |-> s, val |-> reg'[s][tid], key |-> reg'[s][kid]]
                  ELSE IF o \in gone THEN [st |-> None, val |-> Nil, key |-> Nil] ELSE Den[o]]
    BY <1>1, <2>7, <2>8, <2>9, <2>10
  <2>12. QED
    BY <2>5, <2>6, <2>11 DEF OwnInv
<1>6. QED
  BY <1>3, <1>4, <1>5

LEMMA CloseFacts ==
  ASSUME IInv, NEW s, Close(s)
  PROVE  /\ obj' \in [Obj -> [st : alive' \cup {None}, id : Slot \cup {0}, key : Slot \cup {0}]]
         /\ reg' \in [Interp -> [Slot -> LuaVal]]
         /\ Numbered'
         /\ OwnInv =>
              /\ OwnInv'
              /\ Den' = [o \in Obj |-> IF Den[o].st = s THEN [st |-> None, val |-> Nil, key |-> Nil] ELSE Den[o]]
<1>1. /\ s \in alive /\ s \in Interp /\ s # None /\ alive \subseteq Interp /\ alive' = alive \ {s}
      /\ None \notin Interp
      /\ obj' = [o \in Obj |-> IF obj[o].st = s THEN Gone(o) ELSE obj[o]]
      /\ reg' = [reg EXCEPT ![s] = [i \in Slot |-> Nil]]
  BY LuaValuesAssumption DEF Close, IInv, Typed, TypeOK
<1>2. /\ obj \in [Obj -> [st : alive \cup {None}, id : Slot \cup {0}, key : Slot \cup {0}]]
      /\ reg \in [Interp -> [Slot -> LuaVal]] /\ Nil \in LuaVal
  BY DEF IInv, Typed, TypeOK, LuaVal
<1>3. \A o \in Obj : Gone(o) = [st |-> None, id |-> obj[o].id, key |-> obj[o].key]
  BY <1>2 DEF Gone
<1>4. /\ obj' \in [Obj -> [st : alive' \cup {None}, id : Slot \cup {0}, key : Slot \cup {0}]]
      /\ reg' \in [Interp -> [Slot -> LuaVal]]
      /\ \A t \in Interp, j \in Slot : reg'[t][j] = IF t = s THEN Nil ELSE reg[t][j]
  BY <1>1, <1>2, <1>3
<1>5. Numbered'
  <2> SUFFICES ASSUME NEW o \in Obj
               PROVE  /\ o \in Val => obj'[o].key = 0
                      /\ obj'[o] # Blank => obj'[o].id \in Slot
                      /\ obj'[o] # Blank /\ o \in Ref => obj'[o].key \in Slot
    BY DEF Numbered, Exists, Blank
  <2>1. CASE obj[o].st = s
    BY <1>1, <1>3, <2>1, ObjFacts
  <2>2. CASE obj[o].st # s
    BY <1>1, <2>2 DEF IInv, Numbered, Exists
  <2>3. QED
    BY <2>1, <2>2
<1>6. ASSUME OwnInv
      PROVE  /\ OwnInv'
             /\ Den' = [o \in Obj |-> IF Den[o].st = s THEN [st |-> None, val |-> Nil, key |-> Nil] ELSE Den[o]]
  <2>1. /\ \A o \in Obj : Slots(o)' = Slots(o)
        /\ \A o \in Obj : obj'[o].st = IF obj[o].st = s THEN None ELSE obj[o].st
    BY <1>1, <1>3 DEF Slots
  <2>2. Distinct'
    BY <1>6, <2>1 DEF Distinct, OwnInv
  <2>3. Owned'
    BY <1>4, <1>6, <2>1 DEF Owned, OwnInv
  <2>4. \A o \in Obj : Den[o].st = obj[o].st
    BY DEF Den
  <2>5. ASSUME NEW o \in Obj, obj[o].st # s PROVE Den'[o] = Den[o]
    <3>1. ASSUME obj[o].st # None, NEW j \in Slots(o)
          PROVE  reg'[obj[o].st][j] = reg[obj[o].st][j]
      <4>1. obj[o].st \in Interp /\ j \in Slot
        BY <3>1, ObjFacts DEF Slots
      <4>2. QED
        BY <1>4, <2>5, <4>1
    <3>2. QED
      BY <1>1, <2>5, <3>1, DenKept
  <2>6. ASSUME NEW o \in Obj, obj[o].st = s PROVE Den'[o] = [st |-> None, val |-> Nil, key |-> Nil]
    BY <2>1, <2>6 DEF Den
  <2>7. Den' = [o \in Obj |-> Den'[o]]
    BY DEF Den
  <2>8. QED
    BY <2>2, <2>3, <2>4, <2>5, <2>6, <2>7 DEF OwnInv
<1>7. QED
  BY <1>4, <1>5, <1>6

-----------------------------------------------------------------------------
(* What the operations leave on the Lua stack.                             *)

LEMMA StackSet ==
  ASSUME IInv, NEW s \in Interp, NEW u \in Seq(LuaVal), stack' = [stack EXCEPT ![s] = u]
  PROVE  /\ stack' \in [Interp -> Seq(LuaVal)]
         /\ u = stack[s] => \A t \in Interp : stack'[t] = stack[t]
BY DEF IInv, Typed, TypeOK

LEMMA UdFacts ==
  ASSUME NEW st \in Seq(LuaVal), NEW v \in LuaVal
  PROVE  /\ get_ud(Push(st, v), v) \in Seq(LuaVal) /\ pop_ud(Push(st, v), v) \in Seq(LuaVal)
         /\ v \in AnyUd \ Bare => get_ud(Push(st, v), v) = Push(st, v) /\ pop_ud(Push(st, v), v) = st
<1> DEFINE w == Push(st, v)
           g == get_ud(w, v)
<1>1. w \in Seq(LuaVal) /\ Pop(w, 1) = st
  BY StackFacts
<1>2. Nil \in LuaVal
  BY DEF LuaVal
<1>3. /\ Pop(Push(Push(w, Nil), Nil), 2) = w
      /\ Pop(Push(Push(w, Nil), Nil), 1) = Push(w, Nil)
      /\ Pop(Push(w, Nil), 1) = w
  BY <1>1, <1>2, StackFacts, StackFacts2
<1>4. g = IF v \in Own \cup Foreign THEN w ELSE st
  BY <1>1, <1>3, Zenon DEF get_ud
<1>5. g \in Seq(LuaVal) /\ Pop(g, 1) \in Seq(LuaVal)
  BY <1>1, <1>4, PopFacts
<1>6. v \in AnyUd \ Bare => v \in Own \cup Foreign
  BY DEF AnyUd
<1>7. pop_ud(w, v) = Pop(g, 1)
  BY DEF pop_ud
<1> HIDE DEF g
<1>8. QED
  BY <1>1, <1>4, <1>5, <1>6, <1>7 DEF g

LEMMA QueryFacts ==
  ASSUME NEW st \in Seq(LuaVal), NEW v \in LuaVal
  PROVE  /\ \A u \in {to_boolean(Push(st, v), v), to_string(Push(st, v), v), to_userdata(Push(st, v), v),
                      to_bytecode(Push(st, v), v), len(Push(st, v), v), is_empty(Push(st, v), v),
                      new_iterator(Push(st, v), v), is_dead(Push(st, v), v), equals(Push(st, v), v),
                      type_name_u(Push(st, v), v), to_string_p(Push(st, v), v), support(Push(st, v), v)} :
              u \in Seq(LuaVal) /\ (v \notin Bare => u = st)
         /\ to_number(Push(st, v), v) \in Seq(LuaVal)
         /\ v \notin Text \ Numeric => to_number(Push(st, v), v) = st
<1> DEFINE w == Push(st, v)
<1>1. w \in Seq(LuaVal) /\ Pop(w, 1) = st /\ Nil \in LuaVal
  BY StackFacts DEF LuaVal
<1>2. /\ Pop(Push(w, Nil), 1) = w
      /\ Pop(Push(Push(w, Nil), Nil), 3) = st
  BY <1>1, StackFacts, StackFacts3
<1>3. /\ get_ud(w, v) \in Seq(LuaVal) /\ pop_ud(w, v) \in Seq(LuaVal)
      /\ v \in AnyUd \ Bare => get_ud(w, v) = w /\ pop_ud(w, v) = st
  BY UdFacts
<1>4. Pop(get_ud(w, v), 1) \in Seq(LuaVal) /\ Pop(st, 1) \in Seq(LuaVal)
  BY <1>3, PopFacts
<1> HIDE DEF w
<1>5. \A x \in {to_boolean(w, v), to_string(w, v), to_bytecode(w, v), is_dead(w, v), equals(w, v)} : x = st
  BY <1>1 DEF to_boolean, to_string, to_bytecode, is_dead, equals, convert_error
<1>6. \A x \in {to_userdata(w, v), len(w, v), new_iterator(w, v)} :
        x \in Seq(LuaVal) /\ (v \notin Bare => x = st)
  BY <1>1, <1>3 DEF to_userdata, len, new_iterator, convert_error
<1>7. \A x \in {type_name_u(w, v), to_string_p(w, v), support(w, v)} :
        x \in Seq(LuaVal) /\ (v \notin Bare => x = st)
  <2>1. Looked(w, v) = IF v \in AnyUd THEN Pop(get_ud(w, v), 1) ELSE Pop(w, 1)
    BY DEF Looked
  <2>2. QED
    BY <1>1, <1>3, <1>4, <2>1 DEF type_name_u, to_string_p, support
<1>8. is_empty(w, v) \in Seq(LuaVal) /\ (v \notin Bare => is_empty(w, v) = st)
  BY <1>1, <1>2, <1>3 DEF is_empty
<1>9. to_number(w, v) \in Seq(LuaVal) /\ (v \notin Text \ Numeric => to_number(w, v) = st)
  BY <1>1, <1>4 DEF to_number, convert_error
<1>10. QED
  BY <1>5, <1>6, <1>7, <1>8, <1>9 DEF w

LEMMA PGetFacts ==
  ASSUME NEW st \in Seq(Item), NEW c \in LuaVal, NEW k \in LuaVal, IInv
  PROVE  LET p == PGetTable(Push(Push(st, c), k), -2) IN
         /\ p.err \in BOOLEAN /\ (p.err <=> c \notin Container \ Guarded)
         /\ Pop(p.st, 2) = st
         /\ ~ p.err => Ix(p.st, -1) = Entry(c, k)
<1> DEFINE two == Push(Push(st, c), k)
           p == PGetTable(two, -2)
<1>1. c \in Item /\ k \in Item
  BY DEF Item
<1>2. /\ Pop(two, 2) = st /\ Pop(two, 1) = Push(st, c) /\ Ix(two, -1) = k /\ Ix(two, -2) = c
  BY <1>1, StackFacts2
<1>3. p = IF c \notin Container \ Guarded THEN [err |-> TRUE, st |-> two]
          ELSE [err |-> FALSE, st |-> Push(Push(st, c), Entry(c, k))]
  BY <1>2, Zenon DEF PGetTable
<1>4. c \in Container => Entry(c, k) \in Item
  BY EntryFacts DEF Item
<1>5. c \in Container =>
        /\ Pop(Push(Push(st, c), Entry(c, k)), 2) = st
        /\ Ix(Push(Push(st, c), Entry(c, k)), -1) = Entry(c, k)
  BY <1>1, <1>4, StackFacts2
<1> HIDE DEF two, p
<1>6. /\ p.err \in BOOLEAN /\ (p.err <=> c \notin Container \ Guarded)
      /\ Pop(p.st, 2) = st
      /\ ~ p.err => Ix(p.st, -1) = Entry(c, k)
  <2>1. CASE c \notin Container \ Guarded
    <3>1. p = [err |-> TRUE, st |-> two]
      BY <1>3, <2>1
    <3>2. QED
      BY <1>2, <2>1, <3>1
  <2>2. CASE c \in Container \ Guarded
    <3>1. p = [err |-> FALSE, st |-> Push(Push(st, c), Entry(c, k))]
      BY <1>3, <2>2
    <3>2. QED
      BY <1>5, <2>2, <3>1
  <2>3. QED
    BY <2>1, <2>2
<1>7. QED
  BY <1>6, Zenon DEF p, two

(* The number of a slot and a value, pushed and popped again.              *)
LEMMA WroteFacts ==
  ASSUME IInv, NEW s \in Interp, NEW i \in Slot, NEW v \in LuaVal, Wrote(s, stack[s], i, v)
  PROVE  /\ stack' \in [Interp -> Seq(LuaVal)]
         /\ \A t \in Interp : stack'[t] = stack[t]
         /\ reg' \in [Interp -> [Slot -> LuaVal]]
         /\ reg'[s][i] = v
         /\ \A t \in Interp, j \in Slot : <<t, j>> # <<s, i>> => reg'[t][j] = reg[t][j]
<1>1. i \in Item /\ v \in Item /\ stack[s] \in Seq(Item) /\ stack[s] \in Seq(LuaVal)
  BY RegFacts DEF Item
<1>2. Pop(Push(Push(stack[s], i), v), 2) = stack[s]
  BY <1>1, StackFacts2
<1>3. stack' = [stack EXCEPT ![s] = stack[s]]
  BY <1>2 DEF Wrote
<1>4. reg \in [Interp -> [Slot -> LuaVal]] /\ reg' = [reg EXCEPT ![s][i] = v]
  BY DEF IInv, Typed, TypeOK, Wrote
<1>5. QED
  BY <1>1, <1>3, <1>4, StackSet

-----------------------------------------------------------------------------
(* The steps of the semantics, for what the objects stand for.             *)

Implements == [Sem!Next]_(Sem!vars)

NullDen == [st |-> None, val |-> Nil, key |-> Nil]

LEMMA SemStutter ==
  ASSUME Den' = Den, store' = store
  PROVE  Implements
BY DEF Implements, Sem!vars, Den

LEMMA SemGive ==
  ASSUME NEW x \in Val, NEW s \in Interp, NEW v \in Literal \cup Thread, store' = store,
         Den' = [Den EXCEPT ![x] = [st |-> s, val |-> v, key |-> Nil]]
  PROVE  Implements
<1>1. Sem!Give(x, s, v)
  BY DEF Sem!Give, Den
<1>2. QED
  BY <1>1 DEF Implements, Sem!Next

LEMMA SemForget ==
  ASSUME NEW o \in Obj, store' = store, Den' = [Den EXCEPT ![o] = NullDen]
  PROVE  Implements
<1>1. Sem!Forget(o)
  BY DEF Sem!Forget, Den, NullDen, Sem!Null
<1>2. QED
  BY <1>1 DEF Implements, Sem!Next, Obj

LEMMA DenFacts ==
  ASSUME IInv, NEW o \in Obj
  PROVE  /\ Den[o].st = obj[o].st
         /\ obj[o].st = None => Den[o] = NullDen
         /\ obj[o].st # None => /\ Den[o].val = reg[obj[o].st][obj[o].id]
                                /\ Den[o].key = IF o \in Ref THEN reg[obj[o].st][obj[o].key] ELSE Nil
BY DEF Den, NullDen

LEMMA SemRead ==
  ASSUME IInv, NEW o \in Obj, ~ Fails(o)
  PROVE  Sem!Read(o) = Meaning(o)
<1>1. Sem!Read(o) = IF Den[o].st = None THEN Nil
                    ELSE IF o \in Val THEN Den[o].val
                    ELSE IF Den[o].val \in Container /\ Den[o].key \in Key
                         THEN store[Body[Den[o].val]][Den[o].key]
                         ELSE Nil
  BY DEF Sem!Read, Den
<1>2. o \notin Val => o \in Ref
  BY DEF Obj
<1>3. QED
  BY <1>1, <1>2, DenFacts DEF Meaning, Fails, Entry

LEMMA SemCopy ==
  ASSUME IInv, NEW x \in Val, NEW o \in Obj, ~ Fails(o), store' = store,
         Den' = [Den EXCEPT ![x] = [st |-> obj[o].st, val |-> Meaning(o), key |-> Nil]]
  PROVE  Implements
<1>1. Sem!Read(o) = Meaning(o) /\ Den[o].st = obj[o].st
  BY SemRead, DenFacts
<1>2. Sem!Copy(x, o)
  BY <1>1 DEF Sem!Copy, Den
<1>3. QED
  BY <1>2 DEF Implements, Sem!Next, Obj

LEMMA SemIndex ==
  ASSUME IInv, NEW x \in Val, NEW o \in Val, NEW k \in Val, store' = store, Meaning(o) \in Container,
         Den' = [Den EXCEPT ![x] = [st |-> obj[o].st, val |-> Entry(Meaning(o), Meaning(k)), key |-> Nil]]
  PROVE  Implements
<1>1. /\ Sem!Read(o) = Meaning(o) /\ Sem!Read(k) = Meaning(k) /\ Den[o].st = obj[o].st
  BY SemRead, DenFacts DEF Fails, Obj
<1>2. [st |-> obj[o].st, val |-> Entry(Meaning(o), Meaning(k)), key |-> Nil] =
        [st |-> Den[o].st, key |-> Nil,
         val |-> IF Sem!Read(k) \in Key THEN store[Body[Sem!Read(o)]][Sem!Read(k)] ELSE Nil]
  BY <1>1 DEF Entry
<1>3. Sem!Index(x, o, k)
  BY <1>1, <1>2 DEF Sem!Index, Den
<1>4. QED
  BY <1>3 DEF Implements, Sem!Next

LEMMA SemMove ==
  ASSUME NEW x \in Obj, NEW y \in Obj, x \in Val <=> y \in Val, store' = store,
         Den' = [Den EXCEPT ![y] = NullDen, ![x] = Den[y]]
  PROVE  Implements
<1>1. Sem!Move(x, y)
  BY DEF Sem!Move, Sem!Null, NullDen, Den
<1>2. (x \in Val /\ y \in Val) \/ (x \in Ref /\ y \in Ref)
  BY DEF Obj
<1>3. QED
  BY <1>1, <1>2 DEF Implements, Sem!Next

LEMMA SemRefer ==
  ASSUME IInv, NEW r \in Ref, NEW x \in Val, NEW y \in Val, NEW gone \in SUBSET {x, y}, store' = store,
         Den' = [o \in Obj |-> IF o = r THEN [st |-> Den[x].st, val |-> Meaning(x), key |-> Meaning(y)]
                               ELSE IF o \in gone THEN NullDen ELSE Den[o]]
  PROVE  Implements
<1>1. Sem!Read(x) = Meaning(x) /\ Sem!Read(y) = Meaning(y)
  BY SemRead DEF Fails, Obj
<1>2. Den' = [o \in Obj |-> IF o = r THEN [st |-> Den[x].st, val |-> Sem!Read(x), key |-> Sem!Read(y)]
                            ELSE IF o \in gone THEN NullDen ELSE Den[o]]
  BY <1>1
<1>3. Sem!Refer(r, x, y)
  BY <1>2 DEF Sem!Refer, Sem!Null, NullDen, Den, Obj
<1>4. QED
  BY <1>3 DEF Implements, Sem!Next

LEMMA SemCopyRef ==
  ASSUME NEW r \in Ref, NEW q \in Ref, store' = store, Den' = [Den EXCEPT ![r] = Den[q]]
  PROVE  Implements
<1>1. Sem!CopyRef(r, q)
  BY DEF Sem!CopyRef, Den
<1>2. QED
  BY <1>1 DEF Implements, Sem!Next

LEMMA SemWrite ==
  ASSUME NEW r \in Ref, NEW v \in LuaVal, Den' = Den, Den[r].val \in Container, Den[r].key \in Key,
         store' = [store EXCEPT ![Body[Den[r].val]][Den[r].key] = v]
  PROVE  Implements
<1>1. Sem!Write(r, v)
  BY DEF Sem!Write, Den
<1>2. QED
  BY <1>1 DEF Implements, Sem!Next

LEMMA SemNew ==
  ASSUME NEW x \in Val, NEW s \in Interp, NEW c \in Container,
         \A o \in Obj \ {x} : Den[o].val # c /\ Den[o].key # c,
         Den' = [Den EXCEPT ![x] = [st |-> s, val |-> c, key |-> Nil]],
         store' = [store EXCEPT ![Body[c]] = [k \in Key |-> Nil]]
  PROVE  Implements
<1>1. Sem!New(x, s, c)
  BY DEF Sem!New, Den, Obj
<1>2. QED
  BY <1>1 DEF Implements, Sem!Next

LEMMA SemClose ==
  ASSUME NEW s \in Interp, store' = store,
         Den' = [o \in Obj |-> IF Den[o].st = s THEN NullDen ELSE Den[o]]
  PROVE  Implements
<1>1. Sem!Close(s)
  BY DEF Sem!Close, Sem!Null, NullDen, Den, Obj
<1>2. QED
  BY <1>1 DEF Implements, Sem!Next

-----------------------------------------------------------------------------
(* The operations.  Each of them keeps the invariants, and, in a program   *)
(* that keeps clear of the defects, the Lua stacks and the semantics.      *)

Sound ==
  /\ IInv'
  /\ Careful => \A s \in alive' : stack'[s] = stack[s]
  /\ Careful /\ OwnInv => OwnInv' /\ Implements

StoreType == [Bodies -> [Key -> LuaVal]]
ObjType == [Obj -> [st : alive \cup {None}, id : Slot \cup {0}, key : Slot \cup {0}]]
RegType == [Interp -> [Slot -> LuaVal]]
StackType == [Interp -> Seq(LuaVal)]

LEMMA TypedFacts ==
  ASSUME IInv
  PROVE  /\ alive \subseteq Interp /\ None \notin Interp /\ 0 \notin Slot /\ Slot \subseteq Nat
         /\ obj \in ObjType /\ reg \in RegType /\ store \in StoreType /\ stack \in StackType
         /\ Obj = Val \cup Ref /\ Val \cap Ref = {} /\ uses \in Programs
BY LuaValuesAssumption DEF IInv, Typed, TypeOK, ObjType, RegType, StoreType, StackType, Obj

LEMMA TypedStep ==
  ASSUME alive' \subseteq Interp, obj' \in [Obj -> [st : alive' \cup {None}, id : Slot \cup {0}, key : Slot \cup {0}]],
         reg' \in RegType, store' \in StoreType, stack' \in StackType, uses' = uses, IInv, Numbered'
  PROVE  IInv'
BY DEF IInv, Typed, TypeOK, RegType, StoreType, StackType

LEMMA SameStack ==
  ASSUME IInv, stack' = stack \/ \E s \in Interp : stack' = [stack EXCEPT ![s] = stack[s]]
  PROVE  stack' \in StackType /\ \A s \in Interp : stack'[s] = stack[s]
BY TypedFacts DEF StackType

LEMMA ProgramFacts ==
  ASSUME IInv
  PROVE  Given \subseteq LuaVal /\ Given \subseteq Literal
<1>1. uses \in Programs /\ uses \subseteq LuaVal \cup Obj
  BY LuaValuesAssumption DEF IInv, Typed
<1>2. uses \subseteq UNION Programs
  BY <1>1
<1>3. QED
  BY <1>1, <1>2 DEF Given, Literal

LEMMA SameObjects ==
  ASSUME obj' = obj, reg' = reg
  PROVE  OwnInv => OwnInv' /\ Den' = Den
<1>1. Den' = Den
  BY DEF Den
<1>2. \A o \in Obj : Slots(o)' = Slots(o)
  BY DEF Slots
<1>3. Distinct => Distinct'
  BY <1>2 DEF Distinct
<1>4. Owned => Owned'
  BY <1>2 DEF Owned
<1>5. QED
  BY <1>1, <1>3, <1>4 DEF OwnInv

(* Nothing but a Lua stack is written.                                     *)
LEMMA OnlyStack ==
  ASSUME IInv, NEW s \in Interp, NEW u \in Seq(LuaVal), Careful => u = stack[s],
         stack' = [stack EXCEPT ![s] = u], UNCHANGED <<alive, obj, reg, store, uses>>
  PROVE  Sound
<1>1. stack' \in StackType /\ (Careful => \A t \in Interp : stack'[t] = stack[t])
  BY StackSet DEF StackType
<1>2. IInv'
  <2>1. /\ alive' = alive /\ obj' = obj /\ reg' = reg /\ store' = store /\ uses' = uses
        /\ Numbered'
    BY DEF IInv, Numbered, Exists, Blank
  <2>2. QED
    BY <1>1, <2>1, TypedFacts, TypedStep DEF ObjType
<1>3. OwnInv => OwnInv' /\ Den' = Den /\ store' = store
  BY DEF OwnInv, Distinct, Owned, Slots, Den
<1>4. QED
  BY <1>1, <1>2, <1>3, SemStutter, TypedFacts DEF Sound

LEMMA QueryStep ==
  ASSUME IInv, NEW o \in Obj, Query(o)
  PROVE  Sound
<1> DEFINE s == obj[o].st
           v == Meaning(o)
           p == PushValue(s, stack[s], o)
           w == Push(stack[s], v)
<1>1. s # None /\ s \in Interp /\ stack[s] \in Seq(LuaVal) /\ stack[s] \in Seq(Item) /\ v \in LuaVal
  BY ObjFacts, RegFacts, MeaningFacts DEF Query
<1>2. /\ p.err <=> Fails(o)
      /\ p.st = IF Fails(o) THEN stack[s] ELSE w
  BY <1>1, PushValueFacts, Zenon
<1>3. Ix(w, -1) = v
  BY <1>1, StackFacts
<1>4. UNCHANGED <<alive, obj, reg, store, uses>>
  BY DEF Query
<1>5. CASE Fails(o)
  <2>1. stack' = [stack EXCEPT ![s] = p.st]
    BY <1>2, <1>5, Zenon DEF Query
  <2>2. QED
    BY <1>1, <1>2, <1>4, <1>5, <2>1, OnlyStack
<1>6. CASE ~ Fails(o)
  <2>1. /\ ~ p.err /\ p.st = w /\ Ix(p.st, -1) = v
    BY <1>2, <1>3, <1>6
  <2>2. /\ Careful => v \notin Bare
        /\ \E u \in (IF Careful /\ v \in Text \ Numeric THEN {} ELSE {to_number(w, v)}) \cup
                       {to_boolean(w, v), to_string(w, v), to_userdata(w, v), to_bytecode(w, v), len(w, v),
                        is_empty(w, v), new_iterator(w, v), is_dead(w, v), equals(w, v),
                        type_name_u(w, v), to_string_p(w, v), support(w, v)} :
               stack' = [stack EXCEPT ![s] = u]
    BY <2>1, Zenon DEF Query
  <2>3. PICK u : /\ u \in (IF Careful /\ v \in Text \ Numeric THEN {} ELSE {to_number(w, v)}) \cup
                       {to_boolean(w, v), to_string(w, v), to_userdata(w, v), to_bytecode(w, v), len(w, v),
                        is_empty(w, v), new_iterator(w, v), is_dead(w, v), equals(w, v),
                        type_name_u(w, v), to_string_p(w, v), support(w, v)}
                 /\ stack' = [stack EXCEPT ![s] = u]
    BY <2>2
  <2>4. /\ \A z \in {to_boolean(w, v), to_string(w, v), to_userdata(w, v), to_bytecode(w, v), len(w, v),
                     is_empty(w, v), new_iterator(w, v), is_dead(w, v), equals(w, v),
                     type_name_u(w, v), to_string_p(w, v), support(w, v)} :
              z \in Seq(LuaVal) /\ (v \notin Bare => z = stack[s])
        /\ to_number(w, v) \in Seq(LuaVal)
        /\ v \notin Text \ Numeric => to_number(w, v) = stack[s]
    BY <1>1, QueryFacts, Zenon
  <2> HIDE DEF w, v
  <2>5. u \in Seq(LuaVal) /\ (Careful => u = stack[s])
    <3>1. CASE Careful /\ v \in Text \ Numeric
      BY <2>2, <2>3, <2>4, <3>1
    <3>2. CASE ~ (Careful /\ v \in Text \ Numeric)
      BY <2>2, <2>3, <2>4, <3>2
    <3>3. QED
      BY <3>1, <3>2
  <2>6. QED
    BY <1>1, <1>4, <2>3, <2>5, OnlyStack
<1>7. QED
  BY <1>5, <1>6

LEMMA TwoFacts ==
  ASSUME NEW st \in Seq(LuaVal), NEW a \in LuaVal, NEW b \in LuaVal
  PROVE  LET u == Push(Push(st, a), b) IN u \in Seq(LuaVal) /\ Pop(u, 2) = st /\ Pop(u, 3) \in Seq(LuaVal)
<1>1. Push(Push(st, a), b) \in Seq(LuaVal) /\ Pop(Push(Push(st, a), b), 2) = st
  BY StackFacts2
<1>2. QED
  BY <1>1, PopFacts

LEMMA CompareStep ==
  ASSUME IInv, NEW o \in Obj, NEW x \in Val, Compare(o, x)
  PROVE  Sound
<1> DEFINE s == obj[o].st
           v == Meaning(o)
           w == Meaning(x)
           one == PushValue(s, stack[s], x)
           p == PushValue(s, one.st, o)
<1>1. /\ s # None /\ s \in Interp /\ x \in Obj /\ obj[x].st = s
      /\ stack[s] \in Seq(LuaVal) /\ stack[s] \in Seq(Item) /\ v \in LuaVal /\ w \in LuaVal
  BY ObjFacts, RegFacts, MeaningFacts DEF Compare, Obj
<1>2. one.st = Push(stack[s], w) /\ one.st \in Seq(Item) /\ one.st \in Seq(LuaVal)
  <2>1. /\ one.st = IF Fails(x) THEN stack[s] ELSE Push(stack[s], w)
        /\ w \in Item
    BY <1>1, PushValueFacts, Zenon
  <2>2. ~ Fails(x)
    BY DEF Fails
  <2>3. Push(stack[s], w) \in Seq(Item) /\ Push(stack[s], w) \in Seq(LuaVal)
    BY <1>1, <2>1, StackFacts
  <2>4. QED
    BY <2>1, <2>2, <2>3
<1>3. /\ p.err <=> Fails(o)
      /\ p.st = IF Fails(o) THEN one.st ELSE Push(one.st, v)
  BY <1>1, <1>2, PushValueFacts, Zenon
<1>4. UNCHANGED <<alive, obj, reg, store, uses>>
  BY DEF Compare
<1>5. CASE Fails(o)
  <2>1. stack' = [stack EXCEPT ![s] = Pop(p.st, 1)]
    BY <1>3, <1>5, Zenon DEF Compare
  <2>2. Pop(p.st, 1) = stack[s]
    BY <1>1, <1>2, <1>3, <1>5, StackFacts
  <2>3. QED
    BY <1>1, <1>4, <2>1, <2>2, OnlyStack
<1>6. CASE ~ Fails(o)
  <2> DEFINE u == Push(Push(stack[s], w), v)
  <2>1. ~ p.err /\ p.st = u
    BY <1>2, <1>3, <1>6
  <2>2. \/ stack' = [stack EXCEPT ![s] = Pop(p.st, 2)]
        \/ ~ Careful /\ stack' = [stack EXCEPT ![s] = Pop(p.st, 3)]
    BY <2>1, Zenon DEF Compare
  <2> HIDE DEF s, v, w
  <2>3. u \in Seq(LuaVal) /\ Pop(u, 2) = stack[s] /\ Pop(u, 3) \in Seq(LuaVal)
    BY <1>1, TwoFacts, Zenon
  <2> HIDE DEF u
  <2>4. QED
    BY <1>1, <1>4, <2>1, <2>2, <2>3, OnlyStack
<1>7. QED
  BY <1>5, <1>6

(* A slot is written.                                                      *)
LEMMA WroteStep ==
  ASSUME IInv, NEW x \in Val, NEW s \in Interp, NEW i, NEW v, Sets(x, s, i, v),
         stack' \in StackType, Careful => \A t \in Interp : stack'[t] = stack[t],
         store' \in StoreType, uses' = uses, Careful => i \notin Taken \/ obj[x].st # None \/ ~ Reused(x),
         Careful /\ OwnInv /\ Den' = [Den EXCEPT ![x] = [st |-> s, val |-> v, key |-> Nil]] => Implements
  PROVE  Sound
<1>1. /\ obj' \in [Obj -> [st : alive' \cup {None}, id : Slot \cup {0}, key : Slot \cup {0}]]
      /\ Numbered'
      /\ OwnInv /\ (i \notin Taken \/ obj[x].st # None \/ ~ Reused(x)) =>
           OwnInv' /\ Den' = [Den EXCEPT ![x] = [st |-> s, val |-> v, key |-> Nil]]
  BY SetsFacts
<1>2. reg' \in RegType /\ alive' = alive /\ alive \subseteq Interp
  BY TypedFacts DEF Sets, RegType
<1>3. IInv'
  BY <1>1, <1>2, TypedStep
<1>4. QED
  BY <1>1, <1>2, <1>3 DEF Sound

LEMMA ConstructNullStep ==
  ASSUME IInv, NEW x \in Val, ConstructNull(x)
  PROVE  Sound
<1>1. /\ x \in Obj /\ x \notin Ref /\ ~ Exists(x) /\ Fresh \in Slot
      /\ obj' = [obj EXCEPT ![x] = Has(None, Fresh)]
      /\ UNCHANGED <<alive, reg, store, stack, uses>>
  BY TypedFacts, FreshFacts DEF ConstructNull
<1>2. Has(None, Fresh) = [st |-> None, id |-> Fresh, key |-> 0]
  BY DEF Has
<1>3. obj[x].st = None
  BY <1>1 DEF Exists, Blank
<1>4. Frees(x, Has(None, Fresh))
  BY <1>1, <1>2, <1>3, TypedFacts DEF Frees
<1>5. /\ obj' \in [Obj -> [st : alive' \cup {None}, id : Slot \cup {0}, key : Slot \cup {0}]]
      /\ Numbered'
      /\ OwnInv => OwnInv' /\ Den' = [Den EXCEPT ![x] = NullDen]
  BY <1>4, FreesFacts DEF NullDen
<1>6. IInv'
  BY <1>1, <1>5, TypedFacts, TypedStep
<1>7. QED
  BY <1>1, <1>5, <1>6, SemForget DEF Sound

LEMMA DestroyStep ==
  ASSUME IInv, NEW o \in Obj, Destroy(o)
  PROVE  Sound
<1>1. /\ reg' = Cleaned(o)
      /\ obj' = [obj EXCEPT ![o] = Blank]
      /\ UNCHANGED <<alive, store, stack, uses>>
  BY DEF Destroy
<1>2. /\ reg' \in RegType
      /\ \A t \in Interp, j \in Slot :
           reg'[t][j] = IF t = obj[o].st /\ j \in Slots(o) THEN Nil ELSE reg[t][j]
  BY <1>1, CleanedFacts DEF RegType
<1>3. Frees(o, Blank)
  BY <1>1, <1>2 DEF Frees, Blank
<1>4. /\ obj' \in [Obj -> [st : alive' \cup {None}, id : Slot \cup {0}, key : Slot \cup {0}]]
      /\ Numbered'
      /\ OwnInv => OwnInv' /\ Den' = [Den EXCEPT ![o] = NullDen]
  BY <1>3, FreesFacts DEF NullDen
<1>5. IInv'
  BY <1>1, <1>2, <1>4, TypedFacts, TypedStep
<1>6. QED
  BY <1>1, <1>4, <1>5, SemForget DEF Sound

LEMMA ConstructStep ==
  ASSUME IInv, NEW x \in Val, NEW s \in Interp, NEW v \in Given, Construct(x, s, v)
  PROVE  Sound
<1>1. /\ ~ Exists(x) /\ s \in alive /\ Fresh \in Slot /\ Fresh \notin Taken
      /\ obj' = [obj EXCEPT ![x] = Has(s, Fresh)]
      /\ Wrote(s, stack[s], Fresh, v)
      /\ UNCHANGED <<alive, store, uses>>
  BY FreshFacts DEF Construct
<1>2. v \in LuaVal /\ v \in Literal \cup Thread
  BY ProgramFacts
<1>3. /\ stack' \in StackType
      /\ \A t \in Interp : stack'[t] = stack[t]
      /\ reg' \in [Interp -> [Slot -> LuaVal]]
      /\ reg'[s][Fresh] = v
      /\ \A t \in Interp, j \in Slot : <<t, j>> # <<s, Fresh>> => reg'[t][j] = reg[t][j]
  BY <1>1, <1>2, WroteFacts DEF StackType
<1>4. obj[x].st = None /\ None \notin Interp
  BY <1>1, TypedFacts DEF Exists, Blank
<1>5. Sets(x, s, Fresh, v)
  BY <1>1, <1>2, <1>3, <1>4 DEF Sets
<1>6. Den' = [Den EXCEPT ![x] = [st |-> s, val |-> v, key |-> Nil]] => Implements
  BY <1>1, <1>2, SemGive
<1>7. QED
  BY <1>1, <1>3, <1>5, <1>6, TypedFacts, WroteStep

LEMMA NewTableStep ==
  ASSUME IInv, NEW x \in Val, NEW s \in Interp, NEW t \in Table, NewTable(x, s, t)
  PROVE  Sound
<1>1. /\ ~ Exists(x) /\ s \in alive /\ Fresh \in Slot /\ Fresh \notin Taken
      /\ t \notin Referenced
      /\ obj' = [obj EXCEPT ![x] = Has(s, Fresh)]
      /\ Wrote(s, stack[s], Fresh, t)
      /\ store' = [store EXCEPT ![Body[t]] = [k \in Key |-> Nil]]
      /\ UNCHANGED <<alive, uses>>
  BY FreshFacts DEF NewTable
<1>2. t \in LuaVal /\ t \in Container /\ t # Nil /\ Nil \in LuaVal
  BY TypesAssumption DEF LuaVal, Container
<1>3. /\ stack' \in StackType
      /\ \A w \in Interp : stack'[w] = stack[w]
      /\ reg' \in [Interp -> [Slot -> LuaVal]]
      /\ reg'[s][Fresh] = t
      /\ \A w \in Interp, j \in Slot : <<w, j>> # <<s, Fresh>> => reg'[w][j] = reg[w][j]
  BY <1>1, <1>2, WroteFacts DEF StackType
<1>4. obj[x].st = None /\ None \notin Interp
  BY <1>1, TypedFacts DEF Exists, Blank
<1>5. Sets(x, s, Fresh, t)
  BY <1>1, <1>2, <1>3, <1>4 DEF Sets
<1>6. store' \in StoreType
  BY <1>1, <1>2, TypedFacts DEF StoreType
<1>7. \A o \in Obj \ {x} : Den[o].val # t /\ Den[o].key # t
  <2> SUFFICES ASSUME NEW o \in Obj PROVE Den[o].val # t /\ Den[o].key # t
    OBVIOUS
  <2>1. CASE obj[o].st = None
    BY <1>2, <2>1, DenFacts DEF NullDen
  <2>2. CASE obj[o].st # None
    <3>1. obj[o].st \in Interp /\ obj[o].id \in Slot /\ (o \in Ref => obj[o].key \in Slot)
      BY <2>2, ObjFacts
    <3>2. \A w \in Interp, j \in Slot : reg[w][j] # t
      <4> SUFFICES ASSUME NEW w \in Interp, NEW j \in Slot PROVE reg[w][j] # t
        OBVIOUS
      <4>1. reg[w] \in [Slot -> LuaVal]
        BY TypedFacts DEF RegType
      <4>2. reg[w][j] \in Range(reg[w])
        BY <4>1 DEF Range
      <4>3. reg[w][j] \in Range(reg[w]) \cup Range(stack[w])
        BY <4>2
      <4>4. reg[w][j] \in UNION {Range(reg[z]) \cup Range(stack[z]) : z \in Interp}
        BY <4>3
      <4>5. reg[w][j] \in Referenced
        BY <4>4 DEF Referenced
      <4>6. QED
        BY <1>1, <4>5
    <3>3. QED
      BY <1>2, <2>2, <3>1, <3>2, DenFacts
  <2>3. QED
    BY <2>1, <2>2
<1>8. Den' = [Den EXCEPT ![x] = [st |-> s, val |-> t, key |-> Nil]] => Implements
  BY <1>1, <1>2, <1>7, SemNew
<1>9. QED
  BY <1>1, <1>3, <1>5, <1>6, <1>8, WroteStep

LEMMA ItemFacts ==
  ASSUME NEW st \in Seq(Item), NEW a \in Item, NEW b \in Item
  PROVE  /\ Push(st, a) \in Seq(Item) /\ Pop(Push(st, a), 1) = st /\ Ix(Push(st, a), -1) = a
         /\ Push(Push(st, a), b) \in Seq(Item) /\ Pop(Push(Push(st, a), b), 2) = st
BY StackFacts, StackFacts2

LEMMA ItemFacts3 ==
  ASSUME NEW st \in Seq(Item), NEW a \in Item, NEW b \in Item, NEW c \in Item
  PROVE  LET u == Push(Push(Push(st, a), b), c)
         IN  Pop(u, 3) = st /\ Pop(u, 2) = Push(st, a) /\ Ix(u, -1) = c
BY StackFacts3

LEMMA NewThreadStep ==
  ASSUME IInv, NEW x \in Val, NEW m \in Val, NEW s \in Interp, NEW th \in Thread, NewThread(x, s, m, th)
  PROVE  Sound
<1> DEFINE waiting == Push(Push(stack[s], Fresh), th)
           main == PushValue(s, waiting, m)
           w == Meaning(m)
<1>1. /\ ~ Exists(x) /\ s \in alive /\ Fresh \in Slot /\ Fresh \notin Taken /\ obj[m].st \in {s, None}
      /\ UNCHANGED <<alive, store, uses>>
  BY FreshFacts DEF NewThread
<1>2. /\ IF Ix(main.st, -1) \in Function
         THEN /\ stack' = [stack EXCEPT ![s] = Pop(Pop(main.st, 1), 2)]
              /\ reg' = [reg EXCEPT ![s][Fresh] = th]
              /\ obj' = [obj EXCEPT ![x] = Has(s, Fresh)]
         ELSE /\ stack' = [stack EXCEPT ![s] = Pop(main.st, 3)]
              /\ UNCHANGED <<reg, obj>>
  BY Zenon DEF NewThread
<1>3. /\ stack[s] \in Seq(Item) /\ stack[s] \in Seq(LuaVal) /\ Fresh \in Item /\ th \in Item /\ th \in LuaVal
      /\ m \in Obj /\ ~ Fails(m)
  BY <1>1, RegFacts DEF LuaVal, Item, Obj, Fails
<1>4. waiting \in Seq(Item) /\ Pop(waiting, 2) = stack[s]
  BY <1>3, ItemFacts, Zenon
<1>5. main.st = Push(waiting, w) /\ w \in Item
  BY <1>1, <1>3, <1>4, PushValueFacts
<1>6. Pop(Pop(main.st, 1), 2) = stack[s]
  BY <1>4, <1>5, StackFacts
<1>7. Pop(main.st, 3) = stack[s]
  BY <1>1, <1>3, <1>5, StackFacts3
<1> HIDE DEF waiting, main
<1>8. CASE Ix(main.st, -1) \in Function
  <2>1. /\ stack' = [stack EXCEPT ![s] = stack[s]]
        /\ reg' = [reg EXCEPT ![s][Fresh] = th]
        /\ obj' = [obj EXCEPT ![x] = Has(s, Fresh)]
    BY <1>2, <1>6, <1>8
  <2>2. stack' \in StackType /\ \A t \in Interp : stack'[t] = stack[t]
    BY <2>1, SameStack
  <2>3. /\ reg' \in [Interp -> [Slot -> LuaVal]]
        /\ reg'[s][Fresh] = th
        /\ \A t \in Interp, j \in Slot : <<t, j>> # <<s, Fresh>> => reg'[t][j] = reg[t][j]
    BY <1>1, <1>3, <2>1, TypedFacts DEF RegType
  <2>4. obj[x].st = None /\ None \notin Interp
    BY <1>1, TypedFacts DEF Exists, Blank
  <2>5. Sets(x, s, Fresh, th)
    BY <1>1, <1>3, <2>1, <2>3, <2>4 DEF Sets
  <2>6. Den' = [Den EXCEPT ![x] = [st |-> s, val |-> th, key |-> Nil]] => Implements
    BY <1>1, SemGive
  <2>7. QED
    BY <1>1, <2>2, <2>5, <2>6, TypedFacts, WroteStep
<1>9. CASE Ix(main.st, -1) \notin Function
  <2>1. /\ stack' = [stack EXCEPT ![s] = stack[s]]
        /\ reg' = reg /\ obj' = obj
    BY <1>2, <1>7, <1>9
  <2>2. QED
    BY <1>1, <1>3, <2>1, OnlyStack
<1>10. QED
  BY <1>8, <1>9

LEMMA AssignLiteralStep ==
  ASSUME IInv, NEW x \in Val, NEW v \in Given, AssignLiteral(x, v)
  PROVE  Sound
<1> DEFINE s == obj[x].st
           i == obj[x].id
<1>1. /\ x \in Obj /\ s # None /\ Wrote(s, stack[s], i, v) /\ UNCHANGED <<alive, obj, store, uses>>
  BY DEF AssignLiteral, Obj
<1>2. Exists(x) /\ s \in alive /\ s \in Interp /\ i \in Slot /\ obj[x].key = 0
  BY <1>1, ObjFacts
<1>3. v \in LuaVal /\ v \in Literal \cup Thread
  BY ProgramFacts
<1>4. /\ stack' \in StackType
      /\ \A t \in Interp : stack'[t] = stack[t]
      /\ reg' \in [Interp -> [Slot -> LuaVal]]
      /\ reg'[s][i] = v
      /\ \A t \in Interp, j \in Slot : <<t, j>> # <<s, i>> => reg'[t][j] = reg[t][j]
  BY <1>1, <1>2, <1>3, WroteFacts DEF StackType
<1>5. obj' = [obj EXCEPT ![x] = Has(s, i)]
  <2>1. obj[x] \in [st : alive \cup {None}, id : Slot \cup {0}, key : Slot \cup {0}]
    BY <1>1, ObjFacts
  <2>2. obj[x] = Has(s, i)
    BY <1>2, <2>1 DEF Has
  <2>3. QED
    BY <1>1, <2>2, TypedFacts DEF ObjType
<1>6. Sets(x, s, i, v)
  BY <1>1, <1>2, <1>3, <1>4, <1>5 DEF Sets
<1>7. Den' = [Den EXCEPT ![x] = [st |-> s, val |-> v, key |-> Nil]] => Implements
  BY <1>1, <1>2, <1>3, SemGive
<1>8. QED
  BY <1>1, <1>2, <1>4, <1>6, <1>7, TypedFacts, WroteStep

LEMMA MoveToStep ==
  ASSUME IInv, NEW x \in Obj, NEW y \in Obj, x \in Val <=> y \in Val, MoveTo(x, y)
  PROVE  Sound
<1>1. UNCHANGED <<alive, store, stack, uses>>
  BY DEF MoveTo
<1>2. /\ obj' \in [Obj -> [st : alive' \cup {None}, id : Slot \cup {0}, key : Slot \cup {0}]]
      /\ reg' \in RegType
      /\ Numbered'
      /\ OwnInv => OwnInv' /\ Den' = [Den EXCEPT ![y] = NullDen, ![x] = Den[y]]
  BY MoveToFacts DEF RegType, NullDen
<1>3. IInv'
  BY <1>1, <1>2, TypedFacts, TypedStep
<1>4. QED
  BY <1>1, <1>2, <1>3, SemMove DEF Sound

LEMMA CloseStep ==
  ASSUME IInv, NEW s \in Interp, Close(s)
  PROVE  Sound
<1>1. /\ alive' = alive \ {s} /\ stack' = [stack EXCEPT ![s] = << >>]
      /\ UNCHANGED <<store, uses>>
  BY DEF Close
<1>2. /\ obj' \in [Obj -> [st : alive' \cup {None}, id : Slot \cup {0}, key : Slot \cup {0}]]
      /\ reg' \in RegType
      /\ Numbered'
      /\ OwnInv =>
           /\ OwnInv'
           /\ Den' = [o \in Obj |-> IF Den[o].st = s THEN NullDen ELSE Den[o]]
  BY CloseFacts DEF RegType, NullDen
<1>3. stack' \in StackType /\ \A t \in Interp \ {s} : stack'[t] = stack[t]
  BY <1>1, TypedFacts DEF StackType
<1>4. IInv'
  BY <1>1, <1>2, <1>3, TypedFacts, TypedStep
<1>5. OwnInv => OwnInv' /\ Implements
  BY <1>1, <1>2, SemClose
<1>6. QED
  BY <1>1, <1>3, <1>4, <1>5, TypedFacts DEF Sound

LEMMA AssignStep ==
  ASSUME IInv, NEW x \in Val, NEW y \in Val, Assign(x, y)
  PROVE  Sound
<1> DEFINE s == obj[y].st
           i == IF Exists(x) THEN obj[x].id ELSE Fresh
           w == Meaning(y)
           top == Push(stack[s], i)
           p == PushValue(s, top, y)
<1>1. /\ x \in Obj /\ y \in Obj /\ x \notin Ref /\ ~ Fails(y)
      /\ Exists(y) /\ (~ Exists(x) => Left >= 1)
      /\ obj' = [obj EXCEPT ![x] = Has(s, i)]
      /\ UNCHANGED <<alive, store, uses>>
  BY TypedFacts DEF Assign, Fails
<1>2. Careful => ~ (Exists(x) /\ obj[x].st = None /\ s # None /\ Reused(x))
  BY DEF Assign
<1>3. IF s = None
      THEN /\ reg' = Cleared(x, s)
           /\ UNCHANGED stack
      ELSE /\ reg' = [Cleared(x, s) EXCEPT ![s][i] = Ix(p.st, -1)]
           /\ stack' = [stack EXCEPT ![s] = Pop(p.st, 2)]
  BY Zenon DEF Assign
<1>4. i \in Slot /\ (~ Exists(x) => i \notin Taken) /\ (Exists(x) => i = obj[x].id)
  BY <1>1, FreshFacts DEF IInv, Numbered
<1>5. /\ obj[x].st \in Interp \cup {None} /\ obj[x].key = 0 /\ (obj[x].st # None => Exists(x))
      /\ None \notin Interp /\ Nil \in LuaVal /\ reg \in RegType
  BY <1>1, ObjFacts, TypedFacts DEF IInv, Numbered, LuaVal
<1>6. /\ Cleared(x, s) \in RegType
      /\ \A t \in Interp, j \in Slot :
           Cleared(x, s)[t][j] = IF t # s /\ t = obj[x].st /\ j = obj[x].id THEN Nil ELSE reg[t][j]
  <2>1. CASE obj[x].st \in Interp \ {s}
    <3>1. obj[x].id \in Slot
      BY <1>4, <1>5, <2>1
    <3>2. Cleared(x, s) = [reg EXCEPT ![obj[x].st][obj[x].id] = Nil]
      BY <2>1 DEF Cleared
    <3> HIDE DEF s
    <3>3. QED
      BY <1>5, <2>1, <3>1, <3>2 DEF RegType
  <2>2. CASE obj[x].st \notin Interp \ {s}
    <3>1. Cleared(x, s) = reg
      BY <2>2 DEF Cleared
    <3>2. QED
      BY <1>5, <2>2, <3>1
  <2>3. QED
    BY <2>1, <2>2
<1> HIDE DEF i
<1>7. CASE s = None
  <2>1. reg' = Cleared(x, s) /\ stack' = stack
    BY <1>3, <1>7
  <2>2. Has(s, i) = [st |-> None, id |-> i, key |-> 0]
    BY <1>7 DEF Has
  <2>3. \A j \in Slot : j \in Slots(x) <=> j = obj[x].id
    BY <1>1, <1>5, TypedFacts, SlotsFacts
  <2>4. \A t \in Interp, j \in Slot :
          reg'[t][j] = IF t = obj[x].st /\ j \in Slots(x) THEN Nil ELSE reg[t][j]
    BY <1>5, <1>6, <1>7, <2>1, <2>3
  <2>5. Frees(x, Has(s, i))
    BY <1>1, <1>4, <2>2, <2>4 DEF Frees
  <2>6. /\ obj' \in [Obj -> [st : alive' \cup {None}, id : Slot \cup {0}, key : Slot \cup {0}]]
        /\ Numbered'
        /\ OwnInv => OwnInv' /\ Den' = [Den EXCEPT ![x] = NullDen]
    BY <2>5, FreesFacts DEF NullDen
  <2>7. IInv'
    BY <1>1, <1>6, <2>1, <2>6, TypedFacts, TypedStep
  <2>8. QED
    BY <1>1, <2>1, <2>6, <2>7, SemForget DEF Sound
<1>8. CASE s # None
  <2>1. /\ s \in Interp /\ s \in alive /\ stack[s] \in Seq(Item) /\ i \in Item /\ w \in LuaVal /\ w \in Item
    BY <1>1, <1>4, <1>8, ObjFacts, RegFacts, MeaningFacts DEF Item
  <2>2. top \in Seq(Item)
    BY <2>1, StackFacts
  <2>3. p.st = Push(top, w)
    BY <1>1, <2>1, <2>2, PushValueFacts
  <2>4. Pop(p.st, 2) = stack[s] /\ Ix(p.st, -1) = w
    BY <2>1, <2>3, StackFacts2
  <2>5. /\ reg' = [Cleared(x, s) EXCEPT ![s][i] = w]
        /\ stack' = [stack EXCEPT ![s] = stack[s]]
    BY <1>3, <1>8, <2>4
  <2>6. stack' \in StackType /\ \A t \in Interp : stack'[t] = stack[t]
    BY <2>1, <2>5, SameStack
  <2> HIDE DEF w, s
  <2>7. /\ reg' \in [Interp -> [Slot -> LuaVal]]
        /\ \A t \in Interp, j \in Slot : reg'[t][j] = IF <<t, j>> = <<s, i>> THEN w ELSE Cleared(x, s)[t][j]
    BY <1>4, <1>6, <2>1, <2>5 DEF RegType
  <2>8. \A t \in Interp, j \in Slot : <<t, j>> # <<s, i>> =>
          reg'[t][j] = IF t = obj[x].st /\ j = obj[x].id THEN Nil ELSE reg[t][j]
    BY <1>4, <1>5, <1>6, <2>7
  <2>9. Sets(x, s, i, w)
    BY <1>1, <1>4, <2>1, <2>7, <2>8 DEF Sets
  <2>10. Den' = [Den EXCEPT ![x] = [st |-> s, val |-> w, key |-> Nil]] => Implements
    BY <1>1, SemCopy DEF s, w
  <2>11. Careful => i \notin Taken \/ obj[x].st # None \/ ~ Reused(x)
    BY <1>2, <1>4, <1>8
  <2>12. QED
    BY <1>1, <2>1, <2>6, <2>9, <2>10, <2>11, TypedFacts, WroteStep
<1>9. QED
  BY <1>7, <1>8

(* The result of an operation, of which x takes over the number.           *)
LEMMA ResultFacts ==
  ASSUME IInv, NEW x \in Val, NEW s \in alive, NEW e \in LuaVal, Left >= 1, alive' = alive,
         reg' = [Cleaned(x) EXCEPT ![s][Fresh] = e], obj' = [obj EXCEPT ![x] = Has(s, Fresh)]
  PROVE  Sets(x, s, Fresh, e) /\ Fresh \notin Taken
<1>1. /\ Fresh \in Slot /\ Fresh \notin Taken /\ s \in Interp /\ x \in Obj
  BY FreshFacts, TypedFacts
<1>2. /\ Cleaned(x) \in [Interp -> [Slot -> LuaVal]]
      /\ \A t \in Interp, j \in Slot :
           Cleaned(x)[t][j] = IF t = obj[x].st /\ j \in Slots(x) THEN Nil ELSE reg[t][j]
  BY <1>1, CleanedFacts
<1>3. \A j \in Slot : j \in Slots(x) <=> j = obj[x].id
  BY <1>1, TypedFacts, SlotsFacts DEF IInv, Numbered
<1>4. /\ reg' \in [Interp -> [Slot -> LuaVal]]
      /\ reg'[s][Fresh] = e
      /\ \A t \in Interp, j \in Slot : <<t, j>> # <<s, Fresh>> => reg'[t][j] = Cleaned(x)[t][j]
  BY <1>1, <1>2
<1>5. QED
  BY <1>1, <1>2, <1>3, <1>4 DEF Sets

LEMMA IndexStep ==
  ASSUME IInv, NEW x \in Val, NEW o \in Val, NEW k \in Val, Index(x, o, k)
  PROVE  Sound
<1> DEFINE s == obj[o].st
           v == Meaning(o)
           w == Meaning(k)
           c == PushValue(s, stack[s], o)
           d == PushValue(s, c.st, k)
           p == PGetTable(d.st, -2)
           result(e) == /\ reg' = [Cleaned(x) EXCEPT ![s][Fresh] = e]
                        /\ obj' = [obj EXCEPT ![x] = Has(s, Fresh)]
<1>1. /\ o \in Obj /\ k \in Obj /\ x \in Obj /\ ~ Fails(o) /\ ~ Fails(k)
      /\ s # None /\ s \in alive /\ s \in Interp /\ obj[k].st = s /\ Left >= 1
      /\ UNCHANGED <<alive, store, uses>>
  BY ObjFacts DEF Index, Fails, Obj
<1>2. /\ v \in LuaVal /\ w \in LuaVal /\ v \in Item /\ w \in Item
      /\ stack[s] \in Seq(Item) /\ stack[s] \in Seq(LuaVal)
  BY <1>1, MeaningFacts, RegFacts
<1>3. c.st = Push(stack[s], v) /\ Ix(c.st, -1) = v /\ Pop(c.st, 1) = stack[s] /\ c.st \in Seq(Item)
  <2>1. c.st = Push(stack[s], v)
    BY <1>1, <1>2, PushValueFacts
  <2>2. /\ Push(stack[s], v) \in Seq(Item) /\ Pop(Push(stack[s], v), 1) = stack[s]
        /\ Ix(Push(stack[s], v), -1) = v
    BY <1>2, ItemFacts, Zenon
  <2>3. QED
    BY <2>1, <2>2
<1>4. d.st = Push(Push(stack[s], v), w)
  BY <1>1, <1>2, <1>3, PushValueFacts
<1>5. /\ p.err \in BOOLEAN /\ (p.err <=> v \notin Container \ Guarded)
      /\ Pop(p.st, 2) = stack[s]
      /\ ~ p.err => Ix(p.st, -1) = Entry(v, w)
  <2> DEFINE z == PGetTable(Push(Push(stack[s], v), w), -2)
  <2>1. /\ z.err \in BOOLEAN /\ (z.err <=> v \notin Container \ Guarded)
        /\ Pop(z.st, 2) = stack[s]
        /\ ~ z.err => Ix(z.st, -1) = Entry(v, w)
    BY <1>2, PGetFacts, Zenon
  <2>2. p = z
    BY <1>4, Zenon
  <2> HIDE DEF p, z
  <2>3. QED
    BY <2>1, <2>2
<1>6. Read(k) = w
  BY <1>1, ReadFacts
<1>7. ASSUME v \in Container, result(Entry(v, w)), stack' \in StackType,
             Careful => \A t \in Interp : stack'[t] = stack[t]
      PROVE  Sound
  <2>1. Entry(v, w) \in LuaVal
    BY <1>7, EntryFacts
  <2>2. Sets(x, s, Fresh, Entry(v, w)) /\ Fresh \notin Taken
    BY <1>1, <1>7, <2>1, ResultFacts
  <2>3. Den' = [Den EXCEPT ![x] = [st |-> s, val |-> Entry(v, w), key |-> Nil]] => Implements
    BY <1>1, <1>7, SemIndex
  <2>4. QED
    BY <1>1, <1>7, <2>2, <2>3, TypedFacts, WroteStep
<1>8. /\ v \in AnyUd \ Bare => pop_ud(Push(stack[s], v), v) = stack[s]
      /\ pop_ud(Push(stack[s], v), v) \in Seq(LuaVal)
  BY <1>2, UdFacts
<1>9. \/ /\ v \in AnyUd
         /\ Careful => v \notin Bare
         /\ stack' = [stack EXCEPT ![s] = pop_ud(Push(stack[s], v), v)]
         /\ IF v \in Userdata \ Guarded THEN result(Entry(v, w)) ELSE UNCHANGED <<reg, obj>>
      \/ /\ v \in Table
         /\ stack' = [stack EXCEPT ![s] = Pop(p.st, 2)]
         /\ IF p.err THEN UNCHANGED <<reg, obj>> ELSE result(Ix(p.st, -1))
      \/ /\ stack' = [stack EXCEPT ![s] = Pop(c.st, 1)]
         /\ UNCHANGED <<reg, obj>>
  <2>1. c.st = Push(stack[s], v) /\ Ix(Push(stack[s], v), -1) = v
    BY <1>3
  <2>2. QED
    BY <1>6, <2>1, Zenon DEF Index
<1> HIDE DEF s, v, w, c, d, p, result
<1>10. CASE /\ v \in AnyUd
            /\ Careful => v \notin Bare
            /\ stack' = [stack EXCEPT ![s] = pop_ud(Push(stack[s], v), v)]
            /\ IF v \in Userdata \ Guarded THEN result(Entry(v, w)) ELSE UNCHANGED <<reg, obj>>
  <2> DEFINE u == pop_ud(Push(stack[s], v), v)
  <2>1. u \in Seq(LuaVal) /\ (Careful => u = stack[s]) /\ stack' = [stack EXCEPT ![s] = u]
    BY <1>8, <1>10
  <2> HIDE DEF u
  <2>2. stack' \in StackType /\ (Careful => \A t \in Interp : stack'[t] = stack[t])
    BY <1>1, <2>1, StackSet DEF StackType
  <2>3. CASE v \in Userdata \ Guarded
    <3>1. v \in Container /\ result(Entry(v, w))
      BY <1>10, <2>3 DEF Container
    <3>2. QED
      BY <1>7, <2>2, <3>1
  <2>4. CASE v \notin Userdata \ Guarded
    <3>1. UNCHANGED <<reg, obj>>
      BY <1>10, <2>4
    <3>2. QED
      BY <1>1, <2>1, <3>1, OnlyStack
  <2>5. QED
    BY <2>3, <2>4
<1>11. CASE /\ v \in Table
            /\ stack' = [stack EXCEPT ![s] = Pop(p.st, 2)]
            /\ IF p.err THEN UNCHANGED <<reg, obj>> ELSE result(Ix(p.st, -1))
  <2>1. stack' = [stack EXCEPT ![s] = stack[s]]
    BY <1>5, <1>11
  <2>2. stack' \in StackType /\ \A t \in Interp : stack'[t] = stack[t]
    BY <1>1, <2>1, SameStack
  <2>3. CASE p.err
    BY <1>1, <1>2, <1>11, <2>1, <2>3, OnlyStack
  <2>4. CASE ~ p.err
    BY <1>5, <1>7, <1>11, <2>2, <2>4
  <2>5. QED
    BY <2>3, <2>4
<1>12. CASE /\ stack' = [stack EXCEPT ![s] = Pop(c.st, 1)]
            /\ UNCHANGED <<reg, obj>>
  BY <1>1, <1>2, <1>3, <1>12, OnlyStack
<1>13. QED
  BY <1>9, <1>10, <1>11, <1>12

LEMMA ReadRefStep ==
  ASSUME IInv, NEW x \in Val, NEW r \in Ref, ReadRef(x, r)
  PROVE  Sound
<1> DEFINE s == obj[r].st
           c == reg[s][obj[r].id]
           k == reg[s][obj[r].key]
           p == PGetTable(PushSlot(s, PushSlot(s, stack[s], obj[r].id), obj[r].key), -2)
<1>1. /\ x \in Obj /\ r \in Obj /\ r \notin Val /\ s # None /\ s \in alive /\ s \in Interp /\ Left >= 1
      /\ obj[r].id \in Slot /\ obj[r].key \in Slot
      /\ UNCHANGED <<alive, store, uses>>
  BY ObjFacts, TypedFacts DEF ReadRef
<1>2. /\ stack' = [stack EXCEPT ![s] = Pop(p.st, 2)]
      /\ IF p.err
         THEN UNCHANGED <<reg, obj>>
         ELSE /\ reg' = [Cleaned(x) EXCEPT ![s][Fresh] = Ix(p.st, -1)]
              /\ obj' = [obj EXCEPT ![x] = Has(s, Fresh)]
  BY Zenon DEF ReadRef
<1>3. c \in LuaVal /\ k \in LuaVal /\ stack[s] \in Seq(Item) /\ stack[s] \in Seq(LuaVal)
  BY <1>1, RegFacts
<1>4. /\ p.err \in BOOLEAN /\ (p.err <=> c \notin Container \ Guarded)
      /\ Pop(p.st, 2) = stack[s]
      /\ ~ p.err => Ix(p.st, -1) = Entry(c, k)
  <2> DEFINE z == PGetTable(Push(Push(stack[s], c), k), -2)
  <2>1. /\ z.err \in BOOLEAN /\ (z.err <=> c \notin Container \ Guarded)
        /\ Pop(z.st, 2) = stack[s]
        /\ ~ z.err => Ix(z.st, -1) = Entry(c, k)
    BY <1>3, PGetFacts, Zenon
  <2>2. p = z
    BY Zenon DEF PushSlot
  <2> HIDE DEF p, z
  <2>3. QED
    BY <2>1, <2>2
<1>5. /\ Fails(r) <=> c \notin Container \ Guarded
      /\ ~ Fails(r) => Meaning(r) = Entry(c, k)
  BY <1>1 DEF Fails, Meaning
<1> HIDE DEF c, k, p
<1>6. stack' = [stack EXCEPT ![s] = stack[s]]
  BY <1>2, <1>4
<1>7. CASE p.err
  BY <1>1, <1>2, <1>3, <1>6, <1>7, OnlyStack
<1>8. CASE ~ p.err
  <2> DEFINE e == Entry(c, k)
  <2>1. /\ reg' = [Cleaned(x) EXCEPT ![s][Fresh] = e]
        /\ obj' = [obj EXCEPT ![x] = Has(s, Fresh)]
    BY <1>2, <1>4, <1>8
  <2>2. e \in LuaVal /\ ~ Fails(r) /\ Meaning(r) = e
    BY <1>4, <1>5, <1>8, EntryFacts
  <2> HIDE DEF e
  <2>3. Sets(x, s, Fresh, e) /\ Fresh \notin Taken
    BY <1>1, <2>1, <2>2, ResultFacts
  <2>4. Den' = [Den EXCEPT ![x] = [st |-> s, val |-> e, key |-> Nil]] => Implements
    BY <1>1, <2>2, SemCopy
  <2>5. stack' \in StackType /\ \A t \in Interp : stack'[t] = stack[t]
    BY <1>1, <1>6, SameStack
  <2>6. QED
    BY <1>1, <2>3, <2>4, <2>5, TypedFacts, WroteStep
<1>9. QED
  BY <1>7, <1>8

(* An entry is written, or none.                                           *)
LEMMA EntryStep ==
  ASSUME IInv, NEW r \in Ref, NEW s \in Interp, NEW v, obj[r].st = s,
         NEW u \in Seq(LuaVal), Careful => u = stack[s], stack' = [stack EXCEPT ![s] = u],
         UNCHANGED <<alive, obj, reg, uses>>,
         \/ UNCHANGED store
         \/ /\ reg[s][obj[r].id] \in Container /\ reg[s][obj[r].key] \in Key
            /\ SetEntry(reg[s][obj[r].id], reg[s][obj[r].key], v)
  PROVE  Sound
<1> DEFINE c == reg[s][obj[r].id]
           k == reg[s][obj[r].key]
<1>1. CASE UNCHANGED store
  BY <1>1, OnlyStack
<1>2. CASE ~ UNCHANGED store
  <2>1. /\ c \in Container /\ k \in Key /\ v \in LuaVal
        /\ store' = [store EXCEPT ![Body[c]][k] = v]
    BY <1>2, LuaValuesAssumption DEF SetEntry, LuaVal
  <2>2. stack' \in StackType /\ (Careful => \A t \in Interp : stack'[t] = stack[t])
    BY StackSet DEF StackType
  <2>3. store' \in StoreType
    BY <2>1, TypedFacts DEF StoreType
  <2>4. IInv'
    <3>1. /\ alive' = alive /\ obj' = obj /\ reg' = reg /\ uses' = uses
          /\ Numbered'
      BY DEF IInv, Numbered, Exists, Blank
    <3>2. QED
      BY <2>2, <2>3, <3>1, TypedFacts, TypedStep DEF ObjType
  <2>5. OwnInv => OwnInv' /\ Den' = Den
    BY SameObjects
  <2>6. Den[r].val = c /\ Den[r].key = k
    BY TypedFacts, DenFacts
  <2> HIDE DEF c, k
  <2>7. OwnInv => Implements
    BY <2>1, <2>5, <2>6, SemWrite
  <2>8. QED
    BY <2>2, <2>4, <2>5, <2>7, TypedFacts DEF Sound
<1>3. QED
  BY <1>1, <1>2

LEMMA TableSetStep ==
  ASSUME IInv, NEW r \in Ref, NEW y \in Val, TableSet(r, y)
  PROVE  Sound
<1> DEFINE s == obj[r].st
           c == reg[s][obj[r].id]
           k == reg[s][obj[r].key]
           w == IF obj[y].st = None THEN Nil ELSE reg[s][obj[y].id]
           st1 == Push(stack[s], c)
           st2 == Push(st1, k)
           st3 == Push(st2, w)
<1>1. /\ y \in Obj /\ r \in Obj /\ r \notin Val /\ s # None /\ s \in alive /\ s \in Interp
      /\ obj[r].id \in Slot /\ obj[r].key \in Slot /\ obj[y].id \in Slot
      /\ UNCHANGED <<alive, obj, reg, uses>>
  BY ObjFacts, TypedFacts DEF TableSet, IInv, Numbered
<1>2. /\ c \in LuaVal /\ k \in LuaVal /\ w \in LuaVal /\ c \in Item /\ k \in Item /\ w \in Item
      /\ stack[s] \in Seq(Item) /\ stack[s] \in Seq(LuaVal)
  BY <1>1, RegFacts
<1>3. PushValue(s, st2, y).st = st3
  BY DEF PushValue, PushSlot
<1>4. /\ PushSlot(s, stack[s], obj[r].id) = st1 /\ PushSlot(s, st1, obj[r].key) = st2
  BY DEF PushSlot
<1>5. Pop(st1, 1) = stack[s] /\ Pop(st2, 2) = stack[s]
  BY <1>2, ItemFacts, Zenon
<1>6. Pop(st3, 3) = stack[s] /\ Pop(st3, 2) = st1 /\ Ix(st3, -1) = w
  <2> HIDE DEF c, k, w, s
  <2>1. stack[s] \in Seq(Item) /\ c \in Item /\ k \in Item /\ w \in Item
    BY <1>2
  <2>2. QED
    <3> DEFINE u == Push(Push(Push(stack[s], c), k), w)
    <3>1. Pop(u, 3) = stack[s] /\ Pop(u, 2) = Push(stack[s], c) /\ Ix(u, -1) = w
      BY <2>1, ItemFacts3
    <3>2. st3 = u /\ st1 = Push(stack[s], c)
      OBVIOUS
    <3> HIDE DEF u, st3, st1
    <3>3. QED
      BY <3>1, <3>2
<1>7. pop_ud(st1, c) \in Seq(LuaVal) /\ (c \in AnyUd \ Bare => pop_ud(st1, c) = stack[s])
  BY <1>2, UdFacts, Zenon
<1>8. \/ /\ c \in AnyUd
         /\ Careful => c \notin Bare
         /\ stack' = [stack EXCEPT ![s] = pop_ud(st1, c)]
         /\ IF c \in Userdata
            THEN k \in Key /\ SetEntry(c, k, Read(y))
            ELSE UNCHANGED store
      \/ /\ c \in Table /\ k = Nil
         /\ stack' = [stack EXCEPT ![s] = Pop(st2, 2)]
         /\ UNCHANGED store
      \/ /\ c \in Table /\ k \in Key
         /\ stack' = [stack EXCEPT ![s] = IF c \in Guarded THEN Pop(st3, 3) ELSE Pop(Pop(st3, 2), 1)]
         /\ SetEntry(c, k, Ix(st3, -1))
      \/ /\ c \notin AnyUd \cup Table
         /\ stack' = [stack EXCEPT ![s] = Pop(st1, 1)]
         /\ UNCHANGED store
  BY <1>3, <1>4, Zenon DEF TableSet
<1> HIDE DEF w, st1, st2, st3
<1>9. CASE /\ c \in AnyUd
           /\ Careful => c \notin Bare
           /\ stack' = [stack EXCEPT ![s] = pop_ud(st1, c)]
           /\ IF c \in Userdata
              THEN k \in Key /\ SetEntry(c, k, Read(y))
              ELSE UNCHANGED store
  <2> DEFINE u == pop_ud(st1, c)
  <2>1. u \in Seq(LuaVal) /\ (Careful => u = stack[s]) /\ stack' = [stack EXCEPT ![s] = u]
    BY <1>7, <1>9
  <2>2. \/ UNCHANGED store
        \/ c \in Container /\ k \in Key /\ SetEntry(c, k, Read(y))
    BY <1>9 DEF Container
  <2> HIDE DEF u
  <2>3. QED
    BY <1>1, <2>1, <2>2, EntryStep
<1>10. CASE stack' = [stack EXCEPT ![s] = stack[s]] /\ UNCHANGED store
  BY <1>1, <1>2, <1>10, EntryStep
<1>11. CASE c \in Table /\ k \in Key /\ stack' = [stack EXCEPT ![s] = stack[s]] /\ SetEntry(c, k, Ix(st3, -1))
  <2>1. c \in Container
    BY <1>11 DEF Container
  <2>2. QED
    BY <1>1, <1>2, <1>11, <2>1, EntryStep
<1>12. QED
  BY <1>5, <1>6, <1>8, <1>9, <1>10, <1>11

LEMMA CopyRefStep ==
  ASSUME IInv, NEW r \in Ref, NEW q \in Ref, CopyRef(r, q)
  PROVE  Sound
<1> DEFINE s == obj[q].st
           c == reg[s][obj[q].id]
           k == reg[s][obj[q].key]
<1>1. /\ r \in Obj /\ q \in Obj /\ ~ Exists(r) /\ Exists(q) /\ Left >= 2 /\ Left >= 1
      /\ obj' = [obj EXCEPT ![r] = [st |-> s, id |-> Fresh, key |-> Fresh2]]
      /\ UNCHANGED <<alive, store, stack, uses>>
  <2>1. Left >= 2 => Left >= 1
    <3>1. IsFiniteSet(Unused)
      BY LuaValuesAssumption, FS_Subset DEF Unused
    <3>2. Left \in Nat
      BY <3>1, FS_CardinalityType DEF Left
    <3>3. QED
      BY <3>2
  <2>2. QED
    BY <2>1, TypedFacts DEF CopyRef
<1>2. /\ Fresh \in Slot /\ Fresh \notin Taken /\ Fresh2 \in Slot /\ Fresh2 \notin Taken /\ Fresh2 # Fresh
  BY <1>1, FreshFacts, Fresh2Facts
<1>3. IF s = None
      THEN UNCHANGED reg
      ELSE reg' = [reg EXCEPT ![s] = [@ EXCEPT ![Fresh] = c, ![Fresh2] = k]]
  BY Zenon DEF CopyRef
<1>4. s \in alive \cup {None} /\ (s # None => s \in Interp /\ c \in LuaVal /\ k \in LuaVal)
  <2>1. s \in alive \cup {None}
    BY <1>1, TypedFacts DEF ObjType
  <2>2. s # None => obj[q].id \in Slot /\ obj[q].key \in Slot /\ s \in Interp
    BY <1>1, ObjFacts
  <2>3. QED
    BY <2>1, <2>2, RegFacts
<1> HIDE DEF s, c, k
<1>5. /\ reg' \in RegType
      /\ s # None => reg'[s][Fresh] = c /\ reg'[s][Fresh2] = k
      /\ s = None => reg' = reg
      /\ \A t \in Interp, j \in Slot : t # s \/ j \notin {Fresh, Fresh2} => reg'[t][j] = reg[t][j]
  <2>1. CASE s = None
    BY <1>3, <2>1, TypedFacts
  <2>2. CASE s # None
    BY <1>2, <1>3, <1>4, <2>2, TypedFacts DEF RegType
  <2>3. QED
    BY <2>1, <2>2
<1>6. obj' = [o \in Obj |-> IF o = r THEN [st |-> s, id |-> Fresh, key |-> Fresh2]
                            ELSE IF o \in {} THEN Gone(o) ELSE obj[o]]
  BY <1>1, TypedFacts DEF ObjType
<1>7. Refers(r, s, Fresh, Fresh2, {})
  BY <1>1, <1>2, <1>4, <1>5, <1>6 DEF Refers
<1>8. /\ obj' \in [Obj -> [st : alive' \cup {None}, id : Slot \cup {0}, key : Slot \cup {0}]]
      /\ Numbered'
      /\ OwnInv =>
           /\ OwnInv'
           /\ Den' = [o \in Obj |->
                       IF o = r THEN IF s = None THEN [st |-> None, val |-> Nil, key |-> Nil]
                                     ELSE [st |-> s, val |-> reg'[s][Fresh], key |-> reg'[s][Fresh2]]
                       ELSE IF o \in {} THEN [st |-> None, val |-> Nil, key |-> Nil] ELSE Den[o]]
  BY <1>7, RefersFacts
<1>9. Den[q] = IF s = None THEN [st |-> None, val |-> Nil, key |-> Nil] ELSE [st |-> s, val |-> c, key |-> k]
  BY <1>1 DEF Den, s, c, k
<1>10. OwnInv => OwnInv' /\ Den' = [Den EXCEPT ![r] = Den[q]]
  <2>1. Den = [o \in Obj |-> Den[o]]
    BY DEF Den
  <2>2. QED
    BY <1>5, <1>8, <1>9, <2>1
<1>11. IInv'
  BY <1>1, <1>5, <1>8, TypedFacts, TypedStep
<1>12. QED
  BY <1>1, <1>10, <1>11, SemCopyRef DEF Sound

LEMMA MakeRefStep ==
  ASSUME IInv, NEW r \in Ref, NEW x \in Val, NEW k \in Val, NEW tm \in BOOLEAN, NEW km \in BOOLEAN,
         MakeRef(r, x, k, tm, km)
  PROVE  Sound
<1> DEFINE s == obj[x].st
           tid == IF tm THEN obj[x].id ELSE Fresh
           kid == IF km THEN obj[k].id ELSE IF tm THEN Fresh ELSE Fresh2
           gone == (IF tm THEN {x} ELSE {}) \cup (IF km THEN {k} ELSE {})
           c == reg[s][obj[x].id]
           e == reg[s][obj[k].id]
<1>1. /\ r \in Obj /\ x \in Obj /\ k \in Obj /\ ~ Exists(r) /\ Exists(x) /\ Exists(k) /\ obj[k].st = s
      /\ Left >= 2
      /\ UNCHANGED <<alive, store, uses>>
  BY TypedFacts DEF MakeRef
<1>2. /\ obj' = [o \in Obj |-> IF o = r THEN [st |-> s, id |-> tid, key |-> kid]
                               ELSE IF o \in gone THEN Gone(o) ELSE obj[o]]
      /\ IF s = None
         THEN UNCHANGED <<reg, stack>>
         ELSE /\ reg' = [reg EXCEPT ![s] = [@ EXCEPT ![tid] = c, ![kid] = e]]
              /\ stack' = [stack EXCEPT ![s] = Pop(Push(Push(@, kid), e), 2)]
  BY Zenon DEF MakeRef
<1>3. /\ Fresh \in Slot /\ Fresh \notin Taken /\ Fresh2 \in Slot /\ Fresh2 \notin Taken /\ Fresh2 # Fresh
  <2>1. IsFiniteSet(Unused)
    BY LuaValuesAssumption, FS_Subset DEF Unused
  <2>2. Left \in Nat
    BY <2>1, FS_CardinalityType DEF Left
  <2>3. QED
    BY <1>1, <2>2, FreshFacts, Fresh2Facts
<1>4. /\ obj[x].id \in Slot /\ obj[k].id \in Slot /\ obj[x].id \in Taken /\ obj[k].id \in Taken
  BY <1>1 DEF IInv, Numbered, Taken
<1>5. s \in alive \cup {None} /\ (s # None => s \in Interp /\ c \in LuaVal /\ e \in LuaVal)
  <2>1. s \in alive \cup {None}
    BY <1>1, TypedFacts DEF ObjType
  <2>2. QED
    BY <1>1, <1>4, <2>1, ObjFacts, RegFacts
<1>6. /\ tid \in Slot /\ kid \in Slot /\ gone \in SUBSET {x, k}
      /\ \A i \in {tid, kid} : i \notin Taken \/ \E g \in gone : i = obj[g].id
      /\ \A g \in gone : Exists(g) /\ obj[g].st = s /\ obj[g].id \in {tid, kid}
      /\ tid = kid => obj[x].id = obj[k].id
  <2>1. CASE tm /\ km
    <3>1. tid = obj[x].id /\ kid = obj[k].id /\ gone = {x, k}
      BY <2>1
    <3>2. QED
      BY <1>1, <1>4, <3>1
  <2>2. CASE tm /\ ~ km
    <3>1. tid = obj[x].id /\ kid = Fresh /\ gone = {x}
      BY <2>2
    <3>2. QED
      BY <1>1, <1>3, <1>4, <3>1
  <2>3. CASE ~ tm /\ km
    <3>1. tid = Fresh /\ kid = obj[k].id /\ gone = {k}
      BY <2>3
    <3>2. QED
      BY <1>1, <1>3, <1>4, <3>1
  <2>4. CASE ~ tm /\ ~ km
    <3>1. tid = Fresh /\ kid = Fresh2 /\ gone = {}
      BY <2>4
    <3>2. QED
      BY <1>3, <3>1
  <2>5. QED
    BY <2>1, <2>2, <2>3, <2>4
<1> HIDE DEF s, tid, kid, gone, c, e
<1>7. /\ reg' \in RegType
      /\ s # None => reg'[s][kid] = e /\ (tid # kid => reg'[s][tid] = c)
      /\ s = None => reg' = reg
      /\ \A t \in Interp, j \in Slot : t # s \/ j \notin {tid, kid} => reg'[t][j] = reg[t][j]
  <2>1. CASE s = None
    BY <1>2, <2>1, TypedFacts
  <2>2. CASE s # None
    BY <1>2, <1>5, <1>6, <2>2, TypedFacts DEF RegType
  <2>3. QED
    BY <2>1, <2>2
<1>8. stack' \in StackType /\ \A t \in Interp : stack'[t] = stack[t]
  <2>1. CASE s = None
    <3>1. stack' = stack
      BY <1>2, <2>1
    <3>2. QED
      BY <3>1, SameStack
  <2>2. CASE s # None
    <3>1. stack[s] \in Seq(Item) /\ kid \in Item /\ e \in Item
      BY <1>5, <1>6, <2>2, RegFacts
    <3>2. Pop(Push(Push(stack[s], kid), e), 2) = stack[s]
      BY <3>1, ItemFacts, Zenon
    <3>3. stack' = [stack EXCEPT ![s] = stack[s]]
      BY <1>2, <2>2, <3>2
    <3>4. QED
      BY <1>5, <2>2, <3>3, SameStack
  <2>3. QED
    BY <2>1, <2>2
<1>9. Refers(r, s, tid, kid, gone)
  BY <1>1, <1>2, <1>5, <1>6, <1>7 DEF Refers
<1>10. /\ obj' \in [Obj -> [st : alive' \cup {None}, id : Slot \cup {0}, key : Slot \cup {0}]]
       /\ Numbered'
       /\ OwnInv =>
            /\ OwnInv'
            /\ Den' = [o \in Obj |->
                        IF o = r THEN IF s = None THEN [st |-> None, val |-> Nil, key |-> Nil]
                                      ELSE [st |-> s, val |-> reg'[s][tid], key |-> reg'[s][kid]]
                        ELSE IF o \in gone THEN [st |-> None, val |-> Nil, key |-> Nil] ELSE Den[o]]
  BY <1>9, RefersFacts
<1>11. IInv'
  BY <1>1, <1>7, <1>8, <1>10, TypedFacts, TypedStep
<1>12. ASSUME OwnInv PROVE Implements
  <2>1. /\ Meaning(x) = IF s = None THEN Nil ELSE c
        /\ Meaning(k) = IF s = None THEN Nil ELSE e
        /\ Den[x].st = s
    BY <1>1, DenFacts DEF Meaning, s, c, e
  <2>2. s # None => reg'[s][tid] = c /\ reg'[s][kid] = e
    BY <1>6, <1>7 DEF c, e
  <2>3. Den' = [o \in Obj |-> IF o = r THEN [st |-> Den[x].st, val |-> Meaning(x), key |-> Meaning(k)]
                              ELSE IF o \in gone THEN NullDen ELSE Den[o]]
    BY <1>10, <1>12, <2>1, <2>2 DEF NullDen
  <2>4. QED
    BY <1>1, <1>6, <2>3, SemRefer
<1>13. QED
  BY <1>1, <1>8, <1>10, <1>11, <1>12, TypedFacts DEF Sound

LEMMA StepSound ==
  ASSUME IInv, Next
  PROVE  Sound
<1>1. Vals \subseteq Val /\ Refs \subseteq Ref /\ Vals \subseteq Obj /\ Refs \subseteq Obj
  BY DEF Vals, Refs, Obj
<1>2. ASSUME NEW x \in Vals, ConstructNull(x) PROVE Sound
  BY <1>1, <1>2, ConstructNullStep
<1>3. ASSUME NEW x \in Vals, NEW s \in Interp, NEW v \in Given, Construct(x, s, v) PROVE Sound
  BY <1>1, <1>3, ConstructStep
<1>4. ASSUME NEW x \in Vals, NEW s \in Interp, NEW t \in Table \cap uses, NewTable(x, s, t) PROVE Sound
  BY <1>1, <1>4, NewTableStep
<1>5. ASSUME NEW x \in Vals, NEW m \in Vals, NEW s \in Interp, NEW th \in Thread \cap uses, NewThread(x, s, m, th)
      PROVE  Sound
  BY <1>1, <1>5, NewThreadStep
<1>6. ASSUME NEW x \in Vals, NEW v \in Given, AssignLiteral(x, v) PROVE Sound
  BY <1>1, <1>6, AssignLiteralStep
<1>7. ASSUME NEW x \in Vals, NEW y \in Vals, Assign(x, y) PROVE Sound
  BY <1>1, <1>7, AssignStep
<1>8. ASSUME NEW x \in Vals, NEW y \in Vals, MoveTo(x, y) PROVE Sound
  BY <1>1, <1>8, MoveToStep
<1>9. ASSUME NEW r \in Refs, NEW q \in Refs, CopyRef(r, q) PROVE Sound
  BY <1>1, <1>9, CopyRefStep
<1>10. ASSUME NEW r \in Refs, NEW q \in Refs, MoveTo(r, q) PROVE Sound
  BY <1>1, <1>10, MoveToStep, TypedFacts
<1>11. ASSUME NEW o \in Vals \cup Refs, Destroy(o) PROVE Sound
  BY <1>1, <1>11, DestroyStep
<1>12. ASSUME NEW o \in Vals \cup Refs, Query(o) PROVE Sound
  BY <1>1, <1>12, QueryStep
<1>13. ASSUME NEW o \in Vals \cup Refs, NEW x \in Vals, Compare(o, x) PROVE Sound
  BY <1>1, <1>13, CompareStep
<1>14. ASSUME NEW x \in Vals, NEW o \in Vals, NEW k \in Vals, Index(x, o, k) PROVE Sound
  BY <1>1, <1>14, IndexStep
<1>15. ASSUME NEW r \in Refs, NEW x \in Vals, NEW k \in Vals, NEW tm \in BOOLEAN, NEW km \in BOOLEAN,
              MakeRef(r, x, k, tm, km)
       PROVE  Sound
  BY <1>1, <1>15, MakeRefStep, Zenon
<1>16. ASSUME NEW r \in Refs, NEW x \in Vals, ReadRef(x, r) PROVE Sound
  BY <1>1, <1>16, ReadRefStep
<1>17. ASSUME NEW r \in Refs, NEW x \in Vals, TableSet(r, x) PROVE Sound
  BY <1>1, <1>17, TableSetStep
<1>18. ASSUME NEW s \in Interp, Close(s) PROVE Sound
  BY <1>18, CloseStep
<1>19. QED
  BY <1>2, <1>3, <1>4, <1>5, <1>6, <1>7, <1>8, <1>9, <1>10, <1>11, <1>12, <1>13, <1>14, <1>15,
     <1>16, <1>17, <1>18, Zenon DEF Next

LEMMA InitSound ==
  ASSUME Init
  PROVE  IInv /\ OwnInv /\ Sem!Init
<1>1. /\ alive = Interp /\ obj = [o \in Obj |-> Blank]
      /\ reg = [s \in Interp |-> [i \in Slot |-> Nil]]
      /\ store = [b \in Bodies |-> [k \in Key |-> Nil]]
      /\ uses \in Programs
      /\ stack = [s \in Interp |-> <<Global[s]>>]
  BY DEF Init
<1>2. /\ Nil \in LuaVal /\ Table \subseteq LuaVal /\ Global \in [Interp -> Table]
      /\ Blank = [st |-> None, id |-> 0, key |-> 0]
  BY LuaValuesAssumption DEF LuaVal, Blank
<1>3. \A s \in Interp : <<Global[s]>> \in Seq(LuaVal)
  BY <1>2
<1>4. IInv
  <2>1. TypeOK
    BY <1>1, <1>2, <1>3 DEF TypeOK
  <2>2. Numbered
    BY <1>1, <1>2 DEF Numbered, Exists
  <2>3. QED
    BY <1>1, <2>1, <2>2 DEF IInv, Typed
<1>5. OwnInv
  BY <1>1, <1>2 DEF OwnInv, Distinct, Owned
<1>6. Sem!Init
  <2>1. [o \in Obj |->
          IF obj[o].st = None THEN [st |-> None, val |-> Nil, key |-> Nil]
          ELSE [st  |-> obj[o].st,
                val |-> reg[obj[o].st][obj[o].id],
                key |-> IF o \in Ref THEN reg[obj[o].st][obj[o].key] ELSE Nil]]
          = [o \in Val \cup Ref |-> [st |-> None, val |-> Nil, key |-> Nil]]
    BY <1>1, <1>2 DEF Obj
  <2>2. store \in [{Body[c] : c \in Container} -> [Key -> LuaVal]]
    BY <1>1, <1>2 DEF Bodies
  <2>3. QED
    BY <2>1, <2>2 DEF Sem!Init, Sem!Null
<1>7. QED
  BY <1>4, <1>5, <1>6

LEMMA Unchanged ==
  ASSUME IInv, UNCHANGED vars
  PROVE  Sound
<1>1. IInv'
  BY DEF vars, IInv, Typed, TypeOK, Numbered, Exists, Blank
<1>2. OwnInv => OwnInv' /\ Den' = Den
  BY SameObjects DEF vars
<1>3. QED
  BY <1>1, <1>2, SemStutter DEF vars, Sound

-----------------------------------------------------------------------------
(* The order of values: by type, and by number, address or rank.           *)

Ordered == LuaVal \ (Foreign \cup Bare)

LEMMA KindFacts ==
  ASSUME NEW v \in Ordered
  PROVE  /\ TypeNo(v) \in Nat /\ Hash(v) \in Nat
         /\ v = Nil => TypeNo(v) = 0 /\ Hash(v) = 0
         /\ v \in Number => TypeNo(v) = 3 /\ Hash(v) = Rank[v]
         /\ v \in Text => TypeNo(v) = 4 /\ Hash(v) = Rank[v]
         /\ v \in Table => TypeNo(v) = 5 /\ Hash(v) = Block[v]
         /\ v \in Function => TypeNo(v) = 6 /\ Hash(v) = Block[v]
         /\ v \in Own => TypeNo(v) = 7 /\ Hash(v) = Target[v]
         /\ v \in Thread => TypeNo(v) = 8 /\ Hash(v) = Block[v]
         /\ v \in {Nil} \cup Number \cup Text \cup Table \cup Own \cup Function \cup Thread
<1>1. /\ v \in {Nil} \cup Number \cup Text \cup Table \cup Own \cup Function \cup Thread
      /\ Own \subseteq AnyUd
  BY DEF Ordered, LuaVal, AnyUd
<1>2. CASE v = Nil
  <2>1. v \notin Number /\ v \notin Text /\ v \notin Table /\ v \notin AnyUd /\ v \notin Function /\ v \notin Thread
    BY <1>2, TypesAssumption
  <2>2. TypeNo(v) = 0 /\ Hash(v) = 0
    BY <1>2, <2>1 DEF TypeNo, Hash
  <2>3. QED
    BY <1>1, <1>2, <2>1, <2>2
<1>3. CASE v \in Number
  <2>1. v # Nil /\ v \notin Text /\ v \notin Table /\ v \notin AnyUd /\ v \notin Function /\ v \notin Thread
    BY <1>3, TypesAssumption
  <2>2. TypeNo(v) = 3 /\ Hash(v) = Rank[v] /\ Rank[v] \in Nat
    BY <1>3, <2>1, OrderAssumption DEF TypeNo, Hash
  <2>3. QED
    BY <1>1, <1>3, <2>1, <2>2
<1>4. CASE v \in Text
  <2>1. v # Nil /\ v \notin Number /\ v \notin Table /\ v \notin AnyUd /\ v \notin Function /\ v \notin Thread
    BY <1>4, TypesAssumption
  <2>2. TypeNo(v) = 4 /\ Hash(v) = Rank[v] /\ Rank[v] \in Nat
    BY <1>4, <2>1, OrderAssumption DEF TypeNo, Hash
  <2>3. QED
    BY <1>1, <1>4, <2>1, <2>2
<1>5. CASE v \in Table
  <2>1. v # Nil /\ v \notin Number /\ v \notin Text /\ v \notin AnyUd /\ v \notin Function /\ v \notin Thread
    BY <1>5, TypesAssumption
  <2>2. TypeNo(v) = 5 /\ Hash(v) = Block[v] /\ Block[v] \in Nat
    BY <1>1, <1>5, <2>1, OrderAssumption DEF TypeNo, Hash
  <2>3. QED
    BY <1>1, <1>5, <2>1, <2>2
<1>6. CASE v \in Function
  <2>1. v # Nil /\ v \notin Number /\ v \notin Text /\ v \notin AnyUd /\ v \notin Table /\ v \notin Thread
    BY <1>6, TypesAssumption
  <2>2. TypeNo(v) = 6 /\ Hash(v) = Block[v] /\ Block[v] \in Nat
    BY <1>1, <1>6, <2>1, OrderAssumption DEF TypeNo, Hash
  <2>3. QED
    BY <1>1, <1>6, <2>1, <2>2
<1>7. CASE v \in Own
  <2>1. v # Nil /\ v \notin Number /\ v \notin Text /\ v \notin Function /\ v \notin Table /\ v \notin Thread
    BY <1>1, <1>7, TypesAssumption
  <2>2. TypeNo(v) = 7 /\ Hash(v) = Target[v] /\ Target[v] \in Nat
    BY <1>1, <1>7, <2>1, OrderAssumption DEF TypeNo, Hash
  <2>3. QED
    BY <1>1, <1>7, <2>1, <2>2
<1>8. CASE v \in Thread
  <2>1. v # Nil /\ v \notin Number /\ v \notin Text /\ v \notin AnyUd /\ v \notin Table /\ v \notin Function
    BY <1>8, TypesAssumption
  <2>2. TypeNo(v) = 8 /\ Hash(v) = Block[v] /\ Block[v] \in Nat
    BY <1>1, <1>8, <2>1, OrderAssumption DEF TypeNo, Hash
  <2>3. QED
    BY <1>1, <1>8, <2>1, <2>2
<1>9. QED
  BY <1>1, <1>2, <1>3, <1>4, <1>5, <1>6, <1>7, <1>8

(* Values are ordered by type and hash, and equal if both are.             *)
LEMMA OrderFacts ==
  ASSUME NEW u \in Ordered, NEW v \in Ordered
  PROVE  /\ Less(u, v) <=> TypeNo(u) < TypeNo(v) \/ (TypeNo(u) = TypeNo(v) /\ Hash(u) < Hash(v))
         /\ Equal(u, v) <=> TypeNo(u) = TypeNo(v) /\ Hash(u) = Hash(v)
<1>1. /\ TypeNo(u) \in Nat /\ TypeNo(v) \in Nat /\ Hash(u) \in Nat /\ Hash(v) \in Nat
  BY KindFacts
<1>2. CASE TypeNo(u) # TypeNo(v)
  <2>1. u # v /\ ~ (u \in Own /\ v \in Own)
    BY <1>2, KindFacts
  <2>2. ~ Equal(u, v)
    BY <2>1 DEF Equal
  <2>3. Less(u, v) <=> TypeNo(u) < TypeNo(v)
    BY <1>2, Zenon DEF Less
  <2>4. QED
    BY <1>2, <2>2, <2>3
<1>3. CASE TypeNo(u) = TypeNo(v) /\ u \in Own
  <2>1. v \in Own /\ Hash(u) = Target[u] /\ Hash(v) = Target[v]
    BY <1>3, KindFacts
  <2>2. /\ Less(u, v) <=> Target[u] < Target[v]
        /\ Equal(u, v) <=> Target[u] = Target[v]
    BY <1>3, <2>1, Zenon DEF Less, Equal
  <2>3. QED
    BY <1>1, <1>3, <2>1, <2>2
<1>4. CASE TypeNo(u) = TypeNo(v) /\ u = Nil
  <2>1. v = Nil /\ Hash(u) = 0 /\ Hash(v) = 0 /\ u \notin Own
    BY <1>4, KindFacts
  <2>2. ~ Less(u, v) /\ Equal(u, v)
    BY <1>4, <2>1, Zenon DEF Less, Equal
  <2>3. QED
    BY <1>1, <1>4, <2>1, <2>2
<1>5. CASE TypeNo(u) = TypeNo(v) /\ u \in Number \cup Text
  <2>1. /\ (u \in Number /\ v \in Number) \/ (u \in Text /\ v \in Text)
        /\ Hash(u) = Rank[u] /\ Hash(v) = Rank[v] /\ u \notin Own /\ u # Nil
    BY <1>5, KindFacts
  <2>2. Rank[u] = Rank[v] <=> u = v
    BY <2>1, OrderAssumption
  <2>3. /\ Less(u, v) <=> Rank[u] < Rank[v]
        /\ Equal(u, v) <=> u = v
    BY <1>5, <2>1, Zenon DEF Less, Equal
  <2>4. QED
    BY <1>1, <1>5, <2>1, <2>2, <2>3
<1>6. CASE TypeNo(u) = TypeNo(v) /\ u \in Table \cup Function \cup Thread
  <2>1. /\ v \in Table \cup Function \cup Thread
        /\ Hash(u) = Block[u] /\ Hash(v) = Block[v] /\ u \notin Own /\ u # Nil /\ u \notin Number \cup Text
    BY <1>6, KindFacts
  <2>2. Block[u] = Block[v] <=> u = v
    BY <1>6, <2>1, OrderAssumption
  <2>3. /\ Less(u, v) <=> Block[u] < Block[v]
        /\ Equal(u, v) <=> u = v
    BY <1>6, <2>1, Zenon DEF Less, Equal
  <2>4. QED
    BY <1>1, <1>6, <2>1, <2>2, <2>3
<1>7. QED
  BY <1>2, <1>3, <1>4, <1>5, <1>6, KindFacts

LEMMA MetOrdered ==
  ASSUME IInv
  PROVE  Met \subseteq Ordered /\ ValuesOrdered
<1>1. Met \subseteq Ordered
  <2> SUFFICES ASSUME NEW v \in Met PROVE v \in Ordered
    OBVIOUS
  <2>1. /\ v \in (UNION {Range(reg[s]) : s \in Interp}) \cup (UNION {Range(store[b]) : b \in Bodies})
        /\ v \notin Foreign \cup Bare
    BY DEF Met
  <2>2. \A s \in Interp : Range(reg[s]) \subseteq LuaVal
    BY TypedFacts DEF RegType, Range
  <2>3. \A b \in Bodies : Range(store[b]) \subseteq LuaVal
    BY TypedFacts DEF StoreType, Range
  <2>4. \/ \E s \in Interp : v \in Range(reg[s])
        \/ \E b \in Bodies : v \in Range(store[b])
    BY <2>1
  <2>5. v \in LuaVal
    BY <2>2, <2>3, <2>4
  <2>6. QED
    BY <2>1, <2>5 DEF Ordered
<1>2. ASSUME NEW u \in Ordered, NEW v \in Ordered
      PROVE  /\ Equal(u, v) <=> ~ Less(u, v) /\ ~ Less(v, u)
             /\ Equal(u, v) => Hash(u) = Hash(v)
             /\ Less(u, v) => ~ Less(v, u)
  <2>1. TypeNo(u) \in Nat /\ TypeNo(v) \in Nat /\ Hash(u) \in Nat /\ Hash(v) \in Nat
    BY KindFacts
  <2>2. QED
    BY <2>1, OrderFacts
<1>3. ASSUME NEW u \in Ordered, NEW v \in Ordered, NEW w \in Ordered, Less(u, v), Less(v, w)
      PROVE  Less(u, w)
  <2>1. /\ TypeNo(u) \in Nat /\ TypeNo(v) \in Nat /\ TypeNo(w) \in Nat
        /\ Hash(u) \in Nat /\ Hash(v) \in Nat /\ Hash(w) \in Nat
    BY KindFacts
  <2>2. QED
    BY <1>3, <2>1, OrderFacts
<1>4. QED
  BY <1>1, <1>2, <1>3, Zenon DEF ValuesOrdered

-----------------------------------------------------------------------------

(* The steps of any program keep every variable well formed: no slot, entry*)
(* or stack ever holds what is no Lua value, and an object that points to  *)
(* an interpreter points to one that exists.                               *)
THEOREM TypeCorrect == Spec => []TypeOK
<1>1. Init => IInv
  BY InitSound
<1>2. IInv /\ [Next]_vars => IInv'
  BY StepSound, Unchanged DEF Sound
<1>3. IInv => TypeOK
  BY DEF IInv, Typed
<1>4. QED
  BY <1>1, <1>2, <1>3, PTL DEF Spec

(* Values are ordered as QMap and QHash need it by operator==, operator<   *)
(* and qHash, in every program and whatever values it meets together.      *)
THEOREM MapsAreSound == Spec => []ValuesOrdered
<1>1. Init => IInv
  BY InitSound
<1>2. IInv /\ [Next]_vars => IInv'
  BY StepSound, Unchanged DEF Sound
<1>3. IInv => ValuesOrdered
  BY MetOrdered
<1>4. QED
  BY <1>1, <1>2, <1>3, PTL DEF Spec

LEMMA CarefulStep ==
  ASSUME Careful
  PROVE  /\ Init => IInv /\ OwnInv
         /\ IInv /\ OwnInv /\ [Next]_vars =>
              /\ (IInv /\ OwnInv)'
              /\ [\A s \in alive' : stack'[s] = stack[s]]_vars
              /\ [Sem!Next]_(Sem!vars)
<1>1. Init => IInv /\ OwnInv
  BY InitSound
<1>2. ASSUME IInv, OwnInv, [Next]_vars
      PROVE  Sound
  BY <1>2, StepSound, Unchanged
<1>3. QED
  BY <1>1, <1>2, Zenon DEF Sound, Implements

(* In a program that keeps clear of the defects, a slot of a registry has  *)
(* one owner: no object writes or releases the slot of another, and no     *)
(* value is kept that no object can release.                               *)
THEOREM SlotsHaveOneOwner == ASSUME Careful PROVE Spec => []OneOwner
<1>1. Init => IInv /\ OwnInv
  BY CarefulStep
<1>2. IInv /\ OwnInv /\ [Next]_vars => (IInv /\ OwnInv)'
  BY CarefulStep, Zenon
<1>3. OwnInv => OneOwner
  BY DEF OwnInv, Distinct, Owned, OneOwner
<1>4. QED
  BY <1>1, <1>2, <1>3, PTL DEF Spec

(* Every operation of such a program leaves the Lua stack as it found it,  *)
(* also where it throws.                                                   *)
THEOREM StacksAreKept == ASSUME Careful PROVE Spec => StackKept
<1>1. Init => IInv /\ OwnInv
  BY CarefulStep
<1>2. IInv /\ OwnInv /\ [Next]_vars => (IInv /\ OwnInv)' /\ [\A s \in alive' : stack'[s] = stack[s]]_vars
  BY CarefulStep, Zenon
<1>3. QED
  BY <1>1, <1>2, PTL DEF Spec, StackKept

(* Whatever the slots, numbers and stacks are, the objects of such a       *)
(* program behave as the values and references ValueSemantics describes:   *)
(* no operation changes what another object stands for.                    *)
THEOREM ObjectsAreValues == ASSUME Careful PROVE Spec => ImplementsSemantics
<1>1. Init => IInv /\ OwnInv
  BY CarefulStep
<1>2. IInv /\ OwnInv /\ [Next]_vars => (IInv /\ OwnInv)' /\ [Sem!Next]_(Sem!vars)
  BY CarefulStep, Zenon
<1>3. Init => Sem!Init
  BY InitSound
<1>4. QED
  BY <1>1, <1>2, <1>3, PTL DEF Spec, ImplementsSemantics, Sem!Spec
=============================================================================
