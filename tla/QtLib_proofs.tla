---------------------------- MODULE QtLib_proofs ----------------------------
(***************************************************************************)
(* However Lua, C++ and Qt hold, destroy, connect and reparent QObjects,   *)
(* of any number, below one another in any tree and with any wrappers: a   *)
(* wrapper counts what refers to it, is the one of its QObject, has its    *)
(* slots, and deletes what nothing else is to delete, and nothing else; an *)
(* assignment to an entry is done or not done.                             *)
(***************************************************************************)
EXTENDS QtLib, FiniteSetTheorems, SequenceTheorems, WellFoundedInduction, TLAPS

(***************************************************************************)
(* Sequences and numbers.                                                  *)
(***************************************************************************)

LEMMA LeastOf ==
  ASSUME NEW T \in SUBSET Nat, T # {}
  PROVE  Min(T) \in T /\ \A j \in T : Min(T) <= j
<1>1. PICK m \in T : \A j \in T : ~ (<<j, m>> \in OpToRel(<, Nat))
  BY NatLessThanWellFounded, WFMin
<1>2. ASSUME NEW j \in T PROVE m <= j
  <2>1. ~ j < m
    BY <1>1 DEF OpToRel
  <2>2. QED
    BY <2>1
<1>3. QED
  BY <1>2 DEF Min

LEMMA NoEntries ==
  /\ ToSet(<<>>) = {}
  /\ \A T : \A s \in Seq(T) : ToSet(s) = {} => s = <<>>
<1>1. ToSet(<<>>) = {}
  BY DEF ToSet
<1>2. ASSUME NEW T, NEW s \in Seq(T), ToSet(s) = {} PROVE s = <<>>
  <2>1. DOMAIN s = 1 .. Len(s) /\ Len(s) \in Nat
    BY LenProperties
  <2>2. Len(s) = 0
    <3>1. SUFFICES ASSUME Len(s) # 0 PROVE FALSE
      OBVIOUS
    <3>2. 1 \in DOMAIN s
      BY <2>1, <3>1
    <3>3. QED
      BY <1>2, <3>2 DEF ToSet
  <2>3. QED
    BY <2>2
<1>3. QED
  BY <1>1, <1>2

(* The members of a set of numbers in their order.                         *)
Nth(K) == [n \in 1 .. Cardinality(K) |-> CHOOSE k \in K : Cardinality({j \in K : j <= k}) = n]

LEMMA NthOf ==
  ASSUME NEW n0 \in Nat, NEW K \in SUBSET (1 .. n0)
  PROVE  /\ Cardinality(K) \in Nat
         /\ Nth(K) \in [1 .. Cardinality(K) -> K]
         /\ \A m, n \in 1 .. Cardinality(K) : Nth(K)[m] = Nth(K)[n] => m = n
         /\ \A k \in K : \E n \in 1 .. Cardinality(K) : Nth(K)[n] = k
<1> DEFINE r == [k \in K |-> Cardinality({j \in K : j <= k})]
           N == 1 .. Cardinality(K)
           at == Nth(K)
<1>2. K \subseteq 1 .. n0 /\ K \subseteq Nat
  OBVIOUS
<1>3. IsFiniteSet(K) /\ Cardinality(K) \in Nat
  <2>1. IsFiniteSet(1 .. n0)
    BY FS_Interval
  <2>2. IsFiniteSet(K)
    BY <2>1, FS_Subset
  <2>3. QED
    BY <2>2, FS_CardinalityType
<1>4. ASSUME NEW k \in K
      PROVE  /\ IsFiniteSet({j \in K : j <= k})
             /\ Cardinality({j \in K : j <= k}) \in N
             /\ r[k] = Cardinality({j \in K : j <= k})
  <2> DEFINE B == {j \in K : j <= k}
  <2>1. IsFiniteSet(B) /\ Cardinality(B) <= Cardinality(K)
    BY <1>3, FS_Subset
  <2>2. k \in B
    BY <1>2
  <2>3. Cardinality(B) \in Nat /\ Cardinality(B) # 0
    BY <2>1, <2>2, FS_CardinalityType, FS_EmptySet
  <2>4. QED
    BY <2>1, <2>3, <1>3
<1>5. ASSUME NEW k \in K, NEW l \in K, k < l PROVE r[k] < r[l]
  <2> DEFINE B == {j \in K : j <= k}
             C == {j \in K : j <= l}
  <2>0. IsFiniteSet(C)
    BY <1>4
  <2>1. B \in SUBSET C
    <3>1. ASSUME NEW j \in K, j <= k PROVE j <= l
      <4>1. j \in Nat /\ k \in Nat /\ l \in Nat
        BY <1>2
      <4>2. QED
        BY ONLY <4>1, <3>1, <1>5
    <3>2. QED
      BY <3>1
  <2>2. l \in C /\ l \notin B
    BY <1>2, <1>5
  <2>3. Cardinality(B) <= Cardinality(C) /\ Cardinality(B) # Cardinality(C)
    <3>1. Cardinality(B) <= Cardinality(C) /\ (Cardinality(C) = Cardinality(B) => C = B)
      BY <2>0, <2>1, FS_Subset
    <3>2. QED
      BY <3>1, <2>2
  <2>4. Cardinality(B) \in Nat /\ Cardinality(C) \in Nat
    <3>1. IsFiniteSet(B) /\ IsFiniteSet(C)
      BY <1>4
    <3>2. QED
      BY <3>1, FS_CardinalityType
  <2>5. r[k] = Cardinality(B) /\ r[l] = Cardinality(C)
    BY <1>4
  <2>6. QED
    BY <2>3, <2>4, <2>5
<1>6. r \in Injection(K, N)
  <2>1. r \in [K -> N]
    BY <1>4
  <2>2. ASSUME NEW k \in K, NEW l \in K, r[k] = r[l] PROVE k = l
    <3>1. k \in Nat /\ l \in Nat /\ r[k] \in Nat
      BY <1>2, <1>3, <2>1
    <3>2. ~ k < l /\ ~ l < k
      BY <1>5, <2>2, <3>1
    <3>3. QED
      BY <3>1, <3>2
  <2>3. QED
    BY <2>1, <2>2 DEF Injection, IsInjective
<1>7. r \in Surjection(K, N)
  <2>1. IsFiniteSet(N) /\ Cardinality(N) = Cardinality(K)
    BY <1>3, FS_Interval
  <2>2. QED
    BY <2>1, <1>6, FS_Injection
<1>8. ASSUME NEW n \in N PROVE at[n] \in K /\ r[at[n]] = n
  <2>1. PICK k \in K : r[k] = n
    BY <1>7 DEF Surjection
  <2>2. Cardinality({j \in K : j <= k}) = n
    BY <2>1, <1>4
  <2>3. at[n] = CHOOSE x \in K : Cardinality({j \in K : j <= x}) = n
    BY DEF Nth
  <2>4. at[n] \in K /\ Cardinality({j \in K : j <= at[n]}) = n
    BY <2>2, <2>3
  <2>5. QED
    BY <2>4, <1>4
<1>9. ASSUME NEW k \in K PROVE \E n \in N : at[n] = k
  <2>1. r[k] \in N
    BY <1>4
  <2>2. at[r[k]] \in K /\ r[at[r[k]]] = r[k]
    BY <2>1, <1>8
  <2>3. at[r[k]] = k
    BY <2>2, <1>6 DEF Injection, IsInjective
  <2>4. QED
    BY <2>1, <2>3
<1>10. at \in [N -> K]
  <2>1. at = [n \in N |-> at[n]]
    BY DEF Nth
  <2>2. QED
    BY <2>1, <1>8
<1>11. \A m, n \in N : at[m] = at[n] => m = n
  BY <1>8
<1>12. QED
  BY <1>3, <1>9, <1>10, <1>11

(* What is kept is what was there and is in the set, no entry twice.       *)
LEMMA KeptIs ==
  ASSUME NEW T, NEW s \in Seq(T), NEW S
  PROVE  /\ Kept(s, S) \in Seq(T)
         /\ ToSet(Kept(s, S)) = ToSet(s) \cap S
         /\ \E f \in [DOMAIN Kept(s, S) -> DOMAIN s] :
              /\ \A n \in DOMAIN Kept(s, S) : Kept(s, S)[n] = s[f[n]]
              /\ \A m, n \in DOMAIN Kept(s, S) : f[m] = f[n] => m = n
<1> DEFINE K == {i \in DOMAIN s : s[i] \in S}
           N == 1 .. Cardinality(K)
           at == Nth(K)
<1>0. PICK n0 \in Nat : DOMAIN s = 1 .. n0
  BY LenProperties
<1>2. Kept(s, S) = [n \in N |-> s[at[n]]]
  BY DEF Kept, Nth
<1>3. \A k \in K : k \in DOMAIN s /\ s[k] \in T /\ s[k] \in S
  BY ElementOfSeq, LenProperties
<1>k. K \in SUBSET (1 .. n0)
  BY <1>0
<1> HIDE DEF K
<1>1. /\ Cardinality(K) \in Nat
      /\ at \in [N -> K]
      /\ \A m, n \in N : at[m] = at[n] => m = n
      /\ \A k \in K : \E n \in N : at[n] = k
  BY <1>k, NthOf
<1> HIDE DEF at
<1>4. DOMAIN Kept(s, S) = N /\ \A n \in N : Kept(s, S)[n] = s[at[n]] /\ at[n] \in K
  BY <1>1, <1>2
<1>5. Kept(s, S) \in [N -> T]
  BY <1>2, <1>3, <1>4
<1>6. Kept(s, S) \in Seq(T)
  BY <1>1, <1>5, SeqDef
<1>7. ToSet(Kept(s, S)) \subseteq ToSet(s) \cap S
  BY <1>3, <1>4 DEF ToSet
<1>8. ASSUME NEW x \in ToSet(s) \cap S PROVE x \in ToSet(Kept(s, S))
  <2>1. PICK i \in DOMAIN s : s[i] = x
    BY DEF ToSet
  <2>2. i \in K
    BY <2>1 DEF K
  <2>3. PICK n \in N : at[n] = i
    BY <1>1, <2>2
  <2>4. QED
    BY <2>1, <2>3, <1>4 DEF ToSet
<1>9. at \in [DOMAIN Kept(s, S) -> DOMAIN s]
  BY <1>1, <1>3, <1>4
<1>10. QED
  BY <1>1, <1>4, <1>6, <1>7, <1>8, <1>9

(***************************************************************************)
(* Heaps: their type, and what holds of them between operations.           *)
(***************************************************************************)

Slot == [fn : Functions, sig : Signals]
Conn == [id : Nat, sig : Signals]
SlotMaps == UNION {[I -> Slot] : I \in SUBSET Nat}
WrapType == [obj : Objects \cup {None}, count : Nat, reparent : BOOLEAN, delete : BOOLEAN,
             slots : SlotMaps, next : Nat, conns : Seq(Conn)]
HeapType == [exist : SUBSET Objects, kids : [Objects -> Seq(Objects)],
             name : [Objects -> Names \cup {None}], whash : [Objects -> Wrappers \cup {None}],
             wrap : [Wrappers -> WrapType]]

(* r[w] is how many references Lua and C++ have to w: one more, one less,  *)
(* those of both.                                                          *)
Refs == [Wrappers -> Nat]
Plus(r, w) == [r EXCEPT ![w] = @ + 1]
Minus(r, w) == [r EXCEPT ![w] = @ - 1]
Total(l, c) == [w \in Wrappers |-> l[w] + c[w]]

Counted(h, r) ==
  \A w \in Wrappers : h.wrap[w].count = r[w] + (IF h.wrap[w].obj # None THEN 1 ELSE 0)

Hashed(h) ==
  /\ \A o \in Objects, w \in Wrappers : h.whash[o] = w <=> h.wrap[w].obj = o
  /\ \A w \in Wrappers : h.wrap[w].obj \in h.exist \cup {None}

(* What is connected for a wrapper, each slot once, is what its slots are. *)
Wired(x) ==
  IF x.obj = None THEN x.conns = <<>>
  ELSE /\ DOMAIN x.slots = {x.conns[j].id : j \in DOMAIN x.conns}
       /\ \A j \in DOMAIN x.conns : x.slots[x.conns[j].id].sig = x.conns[j].sig
       /\ \A i, j \in DOMAIN x.conns : x.conns[i].id = x.conns[j].id => i = j

Slotted(h) == \A w \in Wrappers : Wired(h.wrap[w])

Alone(h, o) == \A p \in h.exist : o \notin ToSet(h.kids[p])

(* Nothing is left that its wrapper was to delete.                         *)
Owned(h, r) ==
  \A w \in Wrappers :
    ~(h.wrap[w].obj # None /\ h.wrap[w].delete /\ Alone(h, h.wrap[w].obj) /\ r[w] = 0)

(* QObjects are trees.                                                     *)
Forest(h) ==
  /\ \A x \in Objects : x \notin h.exist => h.kids[x] = <<>> /\ h.name[x] = None
  /\ Closed(h, h.exist)
  /\ \A p \in h.exist : \A c \in ToSet(h.kids[p]) : p \notin Subtree(h, c)

Named(h) ==
  \A p \in h.exist : \A c, d \in ToSet(h.kids[p]) :
    h.name[c] = h.name[d] /\ h.name[c] # None => c = d

NamedBut(h, o) ==
  \A p \in h.exist : \A c, d \in ToSet(h.kids[p]) \ {o} :
    h.name[c] = h.name[d] /\ h.name[c] # None => c = d

Sound(h) == h \in HeapType /\ Hashed(h) /\ Slotted(h) /\ Forest(h) /\ Named(h)
Good(h, r) == Sound(h) /\ Counted(h, r) /\ Owned(h, r)

LEMMA BlankType == Blank \in WrapType /\ Wired(Blank) /\ Blank.obj = None /\ Blank.count = 0
<1>1. <<>> \in Seq(Conn)
  OBVIOUS
<1>2. <<>> \in SlotMaps
  <2>1. <<>> \in [1 .. 0 -> Slot] /\ 1 .. 0 \in SUBSET Nat
    OBVIOUS
  <2>2. QED
    BY <2>1 DEF SlotMaps
<1>3. QED
  BY <1>1, <1>2 DEF Blank, WrapType, Wired

LEMMA WiredSame ==
  ASSUME NEW x, NEW y, Wired(x), y.obj = x.obj, y.conns = x.conns, y.slots = x.slots
  PROVE  Wired(y)
BY DEF Wired

LEMMA ParentIs ==
  ASSUME NEW h \in HeapType, NEW o \in Objects
  PROVE  /\ parent(h, o) \in h.exist \cup {None}
         /\ parent(h, o) = None <=> Alone(h, o)
         /\ parent(h, o) # None => o \in ToSet(h.kids[parent(h, o)])
<1>1. \A p \in h.exist : Contains(h.kids[p], o) <=> o \in ToSet(h.kids[p])
  <2>1. ASSUME NEW p \in h.exist PROVE Contains(h.kids[p], o) <=> o \in ToSet(h.kids[p])
    <3>1. h.kids[p] \in Seq(Objects)
      BY DEF HeapType
    <3>2. DOMAIN h.kids[p] = 1 .. Len(h.kids[p])
      BY <3>1
    <3>3. QED
      BY <3>2 DEF Contains, ToSet
  <2>2. QED
    BY <2>1
<1>2. None \notin h.exist
  BY WrapperAssumption DEF HeapType
<1>3. QED
  BY <1>1, <1>2 DEF parent, Alone

(***************************************************************************)
(* What is below an object.                                                *)
(***************************************************************************)

LEMMA SubtreeIs ==
  ASSUME NEW h, NEW o \in h.exist, Closed(h, h.exist)
  PROVE  /\ o \in Subtree(h, o)
         /\ Subtree(h, o) \in SUBSET h.exist
         /\ Closed(h, Subtree(h, o))
         /\ \A S \in SUBSET h.exist : o \in S /\ Closed(h, S) => Subtree(h, o) \subseteq S
<1>1. o \in Subtree(h, o) /\ Subtree(h, o) \in SUBSET h.exist
  BY DEF Subtree
<1>2. ASSUME NEW S \in SUBSET h.exist, o \in S, Closed(h, S) PROVE Subtree(h, o) \subseteq S
  BY <1>2 DEF Subtree
<1>3. ASSUME NEW x \in Subtree(h, o), NEW c \in ToSet(h.kids[x]) PROVE c \in Subtree(h, o)
  <2>1. c \in h.exist
    BY <1>1 DEF Closed
  <2>2. ASSUME NEW S \in SUBSET h.exist, o \in S, Closed(h, S) PROVE c \in S
    BY <1>2, <2>2 DEF Closed
  <2>3. QED
    BY <2>1, <2>2 DEF Subtree
<1>4. QED
  BY <1>1, <1>2, <1>3 DEF Closed

(* Below what is below.                                                    *)
LEMMA SubtreeIn ==
  ASSUME NEW h, NEW o \in h.exist, Closed(h, h.exist), NEW x \in Subtree(h, o)
  PROVE  x \in h.exist /\ Subtree(h, x) \subseteq Subtree(h, o)
<1>1. x \in h.exist /\ Subtree(h, o) \in SUBSET h.exist /\ Closed(h, Subtree(h, o))
  BY SubtreeIs
<1>2. QED
  BY <1>1, SubtreeIs

(* With fewer objects and fewer children.                                  *)
LEMMA SubtreeLess ==
  ASSUME NEW h, NEW g, NEW o \in g.exist, g.exist \subseteq h.exist,
         Closed(h, h.exist), Closed(g, g.exist),
         \A x \in g.exist : ToSet(g.kids[x]) \subseteq ToSet(h.kids[x])
  PROVE  Subtree(g, o) \subseteq Subtree(h, o)
<1>1. o \in Subtree(h, o) /\ Closed(h, Subtree(h, o))
  BY SubtreeIs
<1> DEFINE S == Subtree(h, o) \cap g.exist
<1>2. Closed(g, S)
  BY <1>1 DEF Closed
<1>3. S \in SUBSET g.exist /\ o \in S
  BY <1>1
<1>4. QED
  BY <1>2, <1>3, SubtreeIs

LEMMA SubtreeSame ==
  ASSUME NEW h, NEW g, NEW o, g.exist = h.exist, g.kids = h.kids
  PROVE  Subtree(g, o) = Subtree(h, o)
BY DEF Subtree, Closed

(* No object gets below itself when o is put below p, which is not below o. *)
LEMMA AcyclicPut ==
  ASSUME NEW h, NEW g, NEW o \in h.exist, NEW p \in h.exist, p \notin Subtree(h, o),
         Forest(h), g.exist = h.exist, Closed(g, g.exist),
         \A x \in h.exist : x # p => ToSet(g.kids[x]) \subseteq ToSet(h.kids[x]),
         ToSet(g.kids[p]) \subseteq ToSet(h.kids[p]) \cup {o}
  PROVE  \A q \in g.exist : \A c \in ToSet(g.kids[q]) : q \notin Subtree(g, c)
<1>0. Closed(h, h.exist)
  BY DEF Forest
<1> DEFINE B == Subtree(h, o)
<1>1. o \in B /\ B \in SUBSET h.exist /\ Closed(h, B) /\ Closed(g, B)
  <2>1. o \in B /\ B \in SUBSET h.exist /\ Closed(h, B)
    BY <1>0, SubtreeIs
  <2>2. QED
    BY <2>1 DEF Closed
<1>2. Subtree(g, o) \subseteq B
  BY <1>1, SubtreeIs
<1>3. ASSUME NEW q \in h.exist, NEW c \in ToSet(h.kids[q]) PROVE q \notin Subtree(g, c)
  <2> DEFINE C == Subtree(h, c)
  <2>1. c \in h.exist
    BY <1>0 DEF Closed
  <2>2. c \in C /\ C \in SUBSET h.exist /\ Closed(h, C)
    BY <1>0, <2>1, SubtreeIs
  <2>3. q \notin C
    BY DEF Forest
  <2>4. CASE p \notin C
    <3>1. Closed(g, C)
      BY <2>2, <2>4 DEF Closed
    <3>2. Subtree(g, c) \subseteq C
      BY <2>1, <2>2, <3>1, SubtreeIs
    <3>3. QED
      BY <2>3, <3>2
  <2>5. CASE p \in C
    <3>1. q \notin B
      <4>1. SUFFICES ASSUME q \in B PROVE FALSE
        OBVIOUS
      <4>2. c \in B
        BY <4>1, <1>1 DEF Closed
      <4>3. C \subseteq B
        BY <4>2, <1>0, SubtreeIn
      <4>4. QED
        BY <4>3, <2>5
    <3>2. Closed(g, C \cup B)
      <4>1. ASSUME NEW x \in C \cup B PROVE ToSet(g.kids[x]) \subseteq C \cup B
        <5>1. CASE x \in B
          BY <5>1, <1>1 DEF Closed
        <5>2. CASE x \in C
          BY <5>2, <2>2, <1>1 DEF Closed
        <5>3. QED
          BY <5>1, <5>2
      <4>2. QED
        BY <4>1 DEF Closed
    <3>3. Subtree(g, c) \subseteq C \cup B
      BY <1>1, <2>1, <2>2, <3>2, SubtreeIs
    <3>4. QED
      BY <2>3, <3>1, <3>3
  <2>6. QED
    BY <2>4, <2>5
<1>4. ASSUME NEW q \in g.exist, NEW c \in ToSet(g.kids[q]) PROVE q \notin Subtree(g, c)
  <2>1. CASE c \in ToSet(h.kids[q])
    BY <1>3, <2>1
  <2>2. CASE c \notin ToSet(h.kids[q])
    <3>1. q = p /\ c = o
      BY <2>2
    <3>2. QED
      BY <3>1, <1>2
  <2>3. QED
    BY <2>1, <2>2
<1>5. QED
  BY <1>4

(* Nor when children are only lost, with their objects or without.         *)
LEMMA AcyclicLess ==
  ASSUME NEW h, NEW g, Forest(h), g.exist \subseteq h.exist, Closed(g, g.exist),
         \A x \in g.exist : ToSet(g.kids[x]) \subseteq ToSet(h.kids[x])
  PROVE  \A q \in g.exist : \A c \in ToSet(g.kids[q]) : q \notin Subtree(g, c)
<1>1. ASSUME NEW q \in g.exist, NEW c \in ToSet(g.kids[q]) PROVE q \notin Subtree(g, c)
  <2>1. c \in g.exist /\ c \in ToSet(h.kids[q])
    BY DEF Closed
  <2>2. Closed(h, h.exist) /\ q \notin Subtree(h, c)
    BY <2>1 DEF Forest
  <2>3. Subtree(g, c) \subseteq Subtree(h, c)
    BY <2>1, <2>2, SubtreeLess
  <2>4. QED
    BY <2>2, <2>3
<1>2. QED
  BY <1>1

(***************************************************************************)
(* What each operation does to a heap.                                     *)
(***************************************************************************)

(* What is left without the objects of gone.                               *)
Spared(h, g, gone) ==
  /\ g \in HeapType
  /\ g.exist = h.exist \ gone
  /\ \A p \in Objects :
       IF p \in gone THEN g.kids[p] = <<>> /\ g.name[p] = None /\ g.whash[p] = None
       ELSE /\ ToSet(g.kids[p]) = ToSet(h.kids[p]) \cap (Objects \ gone)
            /\ g.name[p] = h.name[p] /\ g.whash[p] = h.whash[p]
  /\ \A w \in Wrappers :
       LET x == h.wrap[w]
           y == g.wrap[w]
       IN IF x.obj \notin gone THEN y = x
          ELSE IF x.count = 1 THEN y = Blank
          ELSE y.obj = None /\ y.count = x.count - 1 /\ y.conns = <<>> /\ y.slots = x.slots

LEMMA DestroyedIs ==
  ASSUME NEW h \in HeapType, NEW gone \in SUBSET h.exist,
         \A w \in Wrappers : h.wrap[w].obj \in gone => h.wrap[w].count # 0
  PROVE  Spared(h, Destroyed(h, gone), gone)
<1> DEFINE g == Destroyed(h, gone)
           K == [p \in Objects |-> IF p \in gone THEN <<>> ELSE Kept(h.kids[p], Objects \ gone)]
           N == [p \in Objects |-> IF p \in gone THEN None ELSE h.name[p]]
           H == [p \in Objects |-> IF p \in gone THEN None ELSE h.whash[p]]
           W == [w \in Wrappers |->
                   IF h.wrap[w].obj \notin gone THEN h.wrap[w]
                   ELSE IF h.wrap[w].count = 1 THEN Blank
                   ELSE [h.wrap[w] EXCEPT !.obj = None, !.count = @ - 1, !.conns = <<>>]]
<1>1. \A p \in Objects : h.kids[p] \in Seq(Objects)
  BY DEF HeapType
<1>2. \A p \in Objects : /\ Kept(h.kids[p], Objects \ gone) \in Seq(Objects)
                         /\ ToSet(Kept(h.kids[p], Objects \ gone)) = ToSet(h.kids[p]) \cap (Objects \ gone)
  BY <1>1, KeptIs
<1>3. K \in [Objects -> Seq(Objects)]
  <2>1. <<>> \in Seq(Objects)
    OBVIOUS
  <2>2. \A p \in Objects : K[p] \in Seq(Objects)
    BY <1>2, <2>1
  <2>3. QED
    BY <2>2
<1>4. N \in [Objects -> Names \cup {None}] /\ H \in [Objects -> Wrappers \cup {None}]
  BY DEF HeapType
<1>5. ASSUME NEW w \in Wrappers PROVE W[w] \in WrapType
  <2>1. h.wrap[w] \in WrapType
    BY DEF HeapType
  <2>2. Blank \in WrapType
    BY BlankType
  <2>3. <<>> \in Seq(Conn)
    OBVIOUS
  <2>4. ASSUME h.wrap[w].obj \in gone
        PROVE  [h.wrap[w] EXCEPT !.obj = None, !.count = @ - 1, !.conns = <<>>] \in WrapType
    <3>1. h.wrap[w].count - 1 \in Nat
      BY <2>1, <2>4 DEF WrapType
    <3>2. QED
      BY <2>1, <2>3, <3>1 DEF WrapType
  <2>5. QED
    BY <2>1, <2>2, <2>4
<1>6. W \in [Wrappers -> WrapType]
  BY <1>5
<1>7. g = [exist |-> h.exist \ gone, kids |-> K, name |-> N, whash |-> H, wrap |-> W]
  <2>1. h = [exist |-> h.exist, kids |-> h.kids, name |-> h.name, whash |-> h.whash, wrap |-> h.wrap]
    BY DEF HeapType
  <2>2. g = [h EXCEPT !.exist = h.exist \ gone, !.kids = K, !.name = N, !.whash = H, !.wrap = W]
    BY Zenon DEF Destroyed
  <2> HIDE DEF g, K, N, H, W
  <2>3. QED
    BY <2>1, <2>2
<1> HIDE DEF g
<1>8. g \in HeapType
  <2>1. h.exist \in SUBSET Objects
    BY DEF HeapType
  <2>2. QED
    BY ONLY <1>3, <1>4, <1>6, <1>7, <2>1 DEF HeapType
<1>9. ASSUME NEW w \in Wrappers
      PROVE  LET x == h.wrap[w]
                 y == g.wrap[w]
             IN IF x.obj \notin gone THEN y = x
                ELSE IF x.count = 1 THEN y = Blank
                ELSE y.obj = None /\ y.count = x.count - 1 /\ y.conns = <<>> /\ y.slots = x.slots
  <2>1. h.wrap[w] \in WrapType
    BY DEF HeapType
  <2>2. g.wrap[w] = W[w]
    BY <1>7
  <2>3. QED
    BY <2>1, <2>2 DEF WrapType
<1>10. \A p \in Objects :
         IF p \in gone THEN g.kids[p] = <<>> /\ g.name[p] = None /\ g.whash[p] = None
         ELSE /\ ToSet(g.kids[p]) = ToSet(h.kids[p]) \cap (Objects \ gone)
              /\ g.name[p] = h.name[p] /\ g.whash[p] = h.whash[p]
  BY <1>2, <1>7
<1>11. g.exist = h.exist \ gone
  BY <1>7
<1>12. QED
  BY <1>8, <1>9, <1>10, <1>11 DEF g, Spared

(* o has become the last child of p, or nobody's, and is no other's.       *)
Moved(h, g, o, p) ==
  /\ g \in HeapType
  /\ g.exist = h.exist /\ g.name = h.name /\ g.whash = h.whash /\ g.wrap = h.wrap
  /\ \A x \in Objects : \A c : c \in ToSet(g.kids[x]) <=>
       (c # o /\ c \in ToSet(h.kids[x])) \/ (c = o /\ x = p)

LEMMA SetParentIs ==
  ASSUME NEW h \in HeapType, NEW o \in Objects, NEW p \in Objects \cup {None}
  PROVE  Moved(h, SetParent(h, o, p), o, p)
<1> DEFINE g == SetParent(h, o, p)
           K == [q \in Objects |-> Kept(h.kids[q], Objects \ {o})]
           L == IF p = None THEN K ELSE [K EXCEPT ![p] = Append(@, o)]
<1>1. \A q \in Objects : h.kids[q] \in Seq(Objects)
  BY DEF HeapType
<1>2. \A q \in Objects : K[q] \in Seq(Objects) /\ ToSet(K[q]) = ToSet(h.kids[q]) \cap (Objects \ {o})
  BY <1>1, KeptIs
<1>3. \A q \in Objects : ToSet(h.kids[q]) \subseteq Objects
  <2>1. ASSUME NEW q \in Objects PROVE ToSet(h.kids[q]) \subseteq Objects
    BY <1>1, ElementOfSeq, LenProperties DEF ToSet
  <2>2. QED
    BY <2>1
<1>4. \A q \in Objects : /\ Append(K[q], o) \in Seq(Objects)
                         /\ ToSet(Append(K[q], o)) = ToSet(K[q]) \cup {o}
  <2>1. ASSUME NEW q \in Objects
        PROVE  Append(K[q], o) \in Seq(Objects) /\ ToSet(Append(K[q], o)) = ToSet(K[q]) \cup {o}
    <3> DEFINE s == K[q]
    <3>1. s \in Seq(Objects)
      BY <1>2
    <3> HIDE DEF s
    <3>2. PICK m \in Nat : Len(s) = m /\ DOMAIN s = 1 .. m
      BY <3>1
    <3>3. /\ Append(s, o) \in Seq(Objects) /\ DOMAIN Append(s, o) = 1 .. m + 1
          /\ \A i \in 1 .. m : Append(s, o)[i] = s[i]
          /\ Append(s, o)[m + 1] = o
      BY <3>1, <3>2, AppendProperties
    <3>4. ToSet(Append(s, o)) = ToSet(s) \cup {o}
      <4>1. \A i \in 1 .. m + 1 : i \in 1 .. m \/ i = m + 1
        OBVIOUS
      <4>2. 1 .. m \subseteq 1 .. m + 1 /\ m + 1 \in 1 .. m + 1
        OBVIOUS
      <4>3. QED
        BY <3>2, <3>3, <4>1, <4>2 DEF ToSet
    <3>5. QED
      BY <3>3, <3>4 DEF s
  <2>2. QED
    BY <2>1
<1> HIDE DEF K
<1>5. K \in [Objects -> Seq(Objects)]
  BY <1>2 DEF K
<1>6. L \in [Objects -> Seq(Objects)]
  BY <1>4, <1>5
<1>7. g = [exist |-> h.exist, kids |-> L, name |-> h.name, whash |-> h.whash, wrap |-> h.wrap]
  BY DEF SetParent, K, HeapType
<1>8. g \in HeapType
  BY <1>6, <1>7 DEF HeapType
<1>9. \A q \in Objects : \A c : c \in ToSet(g.kids[q]) <=>
        (c # o /\ c \in ToSet(h.kids[q])) \/ (c = o /\ q = p)
  <2>1. None \notin Objects
    BY WrapperAssumption
  <2>2. ASSUME NEW q \in Objects
        PROVE  \A c : c \in ToSet(g.kids[q]) <=> (c # o /\ c \in ToSet(h.kids[q])) \/ (c = o /\ q = p)
    <3>1. g.kids[q] = IF q = p THEN Append(K[q], o) ELSE K[q]
      BY <1>5, <1>7, <2>1
    <3>2. \A c : c \in ToSet(K[q]) <=> c # o /\ c \in ToSet(h.kids[q])
      BY <1>2, <1>3
    <3>3. CASE q = p
      <4>1. ToSet(g.kids[q]) = ToSet(K[q]) \cup {o}
        BY <1>4, <3>1, <3>3
      <4>2. QED
        BY <3>2, <3>3, <4>1
    <3>4. CASE q # p
      BY <3>1, <3>2, <3>4
    <3>5. QED
      BY <3>3, <3>4
  <2>3. QED
    BY <2>2
<1> HIDE DEF g
<1>10. Moved(h, g, o, p)
  BY <1>7, <1>8, <1>9 DEF Moved
<1>11. QED
  BY <1>10 DEF g

(***************************************************************************)
(* Each operation leaves a heap that is good.                              *)
(***************************************************************************)

(* What a user of a wrapper relies on: it goes on with its QObject or with *)
(* none, and with its slots.                                               *)
Follows(h, g, r) ==
  \A w \in Wrappers : r[w] > 0 =>
    g.wrap[w].obj \in {h.wrap[w].obj, None} /\ g.wrap[w].slots = h.wrap[w].slots

LEMMA WrapperType ==
  ASSUME NEW h \in HeapType, NEW w \in Wrappers
  PROVE  /\ h.wrap[w] \in WrapType
         /\ h.wrap[w].obj \in Objects \cup {None} /\ h.wrap[w].count \in Nat
         /\ h.wrap[w].next \in Nat /\ h.wrap[w].delete \in BOOLEAN /\ h.wrap[w].reparent \in BOOLEAN
         /\ h.wrap[w].conns \in Seq(Conn) /\ h.wrap[w].slots \in SlotMaps
BY DEF HeapType, WrapType

LEMMA GoodDestroyed ==
  ASSUME NEW h, NEW r \in Refs, Good(h, r), NEW gone \in SUBSET h.exist, Closed(h, gone)
  PROVE  Good(Destroyed(h, gone), r) /\ Follows(h, Destroyed(h, gone), r)
<1> DEFINE g == Destroyed(h, gone)
<1>0. /\ h \in HeapType /\ None \notin h.exist /\ h.exist \subseteq Objects
      /\ None \notin Objects
  BY WrapperAssumption DEF Good, Sound, HeapType
<1>1. \A w \in Wrappers : /\ h.wrap[w].count \in Nat /\ r[w] \in Nat
                          /\ h.wrap[w].obj # None => h.wrap[w].count = r[w] + 1
                          /\ h.wrap[w].obj = None => h.wrap[w].count = r[w]
  BY <1>0, WrapperType DEF Good, Counted, Refs
<1>2. \A w \in Wrappers : h.wrap[w].obj \in gone => h.wrap[w].obj # None /\ h.wrap[w].count # 0
  BY <1>0, <1>1
<1>3. /\ g \in HeapType
      /\ g.exist = h.exist \ gone
      /\ \A p \in Objects :
           IF p \in gone THEN g.kids[p] = <<>> /\ g.name[p] = None /\ g.whash[p] = None
           ELSE /\ ToSet(g.kids[p]) = ToSet(h.kids[p]) \cap (Objects \ gone)
                /\ g.name[p] = h.name[p] /\ g.whash[p] = h.whash[p]
      /\ \A w \in Wrappers :
           LET x == h.wrap[w]
               y == g.wrap[w]
           IN IF x.obj \notin gone THEN y = x
              ELSE IF x.count = 1 THEN y = Blank
              ELSE y.obj = None /\ y.count = x.count - 1 /\ y.conns = <<>> /\ y.slots = x.slots
  <2>1. Spared(h, g, gone)
    BY <1>0, <1>2, DestroyedIs
  <2>2. QED
    BY <2>1 DEF Spared
<1> HIDE DEF g
<1>4. Counted(g, r)
  <2>1. ASSUME NEW w \in Wrappers
        PROVE  g.wrap[w].count = r[w] + (IF g.wrap[w].obj # None THEN 1 ELSE 0)
    <3>1. CASE h.wrap[w].obj \notin gone
      BY <1>1, <1>3, <3>1
    <3>2. CASE h.wrap[w].obj \in gone /\ h.wrap[w].count = 1
      BY <1>1, <1>2, <1>3, <3>2, BlankType
    <3>3. CASE h.wrap[w].obj \in gone /\ h.wrap[w].count # 1
      BY <1>1, <1>2, <1>3, <3>3
    <3>4. QED
      BY <3>1, <3>2, <3>3
  <2>2. QED
    BY <2>1 DEF Counted
<1>5. \A w \in Wrappers : g.wrap[w].obj # None => g.wrap[w] = h.wrap[w] /\ h.wrap[w].obj \notin gone
  BY <1>3, BlankType
<1>6. \A w \in Wrappers : h.wrap[w].obj \in gone => g.wrap[w].obj = None
  BY <1>3, BlankType
<1>7. Hashed(g)
  <2>1. \A w \in Wrappers : g.wrap[w].obj \in g.exist \cup {None}
    BY <1>3, <1>5 DEF Good, Sound, Hashed
  <2>2. ASSUME NEW o \in Objects, NEW w \in Wrappers PROVE g.whash[o] = w <=> g.wrap[w].obj = o
    <3>1. h.whash[o] = w <=> h.wrap[w].obj = o
      BY DEF Good, Sound, Hashed
    <3>2. w # None /\ o # None
      BY WrapperAssumption
    <3>3. CASE o \in gone
      BY <1>3, <1>5, <3>2, <3>3
    <3>4. CASE o \notin gone
      <4>1. g.whash[o] = h.whash[o]
        BY <1>3, <3>4
      <4>2. CASE h.wrap[w].obj = o
        BY <1>3, <3>1, <3>4, <4>1, <4>2
      <4>3. CASE h.wrap[w].obj # o
        BY <1>5, <3>1, <3>2, <4>1, <4>3
      <4>4. QED
        BY <4>2, <4>3
    <3>5. QED
      BY <3>3, <3>4
  <2>3. QED
    BY <2>1, <2>2 DEF Hashed
<1>8. Slotted(g)
  <2>1. ASSUME NEW w \in Wrappers PROVE Wired(g.wrap[w])
    <3>1. Wired(h.wrap[w])
      BY DEF Good, Sound, Slotted
    <3>2. CASE h.wrap[w].obj \notin gone
      BY <1>3, <3>1, <3>2
    <3>3. CASE h.wrap[w].obj \in gone
      BY <1>3, <3>3, BlankType DEF Wired
    <3>4. QED
      BY <3>2, <3>3
  <2>2. QED
    BY <2>1 DEF Slotted
<1>9. Closed(g, g.exist)
  <2>1. ASSUME NEW x \in g.exist, NEW c \in ToSet(g.kids[x]) PROVE c \in g.exist
    <3>1. x \in Objects /\ x \notin gone /\ x \in h.exist
      BY <1>0, <1>3
    <3>2. c \in ToSet(h.kids[x]) /\ c \notin gone
      BY <1>3, <3>1
    <3>3. c \in h.exist
      BY <3>1, <3>2 DEF Good, Sound, Forest, Closed
    <3>4. QED
      BY <1>3, <3>2, <3>3
  <2>2. QED
    BY <2>1 DEF Closed
<1>10. \A x \in g.exist : x \in h.exist /\ x \notin gone /\ ToSet(g.kids[x]) \subseteq ToSet(h.kids[x])
  BY <1>0, <1>3
<1>11. Forest(g)
  <2>1. \A p \in g.exist : \A c \in ToSet(g.kids[p]) : p \notin Subtree(g, c)
    BY <1>3, <1>9, <1>10, AcyclicLess DEF Good, Sound
  <2>2. ASSUME NEW x \in Objects, x \notin g.exist PROVE g.kids[x] = <<>> /\ g.name[x] = None
    <3>1. CASE x \in gone
      BY <1>3, <3>1
    <3>2. CASE x \notin gone
      <4>1. x \notin h.exist
        BY <1>3, <2>2, <3>2
      <4>2. h.kids[x] = <<>> /\ h.name[x] = None
        BY <4>1 DEF Good, Sound, Forest
      <4>3. ToSet(g.kids[x]) = {}
        BY <1>3, <3>2, <4>2, NoEntries
      <4>4. g.kids[x] \in Seq(Objects)
        BY <1>3 DEF HeapType
      <4>6. g.kids[x] = <<>>
        BY <4>3, <4>4, NoEntries
      <4>7. QED
        BY <1>3, <3>2, <4>2, <4>6
    <3>3. QED
      BY <3>1, <3>2
  <2>3. QED
    BY <1>9, <2>1, <2>2 DEF Forest
<1>12. Named(g)
  <2>1. ASSUME NEW p \in g.exist, NEW c \in ToSet(g.kids[p]), NEW d \in ToSet(g.kids[p]),
               g.name[c] = g.name[d], g.name[c] # None
        PROVE  c = d
    <3>1. c \in g.exist /\ d \in g.exist
      BY <1>9 DEF Closed
    <3>2. g.name[c] = h.name[c] /\ g.name[d] = h.name[d]
      BY <1>0, <1>3, <1>10, <3>1
    <3>3. p \in h.exist /\ c \in ToSet(h.kids[p]) /\ d \in ToSet(h.kids[p])
      BY <1>10
    <3>4. QED
      BY <2>1, <3>2, <3>3 DEF Good, Sound, Named
  <2>2. QED
    BY <2>1 DEF Named
<1>13. Owned(g, r)
  <2>1. ASSUME NEW w \in Wrappers, g.wrap[w].obj # None, g.wrap[w].delete,
               Alone(g, g.wrap[w].obj), r[w] = 0
        PROVE  FALSE
    <3> DEFINE o == g.wrap[w].obj
    <3>1. g.wrap[w] = h.wrap[w] /\ o \notin gone /\ o \in Objects
      BY <1>5, <2>1, <1>0, WrapperType
    <3>2. Alone(h, o)
      <4>1. ASSUME NEW p \in h.exist, o \in ToSet(h.kids[p]) PROVE FALSE
        <5>1. p \notin gone
          BY <3>1, <4>1 DEF Closed
        <5>2. o \in ToSet(g.kids[p])
          BY <1>0, <1>3, <3>1, <4>1, <5>1
        <5>3. QED
          BY <1>3, <2>1, <5>1, <5>2 DEF Alone
      <4>2. QED
        BY <4>1 DEF Alone
    <3>3. QED
      BY <2>1, <3>1, <3>2 DEF Good, Owned
  <2>2. QED
    BY <2>1 DEF Owned
<1>14. Follows(h, g, r)
  <2>1. ASSUME NEW w \in Wrappers, r[w] > 0
        PROVE  g.wrap[w].obj \in {h.wrap[w].obj, None} /\ g.wrap[w].slots = h.wrap[w].slots
    BY <1>1, <1>2, <1>3, <2>1
  <2>2. QED
    BY <2>1 DEF Follows
<1>15. QED
  BY <1>3, <1>4, <1>7, <1>8, <1>11, <1>12, <1>13, <1>14 DEF Good, Sound, g

LEMMA PutParent ==
  ASSUME NEW h \in HeapType, NEW r \in Refs, Hashed(h), Slotted(h), Forest(h), Counted(h, r), Owned(h, r),
         NEW o \in h.exist, NamedBut(h, o), NEW p \in h.exist \cup {None},
         p # None => p \notin Subtree(h, o),
         p # None => \A c \in ToSet(h.kids[p]) : c # o => h.name[o] = None \/ h.name[c] # h.name[o],
         p = None => \A w \in Wrappers : h.wrap[w].obj = o /\ h.wrap[w].delete => r[w] > 0
  PROVE  Good(SetParent(h, o, p), r)
<1> DEFINE g == SetParent(h, o, p)
<1>0. /\ h \in HeapType /\ None \notin h.exist /\ h.exist \subseteq Objects
      /\ None \notin Objects /\ Closed(h, h.exist)
  BY WrapperAssumption DEF HeapType, Forest
<1>1. /\ g \in HeapType
      /\ g.exist = h.exist /\ g.name = h.name /\ g.whash = h.whash /\ g.wrap = h.wrap
      /\ \A x \in Objects : \A c : c \in ToSet(g.kids[x]) <=>
           (c # o /\ c \in ToSet(h.kids[x])) \/ (c = o /\ x = p)
  <2>1. o \in Objects /\ p \in Objects \cup {None}
    BY <1>0
  <2>2. h \in HeapType
    BY <1>0
  <2>3. QED
    BY <2>1, <2>2, SetParentIs DEF Moved
<1> HIDE DEF g
<1>2. Counted(g, r) /\ Hashed(g) /\ Slotted(g)
  BY <1>1 DEF Counted, Hashed, Slotted
<1>3. Closed(g, g.exist)
  <2>1. ASSUME NEW x \in g.exist, NEW c \in ToSet(g.kids[x]) PROVE c \in g.exist
    BY <1>0, <1>1 DEF Closed
  <2>2. QED
    BY <2>1 DEF Closed
<1>4. \A q \in g.exist : \A c \in ToSet(g.kids[q]) : q \notin Subtree(g, c)
  <2>1. CASE p = None
    <3>1. \A q \in g.exist : ToSet(g.kids[q]) \subseteq ToSet(h.kids[q])
      BY <1>0, <1>1, <2>1
    <3>2. QED
      BY <1>1, <1>3, <3>1, AcyclicLess
  <2>2. CASE p # None
    <3>1. p \in h.exist /\ p \notin Subtree(h, o)
      BY <2>2
    <3>2. /\ \A x \in h.exist : x # p => ToSet(g.kids[x]) \subseteq ToSet(h.kids[x])
          /\ ToSet(g.kids[p]) \subseteq ToSet(h.kids[p]) \cup {o}
      BY <1>0, <1>1, <3>1
    <3>4. QED
      BY <1>1, <1>3, <3>1, <3>2, AcyclicPut
  <2>3. QED
    BY <2>1, <2>2
<1>5. ASSUME NEW x \in Objects, x \notin g.exist PROVE g.kids[x] = <<>> /\ g.name[x] = None
  <2>1. h.kids[x] = <<>> /\ h.name[x] = None /\ x # p
    BY <1>1, <1>5, <1>0 DEF Forest
  <2>2. ToSet(g.kids[x]) = {}
    BY <1>1, <2>1, NoEntries
  <2>3. g.kids[x] \in Seq(Objects)
    BY <1>1 DEF HeapType
  <2>4. QED
    BY <1>1, <2>1, <2>2, <2>3, NoEntries
<1>6. Forest(g)
  BY <1>3, <1>4, <1>5 DEF Forest
<1>7. Named(g)
  <2>1. ASSUME NEW q \in g.exist, NEW c \in ToSet(g.kids[q]), NEW d \in ToSet(g.kids[q]),
               g.name[c] = g.name[d], g.name[c] # None
        PROVE  c = d
    <3>1. h.name[c] = h.name[d] /\ h.name[c] # None /\ q \in h.exist /\ q \in Objects
      BY <1>0, <1>1, <2>1
    <3>2. CASE c # o /\ d # o
      BY <1>1, <3>1, <3>2 DEF NamedBut
    <3>3. CASE c = o /\ d # o
      BY <1>0, <1>1, <3>1, <3>3
    <3>4. CASE c # o /\ d = o
      BY <1>0, <1>1, <3>1, <3>4
    <3>5. QED
      BY <3>2, <3>3, <3>4
  <2>2. QED
    BY <2>1 DEF Named
<1>8. Owned(g, r)
  <2>1. ASSUME NEW w \in Wrappers, g.wrap[w].obj # None, g.wrap[w].delete,
               Alone(g, g.wrap[w].obj), r[w] = 0
        PROVE  FALSE
    <3> DEFINE x == h.wrap[w].obj
    <3>1. x # None /\ h.wrap[w].delete /\ Alone(g, x) /\ x \in Objects
      BY <1>0, <1>1, <2>1, WrapperType
    <3>2. CASE x = o /\ p = None
      BY <2>1, <3>1, <3>2 DEF Refs
    <3>3. CASE x = o /\ p # None
      BY <1>0, <1>1, <3>1, <3>3 DEF Alone
    <3>4. CASE x # o
      <4>1. Alone(h, x)
        BY <1>0, <1>1, <3>1, <3>4 DEF Alone
      <4>2. QED
        BY <2>1, <3>1, <4>1 DEF Owned
    <3>5. QED
      BY <3>2, <3>3, <3>4
  <2>2. QED
    BY <2>1 DEF Owned
<1>9. QED
  BY <1>1, <1>2, <1>6, <1>7, <1>8 DEF Good, Sound, g

LEMMA GoodSetParent ==
  ASSUME NEW h, NEW r \in Refs, Good(h, r), NEW o \in h.exist, NEW p \in h.exist \cup {None},
         p # None => p \notin Subtree(h, o),
         p # None => \A c \in ToSet(h.kids[p]) : c # o => h.name[o] = None \/ h.name[c] # h.name[o],
         p = None => \A w \in Wrappers : h.wrap[w].obj = o /\ h.wrap[w].delete => r[w] > 0
  PROVE  Good(SetParent(h, o, p), r)
<1>1. /\ h \in HeapType /\ Hashed(h) /\ Slotted(h) /\ Forest(h)
      /\ Counted(h, r) /\ Owned(h, r) /\ NamedBut(h, o)
  BY DEF Good, Sound, Named, NamedBut
<1>2. QED
  BY <1>1, PutParent

(* One wrapper changes, but for its QObject.                               *)
LEMMA SoundWrap ==
  ASSUME NEW h, Sound(h), NEW w \in Wrappers, NEW y \in WrapType, y.obj = h.wrap[w].obj, Wired(y)
  PROVE  LET g == [h EXCEPT !.wrap[w] = y] IN
         /\ Sound(g)
         /\ g.exist = h.exist /\ g.kids = h.kids /\ g.name = h.name /\ g.whash = h.whash
         /\ g.wrap[w] = y /\ \A x \in Wrappers : x # w => g.wrap[x] = h.wrap[x]
<1> DEFINE g == [h EXCEPT !.wrap[w] = y]
<1>0. h \in HeapType
  BY DEF Sound
<1>1. /\ g \in HeapType
      /\ g.exist = h.exist /\ g.kids = h.kids /\ g.name = h.name /\ g.whash = h.whash
      /\ g.wrap[w] = y /\ \A x \in Wrappers : x # w => g.wrap[x] = h.wrap[x]
  BY <1>0 DEF HeapType
<1> HIDE DEF g
<1>2. \A x \in Wrappers : g.wrap[x].obj = h.wrap[x].obj
  BY <1>1
<1>3. Hashed(g)
  BY <1>1, <1>2 DEF Sound, Hashed
<1>4. Slotted(g)
  BY <1>1 DEF Sound, Slotted
<1>5. Forest(g)
  <2>1. \A c : Subtree(g, c) = Subtree(h, c)
    BY <1>1, SubtreeSame
  <2>2. QED
    BY <1>1, <2>1 DEF Sound, Forest, Closed
<1>6. Named(g)
  BY <1>1 DEF Sound, Named
<1>7. QED
  BY <1>1, <1>3, <1>4, <1>5, <1>6 DEF Sound, g

(* Only the counts and the flags of a wrapper change.                      *)
LEMMA GoodCount ==
  ASSUME NEW h, Sound(h), NEW w \in Wrappers, NEW r \in Refs, NEW y \in WrapType,
         y.obj = h.wrap[w].obj, y.slots = h.wrap[w].slots, y.conns = h.wrap[w].conns,
         y.count = r[w] + (IF y.obj # None THEN 1 ELSE 0),
         ~ (y.obj # None /\ y.delete /\ Alone(h, y.obj) /\ r[w] = 0),
         \A x \in Wrappers : x # w =>
           /\ h.wrap[x].count = r[x] + (IF h.wrap[x].obj # None THEN 1 ELSE 0)
           /\ ~ (h.wrap[x].obj # None /\ h.wrap[x].delete /\ Alone(h, h.wrap[x].obj) /\ r[x] = 0)
  PROVE  Good([h EXCEPT !.wrap[w] = y], r) /\ Follows(h, [h EXCEPT !.wrap[w] = y], r)
<1> DEFINE g == [h EXCEPT !.wrap[w] = y]
<1>1. Wired(y)
  BY DEF Sound, Slotted, Wired
<1>2. /\ Sound(g)
      /\ g.exist = h.exist /\ g.kids = h.kids /\ g.name = h.name /\ g.whash = h.whash
      /\ g.wrap[w] = y /\ \A x \in Wrappers : x # w => g.wrap[x] = h.wrap[x]
  BY <1>1, SoundWrap
<1> HIDE DEF g
<1>3. Counted(g, r)
  BY <1>2 DEF Counted
<1>4. \A o : Alone(g, o) <=> Alone(h, o)
  BY <1>2 DEF Alone
<1>5. Owned(g, r)
  BY <1>2, <1>4 DEF Owned
<1>6. Follows(h, g, r)
  BY <1>2 DEF Follows
<1>7. QED
  BY <1>2, <1>3, <1>5, <1>6 DEF Good, g

(* A wrapper that is freed leaves the hash.                                *)
Unwrapped(h, w) ==
  [h EXCEPT !.wrap[w] = Blank,
            !.whash = [p \in Objects |-> IF p = h.wrap[w].obj THEN None ELSE h.whash[p]]]

LEMMA UnwrappedIs ==
  ASSUME NEW h, NEW w \in Wrappers, Sound(h)
  PROVE  LET g == Unwrapped(h, w) IN
         /\ Sound(g)
         /\ g.exist = h.exist /\ g.kids = h.kids /\ g.name = h.name
         /\ g.wrap[w] = Blank /\ \A x \in Wrappers : x # w => g.wrap[x] = h.wrap[x]
<1> DEFINE g == Unwrapped(h, w)
           H == [p \in Objects |-> IF p = h.wrap[w].obj THEN None ELSE h.whash[p]]
<1>0. h \in HeapType /\ Blank \in WrapType /\ Wired(Blank) /\ Blank.obj = None
  BY BlankType DEF Sound
<1>1. H \in [Objects -> Wrappers \cup {None}]
  BY <1>0 DEF HeapType
<1>2. g = [h EXCEPT !.wrap[w] = Blank, !.whash = H]
  BY DEF Unwrapped
<1>a. \A p \in Objects : H[p] = IF p = h.wrap[w].obj THEN None ELSE h.whash[p]
  OBVIOUS
<1> HIDE DEF g, H
<1>3. /\ g \in HeapType
      /\ g.exist = h.exist /\ g.kids = h.kids /\ g.name = h.name /\ g.whash = H
      /\ g.wrap[w] = Blank /\ \A x \in Wrappers : x # w => g.wrap[x] = h.wrap[x]
  BY <1>0, <1>1, <1>2 DEF HeapType
<1>4. Hashed(g)
  <2>1. \A x \in Wrappers : g.wrap[x].obj \in g.exist \cup {None}
    BY <1>0, <1>3 DEF Sound, Hashed
  <2>2. ASSUME NEW o \in Objects, NEW x \in Wrappers PROVE g.whash[o] = x <=> g.wrap[x].obj = o
    <3>1. h.whash[o] = x <=> h.wrap[x].obj = o
      BY DEF Sound, Hashed
    <3>2. h.whash[o] = w <=> h.wrap[w].obj = o
      BY DEF Sound, Hashed
    <3>3. x # None /\ o # None
      BY WrapperAssumption
    <3>4. QED
      BY <1>0, <1>3, <1>a, <3>1, <3>2, <3>3
  <2>3. QED
    BY <2>1, <2>2 DEF Hashed
<1>5. Slotted(g)
  BY <1>0, <1>3 DEF Sound, Slotted
<1>6. Forest(g)
  <2>1. \A c : Subtree(g, c) = Subtree(h, c)
    BY <1>3, SubtreeSame
  <2>2. QED
    BY <1>3, <2>1 DEF Sound, Forest, Closed
<1>7. Named(g)
  BY <1>3 DEF Sound, Named
<1>8. QED
  BY <1>3, <1>4, <1>5, <1>6, <1>7 DEF Sound, g

(* A wrapper that nothing refers to is freed, and its QObject with it when *)
(* it is the one to delete it; nothing else is lost.                       *)
LEMMA GoodFreed ==
  ASSUME NEW h, NEW r \in Refs, Sound(h), NEW w \in Wrappers, r[w] = 0,
         \A x \in Wrappers : x # w =>
           /\ h.wrap[x].count = r[x] + (IF h.wrap[x].obj # None THEN 1 ELSE 0)
           /\ ~ (h.wrap[x].obj # None /\ h.wrap[x].delete /\ Alone(h, h.wrap[x].obj) /\ r[x] = 0)
  PROVE  /\ Good(Freed(h, w), r)
         /\ Follows(h, Freed(h, w), r)
         /\ \/ /\ h.wrap[w].obj # None /\ parent(h, h.wrap[w].obj) = None /\ h.wrap[w].delete
               /\ Freed(h, w) = Destroyed(Unwrapped(h, w), Subtree(h, h.wrap[w].obj))
            \/ Freed(h, w) = Unwrapped(h, w)
<1> DEFINE o == h.wrap[w].obj
           g == Unwrapped(h, w)
<1>1. /\ Sound(g)
      /\ g.exist = h.exist /\ g.kids = h.kids /\ g.name = h.name
      /\ g.wrap[w] = Blank /\ \A x \in Wrappers : x # w => g.wrap[x] = h.wrap[x]
  BY UnwrappedIs
<1>2. Subtree(g, o) = Subtree(h, o)
  BY <1>1, SubtreeSame
<1>3. Freed(h, w) = IF o # None /\ parent(h, o) = None /\ h.wrap[w].delete
                      THEN Destroyed(g, Subtree(h, o)) ELSE g
  BY <1>2 DEF Freed, Unwrapped
<1> HIDE DEF g
<1>4. Good(g, r)
  <2>1. Counted(g, r)
    BY <1>1, BlankType DEF Counted
  <2>2. \A x : Alone(g, x) <=> Alone(h, x)
    BY <1>1 DEF Alone
  <2>3. Owned(g, r)
    BY <1>1, <2>2, BlankType DEF Owned
  <2>4. QED
    BY <1>1, <2>1, <2>3 DEF Good
<1>5. Follows(h, g, r)
  BY <1>1 DEF Follows
<1>6. CASE o # None /\ parent(h, o) = None /\ h.wrap[w].delete
  <2>1. o \in h.exist
    BY <1>6 DEF Sound, Hashed
  <2>2. Closed(h, h.exist)
    BY DEF Sound, Forest
  <2>3. Subtree(h, o) \in SUBSET g.exist /\ Closed(g, Subtree(h, o))
    BY <1>1, <2>1, <2>2, SubtreeIs DEF Closed
  <2>4. Good(Destroyed(g, Subtree(h, o)), r) /\ Follows(g, Destroyed(g, Subtree(h, o)), r)
    BY <1>4, <2>3, GoodDestroyed
  <2>5. Follows(h, Destroyed(g, Subtree(h, o)), r)
    BY <1>5, <2>4 DEF Follows
  <2>6. QED
    BY <1>3, <1>6, <2>4, <2>5 DEF g
<1>7. CASE ~ (o # None /\ parent(h, o) = None /\ h.wrap[w].delete)
  BY <1>3, <1>4, <1>5, <1>7 DEF g
<1>8. QED
  BY <1>6, <1>7

(* The reference that is dropped is counted no more.                       *)
LEMMA GoodDropped ==
  ASSUME NEW h, NEW q \in Refs, Good(h, q), NEW w \in Wrappers, q[w] > 0
  PROVE  /\ Minus(q, w) \in Refs
         /\ Good(Dropped(h, w), Minus(q, w)) /\ Follows(h, Dropped(h, w), Minus(q, w))
         /\ \/ /\ Dropped(h, w) = Freed(h, w) /\ Minus(q, w)[w] = 0
            \/ Dropped(h, w) = [h EXCEPT !.wrap[w].count = @ - 1]
<1> DEFINE r == Minus(q, w)
           o == h.wrap[w].obj
           n == h.wrap[w].count - 1
           single == n = 1 /\ o # None /\ parent(h, o) = None /\ h.wrap[w].delete
<1>1. r \in Refs /\ r[w] = q[w] - 1 /\ r[w] \in Nat /\ \A x \in Wrappers : x # w => r[x] = q[x]
  BY DEF Refs, Minus
<1>2. h.wrap[w].count \in Nat /\ h.wrap[w].count = q[w] + (IF o # None THEN 1 ELSE 0) /\ q[w] \in Nat
  BY WrapperType DEF Good, Sound, Counted, Refs
<1>3. \A x \in Wrappers : x # w =>
        /\ h.wrap[x].count = r[x] + (IF h.wrap[x].obj # None THEN 1 ELSE 0)
        /\ ~ (h.wrap[x].obj # None /\ h.wrap[x].delete /\ Alone(h, h.wrap[x].obj) /\ r[x] = 0)
  BY <1>1 DEF Good, Counted, Owned
<1>4. Dropped(h, w) = IF n = 0 \/ single THEN Freed(h, w) ELSE [h EXCEPT !.wrap[w].count = n]
  BY DEF Dropped
<1> HIDE DEF r
<1>5. CASE n = 0 \/ single
  <2>1. r[w] = 0
    BY <1>1, <1>2, <1>5
  <2>2. Sound(h)
    BY DEF Good
  <2>3. Good(Freed(h, w), r) /\ Follows(h, Freed(h, w), r)
    BY <1>1, <1>3, <2>1, <2>2, GoodFreed
  <2>4. Dropped(h, w) = Freed(h, w)
    BY <1>4, <1>5
  <2>5. QED
    BY <1>1, <2>1, <2>3, <2>4 DEF r
<1>6. CASE ~ (n = 0 \/ single)
  <2> DEFINE y == [h.wrap[w] EXCEPT !.count = n]
  <2>0. Sound(h) /\ h \in HeapType
    BY DEF Good, Sound
  <2>1. h.wrap[w] \in WrapType /\ n \in Nat
    BY <1>2, <1>6, <2>0, WrapperType
  <2>2. /\ y \in WrapType /\ y.obj = o /\ y.slots = h.wrap[w].slots /\ y.conns = h.wrap[w].conns
        /\ y.count = n /\ y.delete = h.wrap[w].delete
    BY <2>1 DEF WrapType
  <2>3. Dropped(h, w) = [h EXCEPT !.wrap[w] = y]
    BY <1>4, <1>6
  <2>4. Dropped(h, w) = [h EXCEPT !.wrap[w].count = @ - 1]
    BY <1>4, <1>6
  <2> HIDE DEF y
  <2>5. y.count = r[w] + (IF y.obj # None THEN 1 ELSE 0)
    BY <1>1, <1>2, <2>2
  <2>6. ASSUME y.obj # None, y.delete, Alone(h, y.obj), r[w] = 0 PROVE FALSE
    <3>1. n = 1 /\ o # None
      BY <1>1, <1>2, <2>2, <2>6
    <3>2. o \in Objects
      BY <2>0, <3>1, WrapperType
    <3>3. parent(h, o) = None
      BY <2>0, <2>2, <2>6, <3>2, ParentIs
    <3>4. QED
      BY <1>6, <2>2, <2>6, <3>1, <3>3
  <2>7. Good([h EXCEPT !.wrap[w] = y], r) /\ Follows(h, [h EXCEPT !.wrap[w] = y], r)
    BY <1>1, <1>3, <2>0, <2>2, <2>5, <2>6, GoodCount
  <2>8. QED
    BY <1>1, <2>3, <2>4, <2>7 DEF r
<1>7. QED
  BY <1>5, <1>6

(* The wrapper of o, taken for one that is to refer to it.                 *)
Got(h, o) == get_wrapper(h, o).whash[o]

GotIs(h, r, o) ==
  LET g == get_wrapper(h, o)
      w == Got(h, o)
  IN /\ w \in Wrappers /\ Plus(r, w) \in Refs
     /\ Good(g, Plus(r, w))
     /\ Follows(h, g, r)
     /\ g.exist = h.exist /\ g.kids = h.kids /\ g.name = h.name
     /\ g.wrap[w].obj = o
     /\ \A x \in Wrappers : x # w => g.wrap[x] = h.wrap[x]
     /\ h.whash[o] = None => r[w] = 0 /\ ~ g.wrap[w].reparent
     /\ h.whash[o] # None => w = h.whash[o] /\ g.wrap[w] = [h.wrap[w] EXCEPT !.count = @ + 1]

LEMMA GoodGot ==
  ASSUME NEW h, NEW r \in Refs, Good(h, r), NEW o \in h.exist, Wrappable(h, o)
  PROVE  GotIs(h, r, o)
<1> DEFINE g == get_wrapper(h, o)
           w == Got(h, o)
           q == Plus(r, w)
<1>0. /\ h \in HeapType /\ o \in Objects /\ o # None /\ None \notin Wrappers
      /\ \A x \in Wrappers : r[x] \in Nat /\ h.wrap[x].count \in Nat /\ h.wrap[x] \in WrapType
      /\ Sound(h)
  BY WrapperAssumption, WrapperType DEF Good, Sound, HeapType, Refs
<1>1. ASSUME w \in Wrappers
      PROVE  /\ q \in Refs /\ q[w] = r[w] + 1 /\ q[w] \in Nat
             /\ \A x \in Wrappers : x # w => q[x] = r[x]
  BY <1>0, <1>1 DEF Refs, Plus
<1>2. CASE h.whash[o] # None
  <2> DEFINE v == h.whash[o]
             y == [h.wrap[v] EXCEPT !.count = @ + 1]
  <2>1. v \in Wrappers /\ h.wrap[v].obj = o
    BY <1>0, <1>2 DEF HeapType, Sound, Hashed
  <2>2. y \in WrapType
    BY <1>0, <2>1 DEF WrapType
  <2>3. g = [h EXCEPT !.wrap[v] = y]
    BY <1>2 DEF get_wrapper
  <2>4. /\ y.obj = o /\ y.slots = h.wrap[v].slots /\ y.conns = h.wrap[v].conns
        /\ y.count = h.wrap[v].count + 1 /\ y.delete = h.wrap[v].delete
    BY <1>0, <2>1 DEF WrapType
  <2> HIDE DEF y, g
  <2>5. Wired(y)
    <3>1. Wired(h.wrap[v])
      BY <1>0, <2>1 DEF Sound, Slotted
    <3>2. QED
      BY <2>1, <2>4, <3>1, WiredSame
  <2>6. /\ g.exist = h.exist /\ g.kids = h.kids /\ g.name = h.name /\ g.whash = h.whash
        /\ g.wrap[v] = y /\ \A x \in Wrappers : x # v => g.wrap[x] = h.wrap[x]
    BY <1>0, <2>1, <2>2, <2>3, <2>4, <2>5, SoundWrap
  <2>7. w = v
    BY <2>6 DEF g, Got
  <2>8. q \in Refs /\ q[v] = r[v] + 1 /\ q[v] \in Nat /\ \A x \in Wrappers : x # v => q[x] = r[x]
    BY <1>1, <2>1, <2>7
  <2> HIDE DEF q, w
  <2>9. y.count = q[v] + (IF y.obj # None THEN 1 ELSE 0) /\ q[v] # 0
    BY <1>0, <2>1, <2>4, <2>8 DEF Good, Counted
  <2>10. \A x \in Wrappers : x # v =>
           /\ h.wrap[x].count = q[x] + (IF h.wrap[x].obj # None THEN 1 ELSE 0)
           /\ ~ (h.wrap[x].obj # None /\ h.wrap[x].delete /\ Alone(h, h.wrap[x].obj) /\ q[x] = 0)
    BY <2>8 DEF Good, Counted, Owned
  <2>11. y.obj = h.wrap[v].obj
    BY <2>1, <2>4
  <2>12. Good(g, q)
    BY <1>0, <2>1, <2>2, <2>3, <2>4, <2>8, <2>9, <2>10, <2>11, GoodCount
  <2>13. Follows(h, g, r)
    BY <2>1, <2>4, <2>6 DEF Follows
  <2>14. g.wrap[v] = [h.wrap[v] EXCEPT !.count = @ + 1]
    BY <2>6 DEF y
  <2>15. QED
    BY <1>2, <2>1, <2>4, <2>6, <2>7, <2>8, <2>12, <2>13, <2>14 DEF g, w, q, GotIs
<1>3. CASE h.whash[o] = None
  <2> DEFINE v == CHOOSE x \in Wrappers : ~ Live(h, x)
             y == [Blank EXCEPT !.obj = o, !.count = 2, !.delete = parent(h, o) # None]
  <2>1. v \in Wrappers /\ ~ h.wrap[v].count > 0
    BY <1>3 DEF Wrappable, Live
  <2>2. g = [h EXCEPT !.whash[o] = v, !.wrap[v] = y]
    BY <1>3, Zenon DEF get_wrapper
  <2>3. /\ y \in WrapType /\ y.obj = o /\ y.count = 2 /\ y.conns = <<>> /\ y.slots = <<>>
        /\ ~ y.reparent
    BY <1>0, BlankType DEF Blank, WrapType
  <2> HIDE DEF v, y
  <2> DEFINE H == [h.whash EXCEPT ![o] = v]
             W == [h.wrap EXCEPT ![v] = y]
  <2>a. H \in [Objects -> Wrappers \cup {None}] /\ W \in [Wrappers -> WrapType]
    BY <1>0, <2>1, <2>3 DEF HeapType
  <2>b. W[v] = y /\ \A x \in Wrappers : x # v => W[x] = h.wrap[x]
    BY <1>0, <2>1 DEF HeapType
  <2>c. g = [h EXCEPT !.whash = H, !.wrap = W]
    BY <1>0, <2>2 DEF HeapType
  <2>d. H = [h.whash EXCEPT ![o] = v]
    OBVIOUS
  <2> HIDE DEF g, H, W
  <2>4. /\ g \in HeapType /\ g.exist = h.exist /\ g.kids = h.kids /\ g.name = h.name
        /\ g.whash = [h.whash EXCEPT ![o] = v]
        /\ g.wrap[v] = y /\ \A x \in Wrappers : x # v => g.wrap[x] = h.wrap[x]
    <3>1. /\ g \in HeapType /\ g.exist = h.exist /\ g.kids = h.kids /\ g.name = h.name
          /\ g.whash = H /\ g.wrap = W
      BY <1>0, <2>a, <2>c DEF HeapType
    <3>2. QED
      BY <2>b, <2>d, <3>1
  <2>5. g.whash[o] = v /\ \A p \in Objects : p # o => g.whash[p] = h.whash[p]
    BY <1>0, <2>4 DEF HeapType
  <2>6. w = v
    BY <2>5 DEF g, Got
  <2>7. q \in Refs /\ q[v] = r[v] + 1 /\ q[v] \in Nat /\ \A x \in Wrappers : x # v => q[x] = r[x]
    BY <1>1, <2>1, <2>6
  <2> HIDE DEF q, w
  <2>8. h.wrap[v].obj = None /\ r[v] = 0
    BY <1>0, <2>1 DEF Good, Counted
  <2>9. Hashed(g)
    <3>1. \A x \in Wrappers : g.wrap[x].obj \in g.exist \cup {None}
      BY <1>0, <2>3, <2>4 DEF Sound, Hashed
    <3>2. ASSUME NEW p \in Objects, NEW x \in Wrappers PROVE g.whash[p] = x <=> g.wrap[x].obj = p
      <4>1. h.whash[p] = x <=> h.wrap[x].obj = p
        BY <1>0 DEF Sound, Hashed
      <4>2. p # None
        BY WrapperAssumption
      <4>3. CASE p = o
        BY <1>0, <1>3, <2>3, <2>4, <2>5, <4>1, <4>3
      <4>4. CASE p # o
        BY <2>3, <2>4, <2>5, <2>8, <4>1, <4>2, <4>4
      <4>5. QED
        BY <4>3, <4>4
    <3>3. QED
      BY <3>1, <3>2 DEF Hashed
  <2>10. Wired(y)
    BY <1>0, <2>3 DEF Wired
  <2>11. Slotted(g)
    BY <1>0, <2>4, <2>10 DEF Sound, Slotted
  <2>12. Forest(g)
    <3>1. \A c : Subtree(g, c) = Subtree(h, c)
      BY <2>4, SubtreeSame
    <3>2. QED
      BY <1>0, <2>4, <3>1 DEF Sound, Forest, Closed
  <2>13. Named(g)
    BY <1>0, <2>4 DEF Sound, Named
  <2>14. Counted(g, q)
    <3>1. ASSUME NEW x \in Wrappers, x # v
          PROVE  g.wrap[x].count = q[x] + (IF g.wrap[x].obj # None THEN 1 ELSE 0)
      BY <2>4, <2>7, <3>1 DEF Good, Counted
    <3>2. g.wrap[v].count = q[v] + (IF g.wrap[v].obj # None THEN 1 ELSE 0)
      BY <1>0, <2>3, <2>4, <2>7, <2>8
    <3>3. QED
      BY <3>1, <3>2 DEF Counted
  <2>15. Owned(g, q)
    <3>1. \A c : Alone(g, c) <=> Alone(h, c)
      BY <2>4 DEF Alone
    <3>2. q[v] # 0
      BY <2>7, <2>8
    <3>3. QED
      BY <2>4, <2>7, <3>1, <3>2 DEF Good, Owned
  <2>16. Follows(h, g, r)
    BY <2>4, <2>8 DEF Follows
  <2>17. Good(g, q)
    BY <2>4, <2>9, <2>11, <2>12, <2>13, <2>14, <2>15 DEF Good, Sound
  <2>18. QED
    BY <1>3, <2>1, <2>3, <2>4, <2>6, <2>7, <2>8, <2>16, <2>17 DEF g, w, q, GotIs
<1>4. QED
  BY <1>2, <1>3

(* A new object, below none and with no child.                             *)
LEMMA GoodAdded ==
  ASSUME NEW h, NEW r \in Refs, Good(h, r), NEW o \in Objects, o \notin h.exist,
         NEW g \in HeapType, g.exist = h.exist \cup {o}, g.kids = h.kids, g.whash = h.whash,
         g.wrap = h.wrap, \A x \in Objects : x # o => g.name[x] = h.name[x]
  PROVE  Good(g, r) /\ Subtree(g, o) = {o} /\ \A p \in h.exist : o \notin ToSet(g.kids[p])
<1>0. /\ h \in HeapType /\ h.exist \subseteq Objects /\ None \notin Objects /\ Closed(h, h.exist)
  BY WrapperAssumption DEF Good, Sound, HeapType, Forest
<1>1. ToSet(g.kids[o]) = {}
  BY NoEntries DEF Good, Sound, Forest
<1>2. \A p \in h.exist : ToSet(g.kids[p]) = ToSet(h.kids[p]) /\ ToSet(h.kids[p]) \subseteq h.exist
  BY <1>0 DEF Closed
<1>3. Closed(g, g.exist)
  <2>1. ASSUME NEW x \in g.exist, NEW c \in ToSet(g.kids[x]) PROVE c \in g.exist
    BY <1>1, <1>2
  <2>2. QED
    BY <2>1 DEF Closed
<1>4. Subtree(g, o) = {o}
  <2>1. Closed(g, {o}) /\ o \in g.exist /\ {o} \in SUBSET g.exist
    BY <1>1 DEF Closed
  <2>2. o \in Subtree(g, o) /\ Subtree(g, o) \subseteq {o}
    BY <1>3, <2>1, SubtreeIs
  <2>3. QED
    BY <2>2
<1>5. ASSUME NEW c \in h.exist PROVE Subtree(g, c) \subseteq Subtree(h, c)
  <2>1. c \in Subtree(h, c) /\ Subtree(h, c) \in SUBSET h.exist /\ Closed(h, Subtree(h, c))
    BY <1>0, SubtreeIs
  <2>2. Closed(g, Subtree(h, c)) /\ Subtree(h, c) \in SUBSET g.exist /\ c \in g.exist
    BY <2>1 DEF Closed
  <2>3. QED
    BY <1>3, <2>1, <2>2, SubtreeIs
<1>6. Forest(g)
  <2>1. ASSUME NEW p \in g.exist, NEW c \in ToSet(g.kids[p]) PROVE p \notin Subtree(g, c)
    <3>1. p \in h.exist /\ c \in h.exist /\ c \in ToSet(h.kids[p])
      BY <1>1, <1>2
    <3>2. p \notin Subtree(h, c)
      BY <3>1 DEF Good, Sound, Forest
    <3>3. QED
      BY <1>5, <3>1, <3>2
  <2>2. \A x \in Objects : x \notin g.exist => g.kids[x] = <<>> /\ g.name[x] = None
    BY DEF Good, Sound, Forest
  <2>3. QED
    BY <1>3, <2>1, <2>2 DEF Forest
<1>7. Named(g)
  <2>1. ASSUME NEW p \in g.exist, NEW c \in ToSet(g.kids[p]), NEW d \in ToSet(g.kids[p]),
               g.name[c] = g.name[d], g.name[c] # None
        PROVE  c = d
    <3>1. p \in h.exist /\ c \in h.exist /\ d \in h.exist
      BY <1>1, <1>2
    <3>2. g.name[c] = h.name[c] /\ g.name[d] = h.name[d]
      BY <1>0, <3>1
    <3>3. QED
      BY <1>2, <2>1, <3>1, <3>2 DEF Good, Sound, Named
  <2>2. QED
    BY <2>1 DEF Named
<1>8. \A c : Alone(g, c) <=> Alone(h, c)
  BY <1>1, <1>2 DEF Alone
<1>9. Hashed(g) /\ Slotted(g) /\ Counted(g, r) /\ Owned(g, r)
  <2>1. Hashed(g) /\ Slotted(g)
    BY DEF Good, Sound, Hashed, Slotted
  <2>2. Counted(g, r)
    BY DEF Good, Counted
  <2>3. Owned(g, r)
    BY <1>8 DEF Good, Owned
  <2>4. QED
    BY <2>1, <2>2, <2>3
<1>10. QED
  BY <1>2, <1>4, <1>6, <1>7, <1>9 DEF Good, Sound

(* The child of a name.                                                    *)
LEMMA ChildIs ==
  ASSUME NEW h \in HeapType, NEW o \in Objects, NEW n
  PROVE  /\ get_child(h, o, n) # None => get_child(h, o, n) \in ToSet(h.kids[o])
         /\ get_child(h, o, n) # None => h.name[get_child(h, o, n)] = n
         /\ get_child(h, o, n) = None => \A c \in ToSet(h.kids[o]) : h.name[c] # n
         /\ get_child(h, o, n) \in Objects \cup {None}
<1> DEFINE s == h.kids[o]
           K == {i \in DOMAIN s : h.name[s[i]] = n}
<1>1. s \in Seq(Objects)
  BY DEF HeapType
<1>2. PICK m \in Nat : DOMAIN s = 1 .. m
  BY <1>1, LenProperties
<1>3. K \in SUBSET Nat /\ \A i \in K : i \in DOMAIN s /\ h.name[s[i]] = n
  BY <1>2
<1>4. \A i \in DOMAIN s : s[i] \in ToSet(s) /\ s[i] \in Objects
  BY <1>1, ElementOfSeq, LenProperties DEF ToSet
<1>5. get_child(h, o, n) = IF K = {} THEN None ELSE s[Min(K)]
  BY DEF get_child
<1>6. CASE K = {}
  <2>1. \A c \in ToSet(s) : h.name[c] # n
    BY <1>6 DEF ToSet
  <2>2. QED
    BY <1>5, <1>6, <2>1
<1>7. CASE K # {}
  <2> HIDE DEF K
  <2>1. Min(K) \in K
    BY <1>3, <1>7, LeastOf
  <2>2. s[Min(K)] \in ToSet(s) /\ s[Min(K)] \in Objects /\ h.name[s[Min(K)]] = n
    BY <1>3, <1>4, <2>1
  <2>3. s[Min(K)] # None
    BY <2>2, WrapperAssumption
  <2>4. QED
    BY <1>5, <1>7, <2>2, <2>3
<1>8. QED
  BY <1>6, <1>7

(* One slot more, of a number that is free.                                *)
LEMMA GoodConnected ==
  ASSUME NEW h, NEW r \in Refs, Good(h, r), NEW w \in Wrappers, h.wrap[w].obj # None,
         NEW id \in Nat, id \notin DOMAIN h.wrap[w].slots, NEW fn \in Functions, NEW sig \in Signals
  PROVE  LET x == h.wrap[w]
             g == [h EXCEPT !.wrap[w] =
                    [x EXCEPT !.slots = With(x.slots, id, [fn |-> fn, sig |-> sig]),
                              !.conns = Append(x.conns, [id |-> id, sig |-> sig]),
                              !.next = id + 1]]
         IN /\ Good(g, r)
            /\ \A z \in Wrappers : /\ g.wrap[z].obj = h.wrap[z].obj
                                   /\ DOMAIN h.wrap[z].slots \subseteq DOMAIN g.wrap[z].slots
            /\ g.kids = h.kids /\ g.exist = h.exist /\ g.name = h.name
<1> DEFINE x == h.wrap[w]
           f == With(x.slots, id, [fn |-> fn, sig |-> sig])
           s == Append(x.conns, [id |-> id, sig |-> sig])
           y == [x EXCEPT !.slots = f, !.conns = s, !.next = id + 1]
           g == [h EXCEPT !.wrap[w] = y]
<1>0. Sound(h) /\ h \in HeapType /\ x \in WrapType /\ Wired(x) /\ x.conns \in Seq(Conn) /\ x.slots \in SlotMaps
  BY WrapperType DEF Good, Sound, Slotted
<1>1. /\ DOMAIN f = {id} \cup DOMAIN x.slots
      /\ f[id] = [fn |-> fn, sig |-> sig]
      /\ \A j \in DOMAIN x.slots : f[j] = x.slots[j]
  BY DEF With
<1>2. f \in SlotMaps
  <2>1. PICK I \in SUBSET Nat : x.slots \in [I -> Slot]
    BY <1>0 DEF SlotMaps
  <2>2. f = [j \in {id} \cup DOMAIN x.slots |-> f[j]]
    BY DEF With
  <2>3. [fn |-> fn, sig |-> sig] \in Slot
    BY DEF Slot
  <2> HIDE DEF f, x
  <2>4. f \in [{id} \cup I -> Slot] /\ {id} \cup I \in SUBSET Nat
    BY <1>1, <2>1, <2>2, <2>3
  <2>5. QED
    BY <2>4 DEF SlotMaps
<1>3. PICK m \in Nat : Len(x.conns) = m /\ DOMAIN x.conns = 1 .. m
  BY <1>0, LenProperties
<1>4. [id |-> id, sig |-> sig] \in Conn
  BY DEF Conn
<1>5. /\ s \in Seq(Conn) /\ DOMAIN s = 1 .. m + 1
      /\ \A i \in 1 .. m : s[i] = x.conns[i]
      /\ s[m + 1] = [id |-> id, sig |-> sig]
  <2>1. s \in Seq(Conn) /\ Len(s) = m + 1
    BY <1>0, <1>3, <1>4, AppendProperties
  <2>2. QED
    BY <1>0, <1>3, <1>4, <2>1, AppendProperties
<1>6. y \in WrapType /\ y.obj = x.obj /\ y.count = x.count /\ y.delete = x.delete /\ y.slots = f /\ y.conns = s
  <2>1. s \in Seq(Conn) /\ id + 1 \in Nat /\ x \in WrapType
    BY <1>0, <1>5
  <2> HIDE DEF f, s, x
  <2>2. QED
    BY <1>2, <2>1 DEF WrapType
<1> HIDE DEF f, s, y
<1>7. Wired(y)
  <2>1. /\ DOMAIN x.slots = {x.conns[j].id : j \in 1 .. m}
        /\ \A j \in 1 .. m : x.slots[x.conns[j].id].sig = x.conns[j].sig
        /\ \A i, j \in 1 .. m : x.conns[i].id = x.conns[j].id => i = j
    BY <1>0, <1>3 DEF Wired
  <2>2. \A j \in 1 .. m + 1 : j \in 1 .. m \/ j = m + 1
    OBVIOUS
  <2>3. 1 .. m \subseteq 1 .. m + 1 /\ m + 1 \in 1 .. m + 1
    OBVIOUS
  <2>4. ASSUME NEW j \in 1 .. m
        PROVE  s[j].id = x.conns[j].id /\ s[j].id \in DOMAIN x.slots /\ s[j].id # id
    <3>1. s[j] = x.conns[j] /\ x.conns[j].id \in DOMAIN x.slots
      BY <1>5, <2>1
    <3>2. id \notin DOMAIN x.slots
      BY <1>1
    <3>3. QED
      BY <3>1, <3>2
  <2>5. DOMAIN f = {s[j].id : j \in 1 .. m + 1}
    <3>1. ASSUME NEW j \in 1 .. m + 1 PROVE s[j].id \in DOMAIN f
      BY <1>1, <1>5, <2>2, <2>4
    <3>2. ASSUME NEW k \in DOMAIN f PROVE \E j \in 1 .. m + 1 : s[j].id = k
      <4>1. CASE k = id
        BY <1>5, <2>3, <4>1
      <4>2. CASE k # id
        <5>1. PICK j \in 1 .. m : x.conns[j].id = k
          BY <1>1, <2>1, <4>2
        <5>2. QED
          BY <2>3, <2>4, <5>1
      <4>3. QED
        BY <4>1, <4>2
    <3>3. QED
      BY <3>1, <3>2
  <2>6. ASSUME NEW j \in 1 .. m + 1 PROVE f[s[j].id].sig = s[j].sig
    <3>1. CASE j \in 1 .. m
      <4>1. s[j] = x.conns[j] /\ s[j].id \in DOMAIN x.slots
        BY <1>5, <2>4, <3>1
      <4>2. f[s[j].id] = x.slots[x.conns[j].id]
        BY <1>1, <4>1
      <4>3. QED
        BY <2>1, <3>1, <4>1, <4>2
    <3>2. CASE j = m + 1
      BY <1>1, <1>5, <3>2
    <3>3. QED
      BY <2>2, <3>1, <3>2
  <2>7. ASSUME NEW i \in 1 .. m + 1, NEW j \in 1 .. m + 1, s[i].id = s[j].id PROVE i = j
    <3>1. s[m + 1].id = id
      BY <1>5
    <3>2. CASE i \in 1 .. m /\ j \in 1 .. m
      BY <2>1, <2>4, <2>7, <3>2
    <3>3. CASE i = m + 1 \/ j = m + 1
      BY <2>2, <2>4, <2>7, <3>1, <3>3
    <3>4. QED
      BY <2>2, <3>2, <3>3
  <2>8. QED
    BY <1>5, <1>6, <2>5, <2>6, <2>7 DEF Wired
<1>8. /\ Sound(g)
      /\ g.exist = h.exist /\ g.kids = h.kids /\ g.name = h.name /\ g.whash = h.whash
      /\ g.wrap[w] = y /\ \A z \in Wrappers : z # w => g.wrap[z] = h.wrap[z]
  BY <1>0, <1>6, <1>7, SoundWrap
<1>9. g = [h EXCEPT !.wrap[w] = [x EXCEPT !.slots = With(x.slots, id, [fn |-> fn, sig |-> sig]),
                                         !.conns = Append(x.conns, [id |-> id, sig |-> sig]),
                                         !.next = id + 1]]
  BY DEF f, s, y
<1> HIDE DEF g
<1>10. Good(g, r)
  <2>1. Counted(g, r)
    BY <1>6, <1>8 DEF Good, Counted
  <2>2. \A o : Alone(g, o) <=> Alone(h, o)
    BY <1>8 DEF Alone
  <2>3. Owned(g, r)
    BY <1>6, <1>8, <2>2 DEF Good, Owned
  <2>4. QED
    BY <1>8, <2>1, <2>3 DEF Good
<1>11. \A z \in Wrappers : /\ g.wrap[z].obj = h.wrap[z].obj
                           /\ DOMAIN h.wrap[z].slots \subseteq DOMAIN g.wrap[z].slots
  BY <1>1, <1>6, <1>8
<1>12. QED
  BY <1>8, <1>9, <1>10, <1>11

(* Some slots less.                                                        *)
Unslotted(h, w, ids) ==
  LET x == h.wrap[w] IN
  [h EXCEPT !.wrap[w] =
     [x EXCEPT !.slots = Without(x.slots, ids),
               !.conns = Kept(x.conns, {k \in ToSet(x.conns) : k.id \notin ids}),
               !.next = Min(ids \cup {x.next})]]

LEMMA GoodDisconnected ==
  ASSUME NEW h, NEW r \in Refs, Good(h, r), NEW w \in Wrappers, h.wrap[w].obj # None,
         NEW ids \in SUBSET DOMAIN h.wrap[w].slots
  PROVE  /\ Good(Unslotted(h, w, ids), r)
         /\ \A z \in Wrappers : /\ Unslotted(h, w, ids).wrap[z].obj = h.wrap[z].obj
                                /\ z # w => Unslotted(h, w, ids).wrap[z] = h.wrap[z]
         /\ DOMAIN h.wrap[w].slots \subseteq DOMAIN Unslotted(h, w, ids).wrap[w].slots \cup ids
         /\ Unslotted(h, w, ids).exist = h.exist
<1> DEFINE x == h.wrap[w]
           f == Without(x.slots, ids)
           S == {k \in ToSet(x.conns) : k.id \notin ids}
           s == Kept(x.conns, S)
           n == Min(ids \cup {x.next})
           y == [x EXCEPT !.slots = f, !.conns = s, !.next = n]
           g == [h EXCEPT !.wrap[w] = y]
<1>0. /\ Sound(h) /\ h \in HeapType /\ x \in WrapType /\ Wired(x)
      /\ x.conns \in Seq(Conn) /\ x.slots \in SlotMaps /\ x.next \in Nat
  BY WrapperType DEF Good, Sound, Slotted
<1>1. DOMAIN f = DOMAIN x.slots \ ids /\ \A j \in DOMAIN f : f[j] = x.slots[j]
  BY DEF Without
<1>2. f \in SlotMaps /\ DOMAIN x.slots \subseteq Nat
  <2>1. PICK I \in SUBSET Nat : x.slots \in [I -> Slot]
    BY <1>0 DEF SlotMaps
  <2>2. f = [j \in DOMAIN x.slots \ ids |-> x.slots[j]]
    BY DEF Without
  <2> HIDE DEF f, x
  <2>3. f \in [I \ ids -> Slot] /\ I \ ids \in SUBSET Nat
    BY <2>1, <2>2
  <2>4. QED
    BY <2>1, <2>3 DEF SlotMaps
<1>3. n \in Nat
  <2>1. ids \cup {x.next} \in SUBSET Nat /\ ids \cup {x.next} # {}
    BY <1>0, <1>2
  <2> HIDE DEF x
  <2>2. QED
    BY <2>1, LeastOf
<1>4. /\ s \in Seq(Conn) /\ ToSet(s) = ToSet(x.conns) \cap S
      /\ \E e \in [DOMAIN s -> DOMAIN x.conns] :
           /\ \A j \in DOMAIN s : s[j] = x.conns[e[j]]
           /\ \A i, j \in DOMAIN s : e[i] = e[j] => i = j
  <2>1. x.conns \in Seq(Conn)
    BY <1>0
  <2> HIDE DEF S, x
  <2>2. s \in Seq(Conn) /\ ToSet(s) = ToSet(x.conns) \cap S
    BY <2>1, KeptIs
  <2>3. \E e \in [DOMAIN s -> DOMAIN x.conns] :
           /\ \A j \in DOMAIN s : s[j] = x.conns[e[j]]
           /\ \A i, j \in DOMAIN s : e[i] = e[j] => i = j
    BY <2>1, KeptIs
  <2>4. QED
    BY <2>2, <2>3
<1>5. y \in WrapType /\ y.obj = x.obj /\ y.count = x.count /\ y.delete = x.delete /\ y.slots = f /\ y.conns = s
  <2> HIDE DEF f, s, x, n
  <2>1. QED
    BY <1>0, <1>2, <1>3, <1>4 DEF WrapType
<1> HIDE DEF f, s, y, n
<1>6. Wired(y)
  <2>1. /\ DOMAIN x.slots = {x.conns[j].id : j \in DOMAIN x.conns}
        /\ \A j \in DOMAIN x.conns : x.slots[x.conns[j].id].sig = x.conns[j].sig
        /\ \A i, j \in DOMAIN x.conns : x.conns[i].id = x.conns[j].id => i = j
    BY <1>0 DEF Wired
  <2>2. PICK e \in [DOMAIN s -> DOMAIN x.conns] :
          /\ \A j \in DOMAIN s : s[j] = x.conns[e[j]]
          /\ \A i, j \in DOMAIN s : e[i] = e[j] => i = j
    BY <1>4
  <2>3. ASSUME NEW j \in DOMAIN s
        PROVE  s[j].id \in DOMAIN f /\ f[s[j].id].sig = s[j].sig
    <3>1. e[j] \in DOMAIN x.conns /\ s[j] = x.conns[e[j]] /\ s[j] \in S
      BY <1>4, <2>2 DEF ToSet
    <3>2. s[j].id \in DOMAIN x.slots /\ s[j].id \notin ids /\ x.slots[s[j].id].sig = s[j].sig
      BY <2>1, <3>1
    <3>3. QED
      BY <1>1, <3>2
  <2>4. ASSUME NEW k \in DOMAIN f PROVE \E j \in DOMAIN s : s[j].id = k
    <3>1. PICK i \in DOMAIN x.conns : x.conns[i].id = k
      BY <1>1, <2>1
    <3>2. x.conns[i] \in ToSet(x.conns) /\ x.conns[i] \in S
      BY <1>1, <3>1 DEF ToSet
    <3>3. x.conns[i] \in ToSet(s)
      BY <1>4, <3>2
    <3>4. QED
      BY <3>1, <3>3 DEF ToSet
  <2>5. ASSUME NEW i \in DOMAIN s, NEW j \in DOMAIN s, s[i].id = s[j].id PROVE i = j
    BY <2>1, <2>2, <2>5
  <2>6. DOMAIN f = {s[j].id : j \in DOMAIN s}
    BY <2>3, <2>4
  <2>7. QED
    BY <1>5, <2>3, <2>5, <2>6 DEF Wired
<1>7. /\ Sound(g)
      /\ g.exist = h.exist /\ g.kids = h.kids /\ g.name = h.name /\ g.whash = h.whash
      /\ g.wrap[w] = y /\ \A z \in Wrappers : z # w => g.wrap[z] = h.wrap[z]
  BY <1>0, <1>5, <1>6, SoundWrap
<1>8. g = Unslotted(h, w, ids)
  BY DEF f, s, y, n, Unslotted
<1> HIDE DEF g
<1>9. Good(g, r)
  <2>1. Counted(g, r)
    BY <1>5, <1>7 DEF Good, Counted
  <2>2. \A o : Alone(g, o) <=> Alone(h, o)
    BY <1>7 DEF Alone
  <2>3. Owned(g, r)
    BY <1>5, <1>7, <2>2 DEF Good, Owned
  <2>4. QED
    BY <1>7, <2>1, <2>3 DEF Good
<1>10. \A z \in Wrappers : g.wrap[z].obj = h.wrap[z].obj /\ (z # w => g.wrap[z] = h.wrap[z])
  BY <1>5, <1>7
<1>11. DOMAIN h.wrap[w].slots \subseteq DOMAIN g.wrap[w].slots \cup ids
  BY <1>1, <1>5, <1>7
<1>12. QED
  BY <1>7, <1>8, <1>9, <1>10, <1>11

(* All slots of all wrappers less.                                         *)
LEMMA GoodSilenced ==
  ASSUME NEW h, NEW r \in Refs, Good(h, r)
  PROVE  Good([h EXCEPT !.wrap = [w \in Wrappers |->
                 IF h.wrap[w].obj = None THEN h.wrap[w]
                 ELSE [h.wrap[w] EXCEPT !.slots = <<>>, !.conns = <<>>, !.next = 1]]], r)
<1> DEFINE W == [w \in Wrappers |->
                   IF h.wrap[w].obj = None THEN h.wrap[w]
                   ELSE [h.wrap[w] EXCEPT !.slots = <<>>, !.conns = <<>>, !.next = 1]]
           g == [h EXCEPT !.wrap = W]
<1>0. Sound(h) /\ h \in HeapType
  BY DEF Good, Sound
<1>1. ASSUME NEW w \in Wrappers
      PROVE  /\ W[w] \in WrapType /\ Wired(W[w])
             /\ W[w].obj = h.wrap[w].obj /\ W[w].count = h.wrap[w].count /\ W[w].delete = h.wrap[w].delete
  <2>1. h.wrap[w] \in WrapType /\ Wired(h.wrap[w])
    BY <1>0, WrapperType DEF Sound, Slotted
  <2>2. Blank.slots \in SlotMaps /\ Blank.slots = <<>> /\ <<>> \in Seq(Conn)
    BY BlankType DEF WrapType, Blank
  <2>3. CASE h.wrap[w].obj = None
    BY <2>1, <2>3
  <2>4. CASE h.wrap[w].obj # None
    <3> DEFINE y == [h.wrap[w] EXCEPT !.slots = <<>>, !.conns = <<>>, !.next = 1]
    <3>1. /\ y \in WrapType /\ y.obj = h.wrap[w].obj /\ y.count = h.wrap[w].count
          /\ y.delete = h.wrap[w].delete /\ y.slots = <<>> /\ y.conns = <<>>
      BY <2>1, <2>2 DEF WrapType
    <3>2. W[w] = y
      BY <2>4
    <3> HIDE DEF y, W
    <3>3. DOMAIN y.slots = {} /\ DOMAIN y.conns = {}
      BY <3>1
    <3>4. Wired(y)
      BY <2>4, <3>1, <3>3 DEF Wired
    <3>5. QED
      BY <3>1, <3>2, <3>4
  <2>5. QED
    BY <2>3, <2>4
<1>2. W \in [Wrappers -> WrapType]
  <2>1. W = [w \in Wrappers |-> W[w]]
    OBVIOUS
  <2> HIDE DEF W
  <2>2. QED
    BY <1>1, <2>1
<1> HIDE DEF W
<1>3. /\ g \in HeapType /\ g.exist = h.exist /\ g.kids = h.kids /\ g.name = h.name /\ g.whash = h.whash
      /\ g.wrap = W
  BY <1>0, <1>2 DEF HeapType
<1>a. g = [h EXCEPT !.wrap = W]
  OBVIOUS
<1> HIDE DEF g
<1>4. Hashed(g) /\ Slotted(g)
  BY <1>0, <1>1, <1>3 DEF Sound, Hashed, Slotted
<1>5. Forest(g) /\ Named(g)
  <2>1. \A c : Subtree(g, c) = Subtree(h, c)
    BY <1>3, SubtreeSame
  <2>2. QED
    BY <1>0, <1>3, <2>1 DEF Sound, Forest, Closed, Named
<1>6. Counted(g, r)
  BY <1>1, <1>3 DEF Good, Counted
<1>7. Owned(g, r)
  <2>1. \A o : Alone(g, o) <=> Alone(h, o)
    BY <1>3 DEF Alone
  <2>2. QED
    BY <1>1, <1>3, <2>1 DEF Good, Owned
<1>8. Good(g, r)
  BY <1>3, <1>4, <1>5, <1>6, <1>7 DEF Good, Sound
<1>9. QED
  BY <1>8 DEF g, W

(* A wrapper that is referred to gets other flags, or one not to delete.   *)
Alike(h, g) ==
  /\ \A x \in Wrappers : g.wrap[x].obj = h.wrap[x].obj /\ g.wrap[x].slots = h.wrap[x].slots
  /\ g.exist = h.exist /\ g.kids = h.kids /\ g.name = h.name

LEMMA GoodFlags ==
  ASSUME NEW h, NEW r \in Refs, Good(h, r), NEW w \in Wrappers,
         NEW rep \in BOOLEAN, NEW del \in BOOLEAN, r[w] > 0 \/ ~ del
  PROVE  Good(Flagged(h, w, rep, del), r) /\ Alike(h, Flagged(h, w, rep, del))
<1> DEFINE y == [h.wrap[w] EXCEPT !.reparent = rep, !.delete = del]
<1>1. Sound(h) /\ h.wrap[w] \in WrapType /\ r[w] \in Nat /\ h \in HeapType
  BY WrapperType DEF Good, Sound, Refs
<1>2. /\ y \in WrapType /\ y.obj = h.wrap[w].obj /\ y.slots = h.wrap[w].slots /\ y.conns = h.wrap[w].conns
      /\ y.count = h.wrap[w].count /\ y.delete = del
  BY <1>1 DEF WrapType
<1> HIDE DEF y
<1>3. y.count = r[w] + (IF y.obj # None THEN 1 ELSE 0)
  BY <1>2 DEF Good, Counted
<1>4. ~ (y.obj # None /\ y.delete /\ Alone(h, y.obj) /\ r[w] = 0)
  BY <1>1, <1>2
<1>5. \A x \in Wrappers : x # w =>
        /\ h.wrap[x].count = r[x] + (IF h.wrap[x].obj # None THEN 1 ELSE 0)
        /\ ~ (h.wrap[x].obj # None /\ h.wrap[x].delete /\ Alone(h, h.wrap[x].obj) /\ r[x] = 0)
  BY DEF Good, Counted, Owned
<1>6. Good([h EXCEPT !.wrap[w] = y], r) /\ Follows(h, [h EXCEPT !.wrap[w] = y], r)
  BY <1>1, <1>2, <1>3, <1>4, <1>5, GoodCount
<1>7. /\ [h EXCEPT !.wrap[w] = y].exist = h.exist /\ [h EXCEPT !.wrap[w] = y].kids = h.kids
      /\ [h EXCEPT !.wrap[w] = y].name = h.name
      /\ \A x \in Wrappers : [h EXCEPT !.wrap[w] = y].wrap[x] = IF x = w THEN y ELSE h.wrap[x]
  BY <1>1 DEF HeapType
<1>8. \A x \in Wrappers : /\ [h EXCEPT !.wrap[w] = y].wrap[x].obj = h.wrap[x].obj
                         /\ [h EXCEPT !.wrap[w] = y].wrap[x].slots = h.wrap[x].slots
  BY <1>2, <1>7
<1>9. Flagged(h, w, rep, del) = [h EXCEPT !.wrap[w] = y]
  BY DEF y, Flagged
<1>10. QED
  BY <1>6, <1>7, <1>8, <1>9 DEF Alike

(***************************************************************************)
(* Assignment to an entry.                                                 *)
(***************************************************************************)

(* g is h with a as the child n of o, and of no other.                     *)
AdoptedIs(h, r, a, o, n, g) ==
  /\ Good(g, r)
  /\ g.exist = h.exist /\ g.wrap = h.wrap /\ g.whash = h.whash
  /\ a \in ToSet(g.kids[o]) /\ g.name[a] = n
  /\ \A p \in Objects : p # o => a \notin ToSet(g.kids[p]) /\ ToSet(g.kids[p]) \subseteq ToSet(h.kids[p])

(* o gets the object of v as its child n: none of its children has this    *)
(* name before.                                                            *)
LEMMA GoodAdopted ==
  ASSUME NEW h, NEW r \in Refs, Good(h, r), NEW o \in h.exist, NEW n \in Names,
         NEW v \in Wrappers, h.wrap[v].obj # None, h.wrap[v].reparent,
         o \notin Subtree(h, h.wrap[v].obj),
         \A c \in ToSet(h.kids[o]) : c # h.wrap[v].obj => h.name[c] # n
  PROVE  Adopt(h, v, n, o).ok /\ AdoptedIs(h, r, h.wrap[v].obj, o, n, Adopt(h, v, n, o).heap)
<1> DEFINE a == h.wrap[v].obj
           N == [h.name EXCEPT ![a] = n]
           k == [h EXCEPT !.name = N]
           g == SetParent(k, a, o)
<1>0. /\ h \in HeapType /\ a \in h.exist /\ h.exist \subseteq Objects /\ None \notin Objects
      /\ n # None /\ Sound(h)
  BY WrapperAssumption DEF Good, Sound, Hashed, HeapType
<1>1. /\ N \in [Objects -> Names \cup {None}] /\ N[a] = n
      /\ \A c \in Objects : c # a => N[c] = h.name[c]
  BY <1>0 DEF HeapType
<1>2. k = [h EXCEPT !.name[a] = n]
  BY <1>0 DEF HeapType
<1>b. k = [h EXCEPT !.name = N]
  OBVIOUS
<1> HIDE DEF N, k
<1>3. /\ k \in HeapType /\ k.exist = h.exist /\ k.kids = h.kids /\ k.name = N /\ k.whash = h.whash
      /\ k.wrap = h.wrap
  BY <1>0, <1>1, <1>b DEF HeapType
<1>4. Adopt(h, v, n, o) = Result(g, TRUE)
  BY <1>2, <1>3 DEF Adopt, reparent
<1>5. \A c : Subtree(k, c) = Subtree(h, c)
  BY <1>3, SubtreeSame
<1>6. Hashed(k) /\ Slotted(k) /\ Counted(k, r)
  BY <1>0, <1>3 DEF Good, Sound, Hashed, Slotted, Counted
<1>7. Owned(k, r)
  <2>1. \A c : Alone(k, c) <=> Alone(h, c)
    BY <1>3 DEF Alone
  <2>2. QED
    BY <1>3, <2>1 DEF Good, Owned
<1>8. Forest(k)
  BY <1>0, <1>1, <1>3, <1>5 DEF Sound, Forest, Closed
<1>9. \A p \in h.exist : ToSet(h.kids[p]) \subseteq h.exist
  BY <1>0 DEF Sound, Forest, Closed
<1>10. NamedBut(k, a)
  <2>1. ASSUME NEW p \in k.exist, NEW c \in ToSet(k.kids[p]) \ {a}, NEW d \in ToSet(k.kids[p]) \ {a},
               k.name[c] = k.name[d], k.name[c] # None
        PROVE  c = d
    <3>1. c \in Objects /\ d \in Objects /\ p \in h.exist
      BY <1>0, <1>3, <1>9
    <3>2. k.name[c] = h.name[c] /\ k.name[d] = h.name[d]
      BY <1>1, <1>3, <3>1
    <3>3. QED
      BY <1>0, <1>3, <2>1, <3>1, <3>2 DEF Sound, Named
  <2>2. QED
    BY <2>1 DEF NamedBut
<1>11. \A c \in ToSet(k.kids[o]) : c # a => k.name[a] = None \/ k.name[c] # k.name[a]
  <2>1. ASSUME NEW c \in ToSet(k.kids[o]), c # a PROVE k.name[c] # k.name[a]
    <3>1. c \in Objects /\ c \in ToSet(h.kids[o])
      BY <1>0, <1>3, <1>9
    <3>2. QED
      BY <1>1, <1>3, <2>1, <3>1
  <2>2. QED
    BY <2>1
<1>12. o # None /\ o \in k.exist \cup {None} /\ a \in k.exist /\ o \notin Subtree(k, a)
  BY <1>0, <1>3, <1>5
<1>13. Good(g, r)
  BY <1>3, <1>6, <1>7, <1>8, <1>10, <1>11, <1>12, PutParent
<1>14. /\ g.exist = k.exist /\ g.name = k.name /\ g.whash = k.whash /\ g.wrap = k.wrap
       /\ \A x \in Objects : \A c : c \in ToSet(g.kids[x]) <=>
            (c # a /\ c \in ToSet(k.kids[x])) \/ (c = a /\ x = o)
  <2>1. a \in Objects /\ o \in Objects \cup {None} /\ k \in HeapType
    BY <1>0, <1>3
  <2>2. Moved(k, g, a, o)
    BY <2>1, SetParentIs
  <2> HIDE DEF a, g
  <2>3. QED
    BY <2>2 DEF Moved
<1> HIDE DEF g
<1>15. Adopt(h, v, n, o).heap = g /\ Adopt(h, v, n, o).ok
  BY <1>4 DEF Result
<1>16. /\ a \in ToSet(g.kids[o]) /\ g.name[a] = n
       /\ \A p \in Objects : p # o => a \notin ToSet(g.kids[p]) /\ ToSet(g.kids[p]) \subseteq ToSet(h.kids[p])
  BY <1>0, <1>1, <1>3, <1>14
<1>17. QED
  BY <1>3, <1>13, <1>14, <1>15, <1>16 DEF a, AdoptedIs

(* What meta_newindex assigns, before the old child's wrapper is dropped.  *)
AssignedIs(h, r, o, n, v) ==
  LET g == Assigned(h, o, n, v).heap
      c == get_child(h, o, n)
  IN /\ Good(g, r)
     /\ g.exist = h.exist /\ g.wrap = h.wrap /\ g.whash = h.whash
     /\ \/ g = h
        \/ /\ c # None => h.wrap[h.whash[c]].reparent
           /\ IF v = None THEN \A d \in ToSet(g.kids[o]) : g.name[d] # n
              ELSE /\ h.wrap[v].obj \in ToSet(g.kids[o]) /\ g.name[h.wrap[v].obj] = n
                   /\ \A p \in Objects : p # o => h.wrap[v].obj \notin ToSet(g.kids[p])
     /\ \A p \in Objects : p # o => ToSet(g.kids[p]) \subseteq ToSet(h.kids[p])

LEMMA GoodAssigned ==
  ASSUME NEW h, NEW r \in Refs, Good(h, r), NEW o \in h.exist, NEW n \in Names,
         NEW v \in Wrappers \cup {None},
         v # None => h.wrap[v].obj # None /\ h.wrap[v].reparent /\ o \notin Subtree(h, h.wrap[v].obj),
         get_child(h, o, n) # None =>
           h.whash[get_child(h, o, n)] \in Wrappers /\ r[h.whash[get_child(h, o, n)]] > 0
  PROVE  AssignedIs(h, r, o, n, v)
<1> DEFINE c == get_child(h, o, n)
           g == Assigned(h, o, n, v).heap
           k == SetParent(h, c, None)
<1>0. /\ h \in HeapType /\ h.exist \subseteq Objects /\ o \in Objects /\ None \notin Objects
      /\ n # None /\ Sound(h) /\ None \notin Wrappers
  BY WrapperAssumption DEF Good, Sound, HeapType
<1>1. /\ c # None => c \in ToSet(h.kids[o]) /\ h.name[c] = n /\ c \in Objects
      /\ c = None => \A d \in ToSet(h.kids[o]) : h.name[d] # n
  BY <1>0, ChildIs
<1>2. ToSet(h.kids[o]) \subseteq h.exist
  BY <1>0 DEF Sound, Forest, Closed
<1>3. Result(h, FALSE).heap = h /\ Result(h, TRUE).heap = h /\ Result(h, n \in Members).heap = h
  BY DEF Result
<1>4. CASE c = None
  <2>1. CASE n \in Members \/ v = None
    <3>1. Assigned(h, o, n, v) = Result(h, n \in Members)
      BY <1>4, <2>1 DEF Assigned
    <3>2. g = h
      BY <3>1, <1>3
    <3>3. QED
      BY <3>2 DEF AssignedIs
  <2>2. CASE ~ (n \in Members \/ v = None)
    <3>1. Assigned(h, o, n, v) = Adopt(h, v, n, o)
      BY <1>4, <2>2 DEF Assigned
    <3>2. v \in Wrappers /\ \A d \in ToSet(h.kids[o]) : d # h.wrap[v].obj => h.name[d] # n
      BY <1>1, <1>4, <2>2
    <3> HIDE DEF g
    <3>3. /\ Good(g, r) /\ g.exist = h.exist /\ g.wrap = h.wrap /\ g.whash = h.whash
          /\ h.wrap[v].obj \in ToSet(g.kids[o]) /\ g.name[h.wrap[v].obj] = n
          /\ \A p \in Objects : p # o =>
               h.wrap[v].obj \notin ToSet(g.kids[p]) /\ ToSet(g.kids[p]) \subseteq ToSet(h.kids[p])
      <4>1. v \in Wrappers /\ h.wrap[v].obj # None /\ h.wrap[v].reparent /\ o \notin Subtree(h, h.wrap[v].obj)
        BY <2>2
      <4>2. AdoptedIs(h, r, h.wrap[v].obj, o, n, Adopt(h, v, n, o).heap)
        BY <3>2, <4>1, GoodAdopted
      <4>3. QED
        BY <3>1, <4>2 DEF g, AdoptedIs
    <3>4. QED
      BY <1>4, <2>2, <3>3 DEF g, AssignedIs
  <2>3. QED
    BY <2>1, <2>2
<1>5. CASE c # None /\ ~ h.wrap[h.whash[c]].reparent
  <2>1. reparent(h, h.whash[c], None) = Result(h, FALSE) /\ ~ Result(h, FALSE).ok
    BY <1>5 DEF reparent, Result
  <2>2. Assigned(h, o, n, v) = Result(h, FALSE)
    BY <1>5, <2>1 DEF Assigned
  <2>3. g = h
    BY <2>2, <1>3
  <2>4. QED
    BY <2>3 DEF AssignedIs
<1>6. CASE c # None /\ h.wrap[h.whash[c]].reparent
  <2>0. c \in h.exist /\ c \in Objects /\ c \in ToSet(h.kids[o]) /\ h.name[c] = n
    BY <1>1, <1>2, <1>6
  <2>1. h.whash[c] \in Wrappers /\ h.wrap[h.whash[c]].obj = c
    BY <1>0, <1>6, <2>0 DEF Sound, Hashed
  <2>2. reparent(h, h.whash[c], None) = Result(k, TRUE) /\ Result(k, TRUE).ok /\ Result(k, TRUE).heap = k
    BY <1>6, <2>1 DEF reparent, Result
  <2>3. \A w \in Wrappers : h.wrap[w].obj = c /\ h.wrap[w].delete => r[w] > 0
    <3>1. ASSUME NEW w \in Wrappers, h.wrap[w].obj = c PROVE w = h.whash[c]
      BY <1>0, <2>0, <3>1 DEF Sound, Hashed
    <3>2. QED
      BY <1>6, <3>1
  <2>4. Good(k, r)
    <3>1. None \in h.exist \cup {None}
      OBVIOUS
    <3>2. QED
      BY <2>0, <2>3, <3>1, GoodSetParent
  <2>5. /\ k.exist = h.exist /\ k.name = h.name /\ k.whash = h.whash /\ k.wrap = h.wrap
        /\ \A x \in Objects : \A d : d \in ToSet(k.kids[x]) <=> d # c /\ d \in ToSet(h.kids[x])
    <3>1. None \in Objects \cup {None} /\ c \in Objects /\ h \in HeapType
      BY <1>0, <2>0
    <3>2. Moved(h, k, c, None)
      BY <3>1, SetParentIs
    <3> HIDE DEF c, k
    <3>3. QED
      BY <1>0, <3>2 DEF Moved
  <2> HIDE DEF k
  <2>6. \A d \in ToSet(k.kids[o]) : k.name[d] # n
    BY <1>0, <2>0, <2>5 DEF Sound, Named
  <2>7. CASE v = None
    <3>1. Assigned(h, o, n, v) = Result(k, TRUE)
      BY <1>6, <2>2, <2>7 DEF Assigned
    <3>2. g = k
      BY <3>1, <2>2
    <3> HIDE DEF g
    <3>3. QED
      BY <1>6, <2>4, <2>5, <2>6, <2>7, <3>2 DEF g, AssignedIs
  <2>8. CASE v # None
    <3>1. Assigned(h, o, n, v) = Adopt(k, v, n, o)
      BY <1>6, <2>2, <2>8 DEF Assigned
    <3>2. v \in Wrappers /\ k.wrap[v].obj # None /\ k.wrap[v].reparent /\ o \in k.exist
      BY <2>5, <2>8
    <3>3. o \notin Subtree(k, k.wrap[v].obj)
      <4>1. k.wrap[v].obj \in k.exist
        BY <2>4, <3>2 DEF Good, Sound, Hashed
      <4>2. Closed(h, h.exist) /\ Closed(k, k.exist)
        BY <1>0, <2>4 DEF Good, Sound, Forest
      <4>3. \A x \in k.exist : ToSet(k.kids[x]) \subseteq ToSet(h.kids[x])
        BY <1>0, <2>5
      <4>4. Subtree(k, k.wrap[v].obj) \subseteq Subtree(h, k.wrap[v].obj)
        BY <2>5, <4>1, <4>2, <4>3, SubtreeLess
      <4>5. QED
        BY <2>5, <2>8, <4>4
    <3>4. \A d \in ToSet(k.kids[o]) : d # k.wrap[v].obj => k.name[d] # n
      BY <2>6
    <3> HIDE DEF g
    <3>5. /\ Good(g, r) /\ g.exist = k.exist /\ g.wrap = k.wrap /\ g.whash = k.whash
          /\ k.wrap[v].obj \in ToSet(g.kids[o]) /\ g.name[k.wrap[v].obj] = n
          /\ \A p \in Objects : p # o =>
               k.wrap[v].obj \notin ToSet(g.kids[p]) /\ ToSet(g.kids[p]) \subseteq ToSet(k.kids[p])
      <4>1. AdoptedIs(k, r, k.wrap[v].obj, o, n, Adopt(k, v, n, o).heap)
        BY <2>4, <3>2, <3>3, <3>4, GoodAdopted
      <4>2. QED
        BY <3>1, <4>1 DEF g, AdoptedIs
    <3>6. QED
      BY <1>6, <2>5, <2>8, <3>5 DEF g, AssignedIs
  <2>9. QED
    BY <2>7, <2>8
<1>7. QED
  BY <1>4, <1>5, <1>6 DEF AssignedIs

(***************************************************************************)
(* The invariant.                                                          *)
(***************************************************************************)

Call == [w : Wrappers, id : Nat, todo : Seq(Nat)]
Ids(x) == {k.id : k \in ToSet(x.conns)}

(* A slot that runs, with what its emission has yet to call.               *)
Runs(h, l, f) ==
  l[f.w] > 0 /\ f.id \in DOMAIN h.wrap[f.w].slots /\ ToSet(f.todo) \subseteq Ids(h.wrap[f.w])

Running1(h, l, s) == s \in Seq(Call) /\ \A i \in DOMAIN s : Runs(h, l, s[i])

Iterates(h, l, it) ==
  it = NoIter \/ /\ it \in [w : Wrappers, id : Nat] /\ l[it.w] > 0
                 /\ h.wrap[it.w].obj # None => it.id < Len(h.kids[h.wrap[it.w].obj])

Within(l) == l \in Refs /\ \A w \in Wrappers : l[w] <= uses.refs

(* When ~State has begun nothing runs, and when it is over no wrapper has  *)
(* a QObject.                                                              *)
Phased ==
  /\ phase \in {"open", "closing", "closed"}
  /\ phase # "open" => calls = <<>> /\ iter = NoIter /\ \A w \in Wrappers : cpp[w] = 0
  /\ phase = "closed" => \A w \in Wrappers : heap.wrap[w].obj = None

IInv ==
  /\ uses \in Programs
  /\ Within(lua) /\ Within(cpp)
  /\ Good(heap, Total(lua, cpp))
  /\ Running1(heap, lua, calls)
  /\ Iterates(heap, lua, iter)
  /\ Phased

LEMMA SameRefs ==
  ASSUME NEW l, NEW c, NEW f \in [Wrappers -> Int], \A w \in Wrappers : l[w] + c[w] = f[w]
  PROVE  Total(l, c) = f
<1>1. Total(l, c) = [w \in Wrappers |-> f[w]]
  BY DEF Total
<1>2. QED
  BY <1>1

LEMMA TotalIs ==
  ASSUME NEW l \in Refs, NEW c \in Refs, NEW w \in Wrappers
  PROVE  /\ Total(l, c) \in Refs /\ Total(l, c)[w] = l[w] + c[w]
         /\ Total(Plus(l, w), c) = Plus(Total(l, c), w)
         /\ Total(l, Plus(c, w)) = Plus(Total(l, c), w)
         /\ Total(Minus(l, w), c) = Minus(Total(l, c), w)
         /\ Total(l, Minus(c, w)) = Minus(Total(l, c), w)
<1> DEFINE t == Total(l, c)
<1>1. t \in Refs /\ \A x \in Wrappers : t[x] = l[x] + c[x] /\ l[x] \in Nat /\ c[x] \in Nat /\ t[x] \in Nat
  BY DEF Total, Refs
<1> HIDE DEF t
<1>2. ASSUME NEW f \in Refs
      PROVE  /\ Plus(f, w) \in [Wrappers -> Int] /\ Minus(f, w) \in [Wrappers -> Int]
             /\ \A x \in Wrappers : /\ Plus(f, w)[x] = IF x = w THEN f[x] + 1 ELSE f[x]
                                    /\ Minus(f, w)[x] = IF x = w THEN f[x] - 1 ELSE f[x]
  BY DEF Plus, Minus, Refs
<1>3. Total(Plus(l, w), c) = Plus(t, w)
  BY <1>1, <1>2, SameRefs
<1>4. Total(l, Plus(c, w)) = Plus(t, w)
  <2>1. \A x \in Wrappers : l[x] + Plus(c, w)[x] = Plus(t, w)[x]
    BY <1>1, <1>2
  <2>2. QED
    BY <1>1, <1>2, <2>1, SameRefs
<1>5. Total(Minus(l, w), c) = Minus(t, w)
  BY <1>1, <1>2, SameRefs
<1>6. Total(l, Minus(c, w)) = Minus(t, w)
  <2>1. \A x \in Wrappers : l[x] + Minus(c, w)[x] = Minus(t, w)[x]
    BY <1>1, <1>2
  <2>2. QED
    BY <1>1, <1>2, <2>1, SameRefs
<1>7. QED
  BY <1>1, <1>3, <1>4, <1>5, <1>6 DEF t

(* A step that leaves h, with what runs and what is iterated over as it    *)
(* is to be.                                                               *)
LEMMA CoreInv ==
  ASSUME IInv, Careful, NEW h, Becomes(h), UNCHANGED <<uses, phase>>, phase # "closed",
         Within(lua)', Within(cpp)', Good(h, Total(lua', cpp')),
         phase = "closing" => cpp' = cpp /\ iter' = iter,
         \A i \in DOMAIN calls : /\ lua'[calls[i].w] > 0
                                 /\ calls[i].id \in DOMAIN h.wrap[calls[i].w].slots,
         Iterates(h, lua', iter')
  PROVE  IInv'
<1>1. /\ heap' = h
      /\ calls' = [i \in DOMAIN calls |->
                    [calls[i] EXCEPT !.todo = Kept(@, {k.id : k \in ToSet(h.wrap[calls[i].w].conns)})]]
  BY DEF Becomes
<1>2. calls \in Seq(Call)
  BY DEF IInv, Running1
<1>3. PICK m \in Nat : DOMAIN calls = 1 .. m /\ Len(calls) = m
  BY <1>2, LenProperties
<1>4. ASSUME NEW i \in 1 .. m
      PROVE  calls'[i] \in Call /\ Runs(h, lua', calls'[i])
  <2> DEFINE S == Ids(h.wrap[calls[i].w])
  <2>1. calls[i] \in Call /\ calls[i].todo \in Seq(Nat)
    <3>1. calls[i] \in Call
      BY <1>2, <1>3, ElementOfSeq
    <3>2. QED
      BY <3>1 DEF Call
  <2>2. calls'[i] = [calls[i] EXCEPT !.todo = Kept(calls[i].todo, S)]
    BY <1>1, <1>3 DEF Ids
  <2>3. Kept(calls[i].todo, S) \in Seq(Nat) /\ ToSet(Kept(calls[i].todo, S)) \subseteq S
    <3> HIDE DEF S
    <3>1. QED
      BY <2>1, KeptIs
  <2>4. /\ calls'[i] \in Call /\ calls'[i].w = calls[i].w /\ calls'[i].id = calls[i].id
        /\ calls'[i].todo = Kept(calls[i].todo, S)
    <3> HIDE DEF S
    <3>1. QED
      BY <2>1, <2>2, <2>3 DEF Call
  <2>5. QED
    BY <1>3, <2>3, <2>4 DEF Runs
<1>5. calls' \in Seq(Call) /\ DOMAIN calls' = 1 .. m
  <2>1. DOMAIN calls' = 1 .. m /\ calls' = [i \in 1 .. m |-> calls'[i]]
    BY <1>1, <1>3
  <2>2. calls' \in [1 .. m -> Call]
    BY <1>4, <2>1
  <2>3. QED
    BY <2>1, <2>2, SeqDef
<1>6. Running1(heap, lua, calls)'
  BY <1>1, <1>4, <1>5 DEF Running1
<1>7. Iterates(heap, lua, iter)'
  BY <1>1
<1>8. Phased'
  <2>1. CASE phase = "open"
    BY <2>1 DEF Phased
  <2>2. CASE phase = "closing"
    <3>1. calls = <<>>
      BY <2>2 DEF IInv, Phased
    <3>2. m = 0
      BY <1>3, <3>1
    <3>3. calls' = <<>>
      BY <1>5, <3>2, EmptySeq
    <3>4. QED
      BY <2>2, <3>3 DEF IInv, Phased
  <2>3. QED
    BY <2>1, <2>2 DEF IInv, Phased
<1>9. QED
  BY <1>1, <1>6, <1>7, <1>8 DEF IInv, Within

(* A step that leaves h, and what was used in use.                         *)
LEMMA StepInv ==
  ASSUME IInv, Careful, NEW h, Becomes(h), UNCHANGED <<uses, iter, phase>>, phase # "closed",
         Within(lua)', Within(cpp)', Good(h, Total(lua', cpp')),
         phase = "closing" => cpp' = cpp,
         \A i \in DOMAIN calls : /\ lua'[calls[i].w] > 0
                                 /\ calls[i].id \in DOMAIN h.wrap[calls[i].w].slots,
         iter # NoIter => /\ lua'[iter.w] > 0
                          /\ h.wrap[iter.w].obj \in {heap.wrap[iter.w].obj, None}
  PROVE  IInv'
<1>1. heap' = h /\ ~ Shrinks(h)
  BY DEF Becomes
<1>2. Iterates(h, lua', iter')
  <2>1. CASE iter = NoIter
    BY <2>1 DEF Iterates
  <2>2. CASE iter # NoIter
    <3>1. iter \in [w : Wrappers, id : Nat] /\ lua'[iter.w] > 0
      BY <2>2 DEF IInv, Iterates
    <3>2. ASSUME h.wrap[iter.w].obj # None PROVE iter.id < Len(h.kids[h.wrap[iter.w].obj])
      <4> DEFINE o == heap.wrap[iter.w].obj
      <4>1. h.wrap[iter.w].obj = o /\ o # None
        BY <2>2, <3>2
      <4>2. iter.id < Len(heap.kids[o])
        BY <2>2, <4>1 DEF IInv, Iterates
      <4>3. ~ Len(h.kids[o]) < Len(heap.kids[o])
        BY <1>1, <2>2, <4>1 DEF Shrinks
      <4>4. o \in Objects /\ heap.kids[o] \in Seq(Objects) /\ h.kids[o] \in Seq(Objects)
        BY <3>1, <4>1, WrapperType DEF IInv, Good, Sound, HeapType
      <4>5. Len(h.kids[o]) \in Nat /\ Len(heap.kids[o]) \in Nat /\ iter.id \in Nat
        BY <3>1, <4>4, LenProperties
      <4> HIDE DEF o
      <4>6. QED
        BY <4>1, <4>2, <4>3, <4>5
    <3>3. QED
      BY <3>1, <3>2 DEF Iterates
  <2>3. QED
    BY <2>1, <2>2
<1>3. QED
  BY <1>2, CoreInv

(* Where what is used stays as it is, or loses its QObject.                *)
LEMMA FollowInv ==
  ASSUME IInv, Careful, NEW h, Becomes(h), UNCHANGED <<uses, iter, phase>>, phase # "closed",
         Within(lua)', Within(cpp)', Good(h, Total(lua', cpp')),
         phase = "closing" => cpp' = cpp,
         \A i \in DOMAIN calls : lua'[calls[i].w] > 0,
         iter # NoIter => lua'[iter.w] > 0,
         \A w \in Wrappers : lua[w] > 0 /\ lua'[w] > 0 =>
           h.wrap[w].obj \in {heap.wrap[w].obj, None} /\ h.wrap[w].slots = heap.wrap[w].slots
  PROVE  IInv'
<1>1. \A i \in DOMAIN calls :
        calls[i].w \in Wrappers /\ lua[calls[i].w] > 0 /\ calls[i].id \in DOMAIN heap.wrap[calls[i].w].slots
  <2>1. calls \in Seq(Call) /\ \A i \in DOMAIN calls : Runs(heap, lua, calls[i])
    BY DEF IInv, Running1
  <2>2. \A i \in DOMAIN calls : calls[i] \in Call
    BY <2>1
  <2>3. QED
    BY <2>1, <2>2 DEF Runs, Call
<1>2. \A i \in DOMAIN calls : /\ lua'[calls[i].w] > 0
                              /\ calls[i].id \in DOMAIN h.wrap[calls[i].w].slots
  BY <1>1
<1>3. iter # NoIter => /\ lua'[iter.w] > 0
                       /\ h.wrap[iter.w].obj \in {heap.wrap[iter.w].obj, None}
  BY DEF IInv, Iterates
<1>4. QED
  BY <1>2, <1>3, StepInv

LEMMA InvFacts ==
  ASSUME IInv
  PROVE  /\ heap \in HeapType /\ Sound(heap) /\ Good(heap, Total(lua, cpp)) /\ Total(lua, cpp) \in Refs
         /\ lua \in Refs /\ cpp \in Refs
         /\ \A w \in Wrappers : /\ lua[w] \in Nat /\ cpp[w] \in Nat /\ Total(lua, cpp)[w] = lua[w] + cpp[w]
                                /\ lua[w] <= uses.refs /\ cpp[w] <= uses.refs
                                /\ heap.wrap[w].obj \in heap.exist \cup {None}
         /\ heap.exist \subseteq Objects /\ None \notin Objects /\ None \notin heap.exist
         /\ Closed(heap, heap.exist)
         /\ uses.objects \subseteq Objects /\ uses.refs \in Nat /\ uses.refs > 0
         /\ \A i \in DOMAIN calls : /\ calls[i].w \in Wrappers /\ lua[calls[i].w] > 0
                                    /\ calls[i].id \in DOMAIN heap.wrap[calls[i].w].slots
         /\ iter # NoIter => iter.w \in Wrappers /\ lua[iter.w] > 0
<1>1. heap \in HeapType /\ Sound(heap) /\ Good(heap, Total(lua, cpp)) /\ lua \in Refs /\ cpp \in Refs
  BY DEF IInv, Good, Sound, Within
<1>2. /\ Total(lua, cpp) \in Refs
      /\ \A w \in Wrappers : lua[w] \in Nat /\ cpp[w] \in Nat /\ Total(lua, cpp)[w] = lua[w] + cpp[w]
  BY <1>1 DEF Total, Refs
<1>3. \A w \in Wrappers : lua[w] <= uses.refs /\ cpp[w] <= uses.refs
  BY DEF IInv, Within
<1>4. /\ \A w \in Wrappers : heap.wrap[w].obj \in heap.exist \cup {None}
      /\ Closed(heap, heap.exist)
  BY <1>1 DEF Sound, Hashed, Forest
<1>5. heap.exist \subseteq Objects /\ None \notin Objects
  BY <1>1, WrapperAssumption DEF HeapType
<1>6. uses.objects \subseteq Objects /\ uses.refs \in Nat /\ uses.refs > 0
  <2>1. uses \in Programs
    BY DEF IInv
  <2>2. uses.objects \subseteq Objects /\ uses.refs \in Nat \ {0}
    BY <2>1, WrapperAssumption
  <2>3. QED
    BY <2>2
<1>7. ASSUME NEW i \in DOMAIN calls
      PROVE  /\ calls[i].w \in Wrappers /\ lua[calls[i].w] > 0
             /\ calls[i].id \in DOMAIN heap.wrap[calls[i].w].slots
  <2>1. calls[i] \in Call /\ Runs(heap, lua, calls[i])
    BY DEF IInv, Running1
  <2>2. QED
    BY <2>1 DEF Call, Runs
<1>8. iter # NoIter => iter.w \in Wrappers /\ lua[iter.w] > 0
  BY DEF IInv, Iterates
<1>9. QED
  BY <1>1, <1>2, <1>3, <1>4, <1>5, <1>6, <1>7, <1>8

(* No reference is taken or dropped.                                       *)
LEMMA SameUsersInv ==
  ASSUME IInv, Careful, NEW h, Becomes(h), UNCHANGED <<uses, lua, cpp, iter, phase>>, phase # "closed",
         Good(h, Total(lua, cpp)), Follows(heap, h, Total(lua, cpp))
  PROVE  IInv'
<1>1. \A w \in Wrappers : lua[w] > 0 =>
        h.wrap[w].obj \in {heap.wrap[w].obj, None} /\ h.wrap[w].slots = heap.wrap[w].slots
  <2>1. \A w \in Wrappers : lua[w] > 0 => Total(lua, cpp)[w] > 0
    BY InvFacts
  <2>2. QED
    BY <2>1 DEF Follows
<1>2. Within(lua)' /\ Within(cpp)'
  BY DEF IInv, Within
<1>3. Good(h, Total(lua', cpp'))
  OBVIOUS
<1>4. /\ \A i \in DOMAIN calls : lua'[calls[i].w] > 0
      /\ iter # NoIter => lua'[iter.w] > 0
  BY InvFacts
<1>5. QED
  BY <1>1, <1>2, <1>3, <1>4, FollowInv

LEMMA InitInv == Init => IInv
<1> SUFFICES ASSUME Init PROVE IInv
  OBVIOUS
<1>1. /\ heap.exist = {} /\ heap.kids = [o \in Objects |-> <<>>] /\ heap.name = [o \in Objects |-> None]
      /\ heap.whash = [o \in Objects |-> None] /\ heap.wrap = [w \in Wrappers |-> Blank]
      /\ heap = [exist |-> {}, kids |-> [o \in Objects |-> <<>>], name |-> [o \in Objects |-> None],
                 whash |-> [o \in Objects |-> None], wrap |-> [w \in Wrappers |-> Blank]]
  BY DEF Init
<1>2. Blank \in WrapType /\ Wired(Blank) /\ Blank.obj = None /\ Blank.count = 0 /\ <<>> \in Seq(Objects)
  BY BlankType
<1>3. heap \in HeapType
  BY <1>1, <1>2 DEF HeapType
<1>4. \A w \in Wrappers : heap.wrap[w] = Blank
  BY <1>1
<1>5. Hashed(heap)
  <2>1. \A o \in Objects : heap.whash[o] = None /\ o # None
    BY <1>1, WrapperAssumption
  <2>2. \A w \in Wrappers : w # None
    BY WrapperAssumption
  <2>3. QED
    BY <1>2, <1>4, <2>1, <2>2 DEF Hashed
<1>6. Slotted(heap)
  BY <1>2, <1>4 DEF Slotted
<1>7. Forest(heap) /\ Named(heap)
  BY <1>1 DEF Forest, Named, Closed
<1>8. lua \in Refs /\ cpp \in Refs /\ \A w \in Wrappers : lua[w] = 0 /\ cpp[w] = 0 /\ Total(lua, cpp)[w] = 0
  BY DEF Init, Refs, Total
<1>9. Counted(heap, Total(lua, cpp)) /\ Owned(heap, Total(lua, cpp))
  BY <1>2, <1>4, <1>8 DEF Counted, Owned
<1>10. uses \in Programs /\ uses.refs \in Nat
  BY WrapperAssumption DEF Init
<1>11. Running1(heap, lua, calls)
  BY DEF Init, Running1
<1>12. Iterates(heap, lua, iter) /\ Phased
  BY DEF Init, Iterates, Phased
<1>13. Within(lua) /\ Within(cpp)
  BY <1>8, <1>10 DEF Within
<1>14. QED
  BY <1>3, <1>5, <1>6, <1>7, <1>9, <1>10, <1>11, <1>12, <1>13 DEF IInv, Good, Sound

(***************************************************************************)
(* Each step keeps it.                                                     *)
(***************************************************************************)

LEMMA DeleteInv ==
  ASSUME IInv, Careful, NEW o \in Objects, Delete(o)
  PROVE  IInv'
<1> DEFINE h == Destroyed(heap, Subtree(heap, o))
<1>1. o \in heap.exist /\ Becomes(h) /\ UNCHANGED <<uses, lua, cpp, iter, phase>> /\ phase # "closed"
  BY DEF Delete, Open
<1>2. Subtree(heap, o) \in SUBSET heap.exist /\ Closed(heap, Subtree(heap, o))
  BY <1>1, InvFacts, SubtreeIs
<1>3. Good(h, Total(lua, cpp)) /\ Follows(heap, h, Total(lua, cpp))
  BY <1>2, InvFacts, GoodDestroyed
<1> HIDE DEF h
<1>4. QED
  BY <1>1, <1>3, SameUsersInv

(* Setting a parent leaves the wrappers alone.                             *)
LEMMA ParentFollows ==
  ASSUME NEW h \in HeapType, NEW o \in Objects, NEW p \in Objects \cup {None}, NEW g, NEW r, g.wrap = h.wrap
  PROVE  Follows(g, SetParent(h, o, p), r) /\ SetParent(h, o, p).wrap = h.wrap
<1>1. SetParent(h, o, p).wrap = h.wrap
  BY SetParentIs DEF Moved
<1>2. QED
  BY <1>1 DEF Follows

LEMMA MoveInv ==
  ASSUME IInv, Careful, NEW o \in Objects, NEW p \in Objects \cup {None}, Move(o, p)
  PROVE  IInv'
<1> DEFINE h == SetParent(heap, o, p)
           r == Total(lua, cpp)
<1>1. /\ o \in heap.exist /\ p \in heap.exist \cup {None} /\ Becomes(h)
      /\ UNCHANGED <<uses, lua, cpp, iter, phase>> /\ phase # "closed"
      /\ p # None => p \notin Subtree(heap, o)
      /\ p = None => Known(o)
      /\ p # None /\ heap.name[o] # None => \A c \in ToSet(heap.kids[p]) : heap.name[c] # heap.name[o]
  BY DEF Move, Open
<1>2. p = None => \A w \in Wrappers : heap.wrap[w].obj = o /\ heap.wrap[w].delete => r[w] > 0
  <2>1. \A w \in Wrappers : heap.wrap[w].obj = o => heap.whash[o] = w
    BY <1>1, InvFacts DEF Sound, Hashed
  <2>2. \A w \in Wrappers : r[w] = lua[w] + cpp[w]
    BY InvFacts
  <2> HIDE DEF r
  <2>3. QED
    BY <1>1, <2>1, <2>2 DEF Known
<1>3. Good(heap, r) /\ r \in Refs
  BY InvFacts
<1> HIDE DEF r
<1>4. Good(h, r)
  BY <1>1, <1>2, <1>3, GoodSetParent
<1>5. Follows(heap, h, r)
  BY InvFacts, ParentFollows
<1> HIDE DEF h
<1>6. QED
  BY <1>1, <1>4, <1>5, SameUsersInv DEF r

(* A new object with a name, put below p.                                  *)
Below(h, o, n, p) == SetParent([h EXCEPT !.exist = @ \cup {o}, !.name[o] = n], o, p)

LEMMA AddedBelow ==
  ASSUME NEW h, NEW r \in Refs, Good(h, r), NEW o \in Objects, o \notin h.exist,
         NEW n \in Names \cup {None}, NEW p \in h.exist \cup {None},
         p # None /\ n # None => get_child(h, p, n) = None
  PROVE  /\ Good(Below(h, o, n, p), r)
         /\ Below(h, o, n, p).wrap = h.wrap /\ Below(h, o, n, p).whash = h.whash
         /\ Below(h, o, n, p).exist = h.exist \cup {o}
<1> DEFINE N == [h.name EXCEPT ![o] = n]
           k == [h EXCEPT !.exist = @ \cup {o}, !.name[o] = n]
           g == SetParent(k, o, p)
<1>0. /\ h \in HeapType /\ h.exist \subseteq Objects /\ None \notin Objects /\ Sound(h)
      /\ Closed(h, h.exist)
  BY WrapperAssumption DEF Good, Sound, HeapType, Forest
<1>1. /\ N \in [Objects -> Names \cup {None}] /\ N[o] = n
      /\ \A c \in Objects : c # o => N[c] = h.name[c]
  BY <1>0 DEF HeapType
<1>2. k = [h EXCEPT !.exist = h.exist \cup {o}, !.name = N]
  BY <1>0 DEF HeapType
<1> HIDE DEF N, k
<1>3. /\ k \in HeapType /\ k.exist = h.exist \cup {o} /\ k.kids = h.kids /\ k.name = N /\ k.whash = h.whash
      /\ k.wrap = h.wrap
  BY <1>0, <1>1, <1>2 DEF HeapType
<1>4. /\ Good(k, r) /\ Subtree(k, o) = {o}
      /\ \A q \in h.exist : o \notin ToSet(k.kids[q])
  BY <1>1, <1>3, GoodAdded
<1>5. p # None => p \notin Subtree(k, o)
  BY <1>4
<1>6. p # None => \A c \in ToSet(k.kids[p]) : c # o => k.name[o] = None \/ k.name[c] # k.name[o]
  <2>1. ASSUME p # None, n # None, NEW c \in ToSet(k.kids[p]), c # o PROVE k.name[c] # n
    <3>1. p \in Objects /\ c \in ToSet(h.kids[p]) /\ c \in Objects
      BY <1>0, <1>3, <2>1 DEF Closed
    <3>2. h.name[c] # n
      BY <1>0, <2>1, <3>1, ChildIs
    <3>3. QED
      BY <1>1, <1>3, <2>1, <3>1, <3>2
  <2>2. QED
    BY <1>1, <1>3, <2>1
<1>7. p = None => \A w \in Wrappers : k.wrap[w].obj = o /\ k.wrap[w].delete => r[w] > 0
  <2>1. \A w \in Wrappers : h.wrap[w].obj # o
    BY <1>0 DEF Sound, Hashed
  <2>2. QED
    BY <1>3, <2>1
<1>8. o \in k.exist /\ p \in k.exist \cup {None}
  BY <1>3
<1>9. Good(g, r)
  BY <1>4, <1>5, <1>6, <1>7, <1>8, GoodSetParent
<1>10. g.wrap = h.wrap /\ g.whash = h.whash /\ g.exist = h.exist \cup {o}
  <2>1. p \in Objects \cup {None}
    BY <1>0
  <2>2. Moved(k, g, o, p)
    BY <1>3, <2>1, SetParentIs
  <2>3. QED
    BY <1>3, <2>2 DEF Moved
<1>11. QED
  BY <1>9, <1>10 DEF k, Below

LEMMA NewInv ==
  ASSUME IInv, Careful, NEW o \in Objects, NEW p \in Objects \cup {None}, New(o, p)
  PROVE  IInv'
<1> DEFINE k == [heap EXCEPT !.exist = @ \cup {o}]
           h == SetParent(k, o, p)
           r == Total(lua, cpp)
<1>1. /\ o \notin heap.exist /\ p \in heap.exist \cup {None} /\ Becomes(h)
      /\ UNCHANGED <<uses, lua, cpp, iter, phase>> /\ phase # "closed"
  BY DEF New, Open
<1>2. heap \in HeapType /\ heap.name[o] = None
  BY <1>1, InvFacts DEF Sound, Forest
<1>3. k = [heap EXCEPT !.exist = @ \cup {o}, !.name[o] = None]
  BY <1>2 DEF HeapType
<1>4. Good(h, r) /\ h.wrap = heap.wrap
  <2> DEFINE g == Below(heap, o, None, p)
  <2>1. Good(heap, r) /\ r \in Refs
    BY InvFacts
  <2> HIDE DEF r
  <2>2. Good(g, r) /\ g.wrap = heap.wrap
    <3>1. o \notin heap.exist /\ p \in heap.exist \cup {None} /\ None \in Names \cup {None}
      BY <1>1
    <3>2. QED
      BY ONLY <2>1, <3>1, o \in Objects, AddedBelow DEF g
  <2>3. h = g
    BY <1>3 DEF Below
  <2>4. QED
    BY <2>2, <2>3
<1>5. Follows(heap, h, r)
  BY <1>4 DEF Follows
<1> HIDE DEF h
<1>6. QED
  BY <1>1, <1>4, <1>5, SameUsersInv

(* One reference more, or one less.                                        *)
LEMMA WithinOne ==
  ASSUME IInv, NEW w \in Wrappers
  PROVE  /\ lua[w] < uses.refs => Within(Plus(lua, w))
         /\ cpp[w] < uses.refs => Within(Plus(cpp, w))
         /\ lua[w] > 0 => Within(Minus(lua, w))
         /\ cpp[w] > 0 => Within(Minus(cpp, w))
<1>1. /\ lua \in Refs /\ cpp \in Refs /\ uses.refs \in Nat
      /\ \A x \in Wrappers : lua[x] \in Nat /\ cpp[x] \in Nat /\ lua[x] <= uses.refs /\ cpp[x] <= uses.refs
  BY InvFacts
<1>2. ASSUME NEW l \in Refs, \A x \in Wrappers : l[x] \in Nat /\ l[x] <= uses.refs
      PROVE  /\ l[w] < uses.refs => Within(Plus(l, w))
             /\ l[w] > 0 => Within(Minus(l, w))
  <2>1. ASSUME l[w] < uses.refs PROVE Within(Plus(l, w))
    BY <1>1, <1>2, <2>1 DEF Within, Refs, Plus
  <2>2. ASSUME l[w] > 0 PROVE Within(Minus(l, w))
    BY <1>1, <1>2, <2>2 DEF Within, Refs, Minus
  <2>3. QED
    BY <2>1, <2>2
<1>3. QED
  BY <1>1, <1>2

(* A wrapper got for Lua.                                                  *)
LEMMA TakenIs ==
  ASSUME IInv, NEW k, Good(k, Total(lua, cpp)), k.wrap = heap.wrap, NEW o \in k.exist, Wrappable(k, o)
  PROVE  /\ Got(k, o) \in Wrappers
         /\ Good(get_wrapper(k, o), Total(Plus(lua, Got(k, o)), cpp))
         /\ Total(Plus(lua, Got(k, o)), cpp) \in Refs
         /\ Total(Plus(lua, Got(k, o)), cpp)[Got(k, o)] > 0
         /\ lua[Got(k, o)] < uses.refs => Within(Plus(lua, Got(k, o)))
         /\ k.whash[o] = None => lua[Got(k, o)] < uses.refs
         /\ \A x \in Wrappers : lua[x] > 0 =>
              /\ Plus(lua, Got(k, o))[x] > 0
              /\ get_wrapper(k, o).wrap[x].obj \in {heap.wrap[x].obj, None}
              /\ get_wrapper(k, o).wrap[x].slots = heap.wrap[x].slots
         /\ get_wrapper(k, o).exist = k.exist /\ get_wrapper(k, o).kids = k.kids
         /\ get_wrapper(k, o).name = k.name
<1> DEFINE g == get_wrapper(k, o)
           w == Got(k, o)
           r == Total(lua, cpp)
           q == Plus(r, w)
<1>1. r \in Refs /\ lua \in Refs /\ cpp \in Refs /\ uses.refs \in Nat /\ uses.refs > 0
  BY InvFacts
<1>a. \A x \in Wrappers : lua[x] \in Nat /\ cpp[x] \in Nat /\ r[x] = lua[x] + cpp[x]
  BY InvFacts
<1>2. /\ w \in Wrappers /\ q \in Refs /\ Good(g, q) /\ Follows(k, g, r)
      /\ g.exist = k.exist /\ g.kids = k.kids /\ g.name = k.name
      /\ k.whash[o] = None => r[w] = 0
  <2>1. GotIs(k, r, o)
    BY <1>1, GoodGot
  <2>2. QED
    BY <2>1 DEF GotIs
<1>3. q = Total(Plus(lua, w), cpp)
  BY <1>1, <1>2, TotalIs
<1>4. q[w] > 0
  BY <1>1, <1>2, <1>a DEF Refs, Plus
<1> HIDE DEF r, q, g, w
<1>5. lua[w] < uses.refs => Within(Plus(lua, w))
  BY <1>2, WithinOne
<1>6. k.whash[o] = None => lua[w] < uses.refs
  BY <1>1, <1>2, <1>a
<1>7. ASSUME NEW x \in Wrappers, lua[x] > 0
      PROVE  Plus(lua, w)[x] > 0 /\ g.wrap[x].obj \in {heap.wrap[x].obj, None} /\ g.wrap[x].slots = heap.wrap[x].slots
  <2>1. r[x] > 0
    BY <1>7, <1>a
  <2>2. g.wrap[x].obj \in {k.wrap[x].obj, None} /\ g.wrap[x].slots = k.wrap[x].slots
    BY <2>1, <1>2 DEF Follows
  <2>3. Plus(lua, w)[x] > 0
    BY <1>1, <1>2, <1>7, <1>a DEF Plus, Refs
  <2>4. QED
    BY <2>2, <2>3
<1>8. QED
  BY <1>2, <1>3, <1>4, <1>5, <1>6, <1>7 DEF g, w

LEMMA GiveInv ==
  ASSUME IInv, Careful, NEW o \in Objects, NEW flags \in Flags \cup {None}, Give(o, flags)
  PROVE  IInv'
<1> DEFINE k == get_wrapper(heap, o)
           w == Got(heap, o)
           r == Total(Plus(lua, w), cpp)
           h == IF flags = None THEN k ELSE Flagged(k, w, flags.reparent, flags.delete)
<1>1. /\ o \in heap.exist /\ Wrappable(heap, o) /\ lua[w] < uses.refs /\ lua' = Plus(lua, w)
      /\ Becomes(h) /\ UNCHANGED <<uses, cpp, iter, phase>> /\ phase = "open"
  BY DEF Give, Open, Got, Plus
<1>2. /\ w \in Wrappers /\ Good(k, r) /\ r \in Refs /\ r[w] > 0 /\ Within(Plus(lua, w))
      /\ \A x \in Wrappers : lua[x] > 0 =>
           /\ Plus(lua, w)[x] > 0 /\ k.wrap[x].obj \in {heap.wrap[x].obj, None}
           /\ k.wrap[x].slots = heap.wrap[x].slots
  BY <1>1, InvFacts, TakenIs
<1>3. flags # None => flags.reparent \in BOOLEAN /\ flags.delete \in BOOLEAN
  BY DEF Flags
<1> HIDE DEF k, w, r
<1>4. /\ Good(h, r)
      /\ \A x \in Wrappers : lua[x] > 0 =>
           h.wrap[x].obj \in {heap.wrap[x].obj, None} /\ h.wrap[x].slots = heap.wrap[x].slots
  <2>1. CASE flags = None
    BY <2>1, <1>2
  <2>2. CASE flags # None
    <3>1. flags.reparent \in BOOLEAN /\ flags.delete \in BOOLEAN
      BY <2>2, <1>3
    <3> DEFINE g == Flagged(k, w, flags.reparent, flags.delete)
    <3>2. /\ Good(g, r) /\ \A x \in Wrappers : g.wrap[x].obj = k.wrap[x].obj /\ g.wrap[x].slots = k.wrap[x].slots
      BY <1>2, <3>1, GoodFlags DEF Alike
    <3>3. h = g
      BY <2>2
    <3> HIDE DEF h, g
    <3>4. QED
      BY <1>2, <3>2, <3>3
  <2>3. QED
    BY <2>1, <2>2
<1> HIDE DEF h
<1>5. QED
  BY <1>1, <1>2, <1>4, InvFacts, FollowInv DEF r, IInv, Within

(* A step that takes a wrapper for Lua and does no more.                   *)
LEMMA TakeInv ==
  ASSUME IInv, Careful, NEW o \in heap.exist, Wrappable(heap, o), lua[Got(heap, o)] < uses.refs,
         lua' = Plus(lua, Got(heap, o)), Becomes(get_wrapper(heap, o)),
         UNCHANGED <<uses, cpp, phase>>, phase = "open",
         Iterates(get_wrapper(heap, o), lua', iter')
  PROVE  IInv'
<1> DEFINE k == get_wrapper(heap, o)
           w == Got(heap, o)
           l == Plus(lua, w)
<1>1. /\ w \in Wrappers /\ Good(k, Total(l, cpp)) /\ Within(l)
      /\ \A x \in Wrappers : lua[x] > 0 =>
           l[x] > 0 /\ k.wrap[x].obj \in {heap.wrap[x].obj, None} /\ k.wrap[x].slots = heap.wrap[x].slots
  BY InvFacts, TakenIs
<1>2. Within(lua)' /\ Within(cpp)' /\ Good(k, Total(lua', cpp'))
  BY <1>1 DEF IInv, Within
<1> HIDE DEF k, l
<1>3. \A i \in DOMAIN calls : lua'[calls[i].w] > 0 /\ calls[i].id \in DOMAIN k.wrap[calls[i].w].slots
  BY <1>1, InvFacts DEF l
<1>4. QED
  BY <1>2, <1>3, CoreInv DEF k

LEMMA meta_indexInv ==
  ASSUME IInv, Careful, NEW w \in Wrappers, NEW n \in Names, meta_index(w, n)
  PROVE  IInv'
<1> DEFINE c == get_child(heap, heap.wrap[w].obj, n)
           k == get_wrapper(heap, c)
<1>1. /\ heap.wrap[w].obj # None /\ c # None /\ Wrappable(heap, c) /\ lua[Got(heap, c)] < uses.refs
      /\ lua' = Plus(lua, Got(heap, c)) /\ Becomes(k)
      /\ UNCHANGED <<uses, cpp, iter, phase>> /\ phase = "open"
  BY DEF meta_index, Open, Got, Plus
<1>2. c \in heap.exist
  <2>1. heap.wrap[w].obj \in heap.exist /\ heap.wrap[w].obj \in Objects /\ heap \in HeapType
    BY <1>1, InvFacts
  <2>2. c \in ToSet(heap.kids[heap.wrap[w].obj])
    BY <1>1, <2>1, ChildIs
  <2>3. QED
    BY <2>1, <2>2, InvFacts DEF Closed
<1> HIDE DEF c
<1>3. Iterates(k, lua', iter')
  <2>1. /\ k.kids = heap.kids
        /\ \A x \in Wrappers : lua[x] > 0 => Plus(lua, Got(heap, c))[x] > 0 /\ k.wrap[x].obj \in {heap.wrap[x].obj, None}
    BY <1>1, <1>2, InvFacts, TakenIs
  <2>2. Iterates(heap, lua, iter)
    BY DEF IInv
  <2> HIDE DEF k
  <2>3. QED
    BY <1>1, <2>1, <2>2, InvFacts DEF Iterates
<1>4. QED
  BY <1>1, <1>2, <1>3, TakeInv

LEMMA StepIterInv ==
  ASSUME IInv, Careful, Step
  PROVE  IInv'
<1> DEFINE w == iter.w
           o == heap.wrap[w].obj
           c == heap.kids[o][iter.id + 1]
           k == get_wrapper(heap, c)
<1>1. UNCHANGED <<uses, cpp, phase>> /\ phase = "open" /\ iter # NoIter
  BY DEF Step, Open
<1>2. iter \in [w : Wrappers, id : Nat] /\ w \in Wrappers /\ lua[w] > 0 /\ iter.id \in Nat
  BY <1>1, InvFacts DEF IInv, Iterates
<1>3. CASE More(heap, w, iter.id)
  <2>1. /\ Wrappable(heap, c) /\ lua[Got(heap, c)] < uses.refs
        /\ lua' = Plus(lua, Got(heap, c)) /\ Becomes(k)
        /\ iter' = IF More(heap, w, iter.id + 1) THEN [iter EXCEPT !.id = @ + 1] ELSE NoIter
    BY <1>3 DEF Step, Got, Plus
  <2>2. o # None /\ iter.id < Len(heap.kids[o])
    BY <1>3 DEF More
  <2>3. o \in heap.exist /\ o \in Objects /\ heap.kids[o] \in Seq(Objects)
    BY <1>2, <2>2, InvFacts DEF HeapType
  <2>4. c \in heap.exist
    <3>1. DOMAIN heap.kids[o] = 1 .. Len(heap.kids[o]) /\ Len(heap.kids[o]) \in Nat
      BY <2>3, LenProperties
    <3>2. iter.id + 1 \in DOMAIN heap.kids[o]
      BY <1>2, <2>2, <3>1
    <3>3. c \in ToSet(heap.kids[o])
      BY <3>2 DEF ToSet
    <3>4. QED
      BY <2>3, <3>3, InvFacts DEF Closed
  <2> HIDE DEF c
  <2>5. /\ k.kids = heap.kids /\ Plus(lua, Got(heap, c))[w] > 0 /\ k.wrap[w].obj \in {o, None}
    BY <1>2, <2>1, <2>4, InvFacts, TakenIs
  <2> HIDE DEF k
  <2>6. Iterates(k, lua', iter')
    <3>1. CASE More(heap, w, iter.id + 1)
      <4>1. iter' \in [w : Wrappers, id : Nat] /\ iter'.w = w /\ iter'.id = iter.id + 1
        BY <1>2, <2>1, <3>1
      <4>2. iter'.id < Len(heap.kids[o])
        BY <3>1, <4>1 DEF More
      <4>3. QED
        BY <2>1, <2>5, <4>1, <4>2 DEF Iterates
    <3>2. CASE ~ More(heap, w, iter.id + 1)
      BY <2>1, <3>2 DEF Iterates
    <3>3. QED
      BY <3>1, <3>2
  <2>7. QED
    BY <1>1, <2>1, <2>4, <2>6, TakeInv DEF k
<1>4. CASE ~ More(heap, w, iter.id)
  <2>1. iter' = NoIter /\ UNCHANGED <<heap, lua, calls>>
    BY <1>4 DEF Step
  <2>2. Iterates(heap, lua, iter)'
    BY <2>1 DEF Iterates
  <2>3. QED
    BY <1>1, <2>1, <2>2 DEF IInv, Within, Phased
<1>5. QED
  BY <1>3, <1>4

LEMMA IterateInv ==
  ASSUME IInv, NEW w \in Wrappers, Iterate(w)
  PROVE  IInv'
<1>1. /\ phase = "open" /\ lua[w] > 0 /\ heap.wrap[w].obj # None
      /\ iter' = IF More(heap, w, 0) THEN [w |-> w, id |-> 0] ELSE NoIter
      /\ UNCHANGED <<uses, heap, lua, cpp, calls, phase>>
  BY DEF Iterate, Open
<1>2. Iterates(heap, lua, iter)'
  <2>1. CASE More(heap, w, 0)
    <3>1. iter' = [w |-> w, id |-> 0] /\ 0 < Len(heap.kids[heap.wrap[w].obj])
      BY <1>1, <2>1 DEF More
    <3>2. QED
      BY <1>1, <3>1 DEF Iterates
  <2>2. CASE ~ More(heap, w, 0)
    BY <1>1, <2>2 DEF Iterates
  <2>3. QED
    BY <2>1, <2>2
<1>3. QED
  BY <1>1, <1>2 DEF IInv, Within, Phased

(* One that is given up.                                                   *)
LEMMA UsedIs ==
  ASSUME IInv, NEW w \in Wrappers
  PROVE  /\ Used(w) \in Nat
         /\ \A i \in DOMAIN calls : calls[i].w = w => Used(w) > 0
         /\ iter # NoIter /\ iter.w = w => Used(w) > 0
<1> DEFINE I == {i \in DOMAIN calls : calls[i].w = w}
<1>1. IsFiniteSet(I)
  <2>1. calls \in Seq(Call)
    BY DEF IInv, Running1
  <2>2. IsFiniteSet(DOMAIN calls)
    BY <2>1, LenProperties, FS_Interval
  <2>3. QED
    BY <2>2, FS_Subset
<1>2. Cardinality(I) \in Nat /\ (Cardinality(I) = 0 <=> I = {})
  BY <1>1, FS_CardinalityType, FS_EmptySet
<1>3. Used(w) = Cardinality(I) + (IF iter.w = w THEN 1 ELSE 0)
  BY DEF Used
<1>4. \A i \in DOMAIN calls : calls[i].w = w => I # {}
  OBVIOUS
<1> HIDE DEF I
<1>5. QED
  BY <1>2, <1>3, <1>4

LEMMA CollectInv ==
  ASSUME IInv, Careful, NEW w \in Wrappers, Collect(w)
  PROVE  IInv'
<1> DEFINE h == Dropped(heap, w)
           r == Total(lua, cpp)
           l == Minus(lua, w)
<1>1. /\ phase \in {"open", "closing"} /\ lua' = l /\ Becomes(h) /\ UNCHANGED <<uses, cpp, iter, phase>>
      /\ lua[w] > IF phase = "open" THEN Used(w) ELSE 0
  BY DEF Collect, Minus
<1>2. /\ lua \in Refs /\ cpp \in Refs /\ r \in Refs /\ Good(heap, r) /\ lua[w] \in Nat /\ cpp[w] \in Nat
      /\ r[w] = lua[w] + cpp[w]
  BY InvFacts
<1>3. lua[w] > 0 /\ r[w] > 0 /\ Within(l) /\ (phase = "open" => lua[w] > Used(w))
  BY <1>1, <1>2, UsedIs, WithinOne
<1>4. Good(h, Minus(r, w)) /\ Follows(heap, h, Minus(r, w)) /\ Minus(r, w) = Total(l, cpp) /\ Minus(r, w) \in Refs
  <2>1. Minus(r, w) = Total(l, cpp)
    BY <1>2, TotalIs
  <2> HIDE DEF r
  <2>2. QED
    BY <1>2, <1>3, <2>1, GoodDropped
<1>5. ASSUME NEW x \in Wrappers, lua[x] > 0, x # w \/ lua[w] > 1 PROVE l[x] > 0
  BY <1>2, <1>3, <1>5 DEF Minus, Refs
<1>6. phase = "closing" => calls = <<>> /\ iter = NoIter
  BY DEF IInv, Phased
<1>7. ASSUME NEW i \in DOMAIN calls PROVE l[calls[i].w] > 0
  <2>1. calls[i].w \in Wrappers /\ lua[calls[i].w] > 0
    BY InvFacts
  <2>2. phase = "open"
    BY <1>1, <1>6
  <2>3. calls[i].w = w => lua[w] > 1
    BY <1>2, <1>3, <2>2, UsedIs
  <2>4. QED
    BY <1>5, <2>1, <2>3
<1>8. ASSUME iter # NoIter PROVE l[iter.w] > 0
  <2>1. iter.w \in Wrappers /\ lua[iter.w] > 0
    BY <1>8, InvFacts
  <2>2. phase = "open"
    BY <1>1, <1>6, <1>8
  <2>3. iter.w = w => lua[w] > 1
    BY <1>2, <1>3, <1>8, <2>2, UsedIs
  <2>4. QED
    BY <1>5, <2>1, <2>3
<1>9. ASSUME NEW x \in Wrappers, l[x] > 0
      PROVE  h.wrap[x].obj \in {heap.wrap[x].obj, None} /\ h.wrap[x].slots = heap.wrap[x].slots
  <2>1. l \in Refs
    BY <1>3 DEF Within
  <2>2. Total(l, cpp)[x] = l[x] + cpp[x] /\ l[x] \in Nat /\ cpp[x] \in Nat
    BY <1>2, <2>1, TotalIs DEF Refs
  <2>3. Minus(r, w)[x] > 0
    BY <1>4, <1>9, <2>2
  <2>4. QED
    BY <1>4, <2>3 DEF Follows
<1> HIDE DEF h, r, l
<1>10. Within(lua)' /\ Within(cpp)' /\ Good(h, Total(lua', cpp'))
  BY <1>1, <1>3, <1>4 DEF IInv, Within
<1>11. QED
  BY <1>1, <1>7, <1>8, <1>9, <1>10, FollowInv

LEMMA ReleaseInv ==
  ASSUME IInv, Careful, NEW w \in Wrappers, Release(w)
  PROVE  IInv'
<1> DEFINE h == Dropped(heap, w)
           r == Total(lua, cpp)
           c == Minus(cpp, w)
<1>1. /\ phase = "open" /\ cpp' = c /\ Becomes(h) /\ UNCHANGED <<uses, lua, iter, phase>> /\ cpp[w] > 0
  BY DEF Release, Minus, Open
<1>2. /\ lua \in Refs /\ cpp \in Refs /\ r \in Refs /\ Good(heap, r) /\ lua[w] \in Nat /\ cpp[w] \in Nat
      /\ r[w] = lua[w] + cpp[w]
  BY InvFacts
<1>3. r[w] > 0 /\ Within(c)
  BY <1>1, <1>2, WithinOne
<1>4. Good(h, Minus(r, w)) /\ Follows(heap, h, Minus(r, w)) /\ Minus(r, w) = Total(lua, c) /\ Minus(r, w) \in Refs
  <2>1. Minus(r, w) = Total(lua, c)
    BY <1>2, TotalIs
  <2> HIDE DEF r
  <2>2. QED
    BY <1>2, <1>3, <2>1, GoodDropped
<1>5. ASSUME NEW x \in Wrappers, lua[x] > 0
      PROVE  h.wrap[x].obj \in {heap.wrap[x].obj, None} /\ h.wrap[x].slots = heap.wrap[x].slots
  <2>1. c \in Refs
    BY <1>3 DEF Within
  <2>2. Total(lua, c)[x] = lua[x] + c[x] /\ lua[x] \in Nat /\ c[x] \in Nat
    BY <1>2, <2>1, TotalIs DEF Refs
  <2>3. Minus(r, w)[x] > 0
    BY <1>4, <1>5, <2>2
  <2>4. QED
    BY <1>4, <2>3 DEF Follows
<1> HIDE DEF h, r, c
<1>6. Within(lua)' /\ Within(cpp)' /\ Good(h, Total(lua', cpp'))
  BY <1>1, <1>3, <1>4 DEF IInv, Within
<1>7. /\ \A i \in DOMAIN calls : lua'[calls[i].w] > 0
      /\ iter # NoIter => lua'[iter.w] > 0
  BY <1>1, InvFacts
<1>8. QED
  BY <1>1, <1>5, <1>6, <1>7, FollowInv

(* A wrapper with one reference more.                                      *)
Held(h, w) == [h EXCEPT !.wrap[w].count = @ + 1]

LEMMA GoodHeld ==
  ASSUME NEW h, NEW r \in Refs, Good(h, r), NEW w \in Wrappers
  PROVE  /\ Good(Held(h, w), Plus(r, w)) /\ Held(h, w).kids = h.kids
         /\ \A x \in Wrappers : /\ Held(h, w).wrap[x].obj = h.wrap[x].obj
                                /\ Held(h, w).wrap[x].slots = h.wrap[x].slots
                                /\ Held(h, w).wrap[x].conns = h.wrap[x].conns
<1> DEFINE y == [h.wrap[w] EXCEPT !.count = @ + 1]
           q == Plus(r, w)
<1>1. Sound(h) /\ h.wrap[w] \in WrapType /\ h.wrap[w].count \in Nat /\ h \in HeapType
  BY WrapperType DEF Good, Sound
<1>2. q \in Refs /\ q[w] = r[w] + 1 /\ r[w] \in Nat /\ \A x \in Wrappers : x # w => q[x] = r[x]
  BY DEF Refs, Plus
<1>3. /\ y \in WrapType /\ y.obj = h.wrap[w].obj /\ y.slots = h.wrap[w].slots /\ y.conns = h.wrap[w].conns
      /\ y.count = h.wrap[w].count + 1
  BY <1>1 DEF WrapType
<1>4. Held(h, w) = [h EXCEPT !.wrap[w] = y]
  BY DEF Held
<1> HIDE DEF y, q
<1>5. y.count = q[w] + (IF y.obj # None THEN 1 ELSE 0) /\ q[w] # 0
  BY <1>2, <1>3 DEF Good, Counted
<1>6. \A x \in Wrappers : x # w =>
        /\ h.wrap[x].count = q[x] + (IF h.wrap[x].obj # None THEN 1 ELSE 0)
        /\ ~ (h.wrap[x].obj # None /\ h.wrap[x].delete /\ Alone(h, h.wrap[x].obj) /\ q[x] = 0)
  BY <1>2 DEF Good, Counted, Owned
<1>7. Good([h EXCEPT !.wrap[w] = y], q)
  BY <1>1, <1>2, <1>3, <1>5, <1>6, GoodCount
<1>8. /\ [h EXCEPT !.wrap[w] = y].kids = h.kids
      /\ \A x \in Wrappers : [h EXCEPT !.wrap[w] = y].wrap[x] = IF x = w THEN y ELSE h.wrap[x]
  BY <1>1 DEF HeapType
<1>9. QED
  BY <1>3, <1>4, <1>7, <1>8 DEF q

LEMMA HoldInv ==
  ASSUME IInv, Careful, NEW w \in Wrappers, Hold(w)
  PROVE  IInv'
<1> DEFINE h == Held(heap, w)
           r == Total(lua, cpp)
           c == Plus(cpp, w)
<1>1. /\ phase = "open" /\ cpp' = c /\ Becomes(h) /\ UNCHANGED <<uses, lua, iter, phase>>
      /\ lua[w] > 0 /\ cpp[w] < uses.refs
  BY DEF Hold, Plus, Open, Held
<1>2. lua \in Refs /\ cpp \in Refs /\ r \in Refs /\ Good(heap, r)
  BY InvFacts
<1>3. Within(c) /\ Total(lua, c) = Plus(r, w)
  BY <1>1, <1>2, WithinOne, TotalIs
<1>4. /\ Good(h, Plus(r, w))
      /\ \A x \in Wrappers : h.wrap[x].obj = heap.wrap[x].obj /\ h.wrap[x].slots = heap.wrap[x].slots
  <2> HIDE DEF r
  <2>1. QED
    BY <1>2, GoodHeld
<1> HIDE DEF h, r, c
<1>5. Within(lua)' /\ Within(cpp)' /\ Good(h, Total(lua', cpp'))
  BY <1>1, <1>3, <1>4 DEF IInv, Within
<1>6. /\ \A i \in DOMAIN calls : lua'[calls[i].w] > 0
      /\ iter # NoIter => lua'[iter.w] > 0
  BY <1>1, InvFacts
<1>7. QED
  BY <1>1, <1>4, <1>5, <1>6, FollowInv

(* A function of Lua called for a slot, after some calls that stay.        *)
LEMMA CalledInv ==
  ASSUME IInv, NEW w \in Wrappers, NEW id \in Nat, NEW todo \in Seq(Nat), NEW rest \in Seq(Call),
         Called(w, id, todo, rest), UNCHANGED <<uses, cpp, iter, phase>>, phase = "open",
         \A i \in DOMAIN rest : Runs(heap, lua, rest[i]),
         id \in DOMAIN heap.wrap[w].slots, ToSet(todo) \subseteq Ids(heap.wrap[w])
  PROVE  IInv'
<1> DEFINE h == Held(heap, w)
           r == Total(lua, cpp)
           l == Plus(lua, w)
           new == [w |-> w, id |-> id, todo |-> todo]
<1>1. lua[w] < uses.refs /\ lua' = l /\ heap' = h /\ calls' = Append(rest, new)
  BY DEF Called, Plus, Held
<1>2. lua \in Refs /\ cpp \in Refs /\ r \in Refs /\ Good(heap, r)
  BY InvFacts
<1>3. Within(l) /\ Total(l, cpp) = Plus(r, w)
  BY <1>1, <1>2, WithinOne, TotalIs
<1>4. /\ Good(h, Plus(r, w)) /\ h.kids = heap.kids
      /\ \A x \in Wrappers : /\ h.wrap[x].obj = heap.wrap[x].obj /\ h.wrap[x].slots = heap.wrap[x].slots
                             /\ h.wrap[x].conns = heap.wrap[x].conns
  <2> HIDE DEF r
  <2>1. QED
    BY <1>2, GoodHeld
<1>5. l[w] > 0 /\ \A x \in Wrappers : lua[x] > 0 => l[x] > 0
  BY <1>2 DEF Plus, Refs
<1> HIDE DEF h, r, l
<1>6. ASSUME NEW f \in Call, \/ Runs(heap, lua, f)
                             \/ f = new
      PROVE  Runs(h, l, f)
  <2>1. Ids(h.wrap[f.w]) = Ids(heap.wrap[f.w]) /\ f.w \in Wrappers
    BY <1>4 DEF Ids, Call
  <2>2. QED
    BY <1>4, <1>5, <1>6, <2>1 DEF Runs
<1>7. new \in Call
  BY DEF Call
<1> HIDE DEF new
<1>8. Running1(h, l, Append(rest, new))
  <2>1. Append(rest, new) \in Seq(Call)
    BY <1>7
  <2>2. ASSUME NEW i \in DOMAIN Append(rest, new) PROVE Runs(h, l, Append(rest, new)[i])
    <3>1. Len(rest) \in Nat /\ DOMAIN Append(rest, new) = 1 .. Len(rest) + 1 /\ DOMAIN rest = 1 .. Len(rest)
      BY <1>7
    <3>2. CASE i = Len(rest) + 1
      BY <1>6, <1>7, <3>1, <3>2
    <3>3. CASE i # Len(rest) + 1
      <4>1. i \in DOMAIN rest /\ Append(rest, new)[i] = rest[i] /\ rest[i] \in Call
        BY <1>7, <3>1, <3>3
      <4>2. QED
        BY <1>6, <4>1
    <3>4. QED
      BY <3>2, <3>3
  <2>3. QED
    BY <2>1, <2>2 DEF Running1
<1>9. Iterates(h, l, iter)
  BY <1>4, <1>5 DEF IInv, Iterates
<1>10. QED
  BY <1>1, <1>3, <1>4, <1>8, <1>9 DEF IInv, Within, Phased

LEMMA EmitInv ==
  ASSUME IInv, NEW o \in Objects, NEW sig \in Signals, Emit(o, sig)
  PROVE  IInv'
<1> DEFINE w == heap.whash[o]
           x == heap.wrap[w]
           ks == Kept(x.conns, {k \in ToSet(x.conns) : k.sig = sig})
           ids == [i \in DOMAIN ks |-> ks[i].id]
<1>1. /\ phase = "open" /\ o \in heap.exist /\ heap.whash[o] # None
      /\ ids # <<>> /\ Called(w, Head(ids), Tail(ids), calls) /\ UNCHANGED <<uses, cpp, iter, phase>>
  BY DEF Emit, Open
<1>2. w \in Wrappers /\ x.obj = o /\ x.conns \in Seq(Conn) /\ o # None /\ Wired(x)
  <2>1. w \in Wrappers
    BY <1>1, InvFacts DEF HeapType
  <2>2. QED
    BY <2>1, WrapperType, InvFacts DEF Sound, Hashed, Slotted
<1>3. ks \in Seq(Conn) /\ ToSet(ks) \subseteq ToSet(x.conns)
  BY <1>2, KeptIs
<1> HIDE DEF x, ks
<1>4. PICK m \in Nat : DOMAIN ks = 1 .. m
  BY <1>3, LenProperties
<1>5. \A i \in 1 .. m : ids[i] \in Nat /\ ids[i] \in Ids(x)
  <2>1. ASSUME NEW i \in 1 .. m PROVE ks[i] \in Conn /\ ks[i] \in ToSet(x.conns)
    <3>1. ks[i] \in Conn
      BY <1>3, <1>4
    <3>2. ks[i] \in ToSet(ks)
      BY <1>4 DEF ToSet
    <3>3. QED
      BY <1>3, <3>1, <3>2
  <2>2. QED
    BY <1>4, <2>1 DEF Conn, Ids
<1>6. ids \in Seq(Nat) /\ DOMAIN ids = 1 .. m
  <2>1. ids \in [1 .. m -> Nat]
    BY <1>4, <1>5
  <2>2. QED
    BY <2>1, SeqDef
<1> HIDE DEF ids
<1>7. Head(ids) \in Nat /\ Head(ids) \in Ids(x) /\ Tail(ids) \in Seq(Nat) /\ ToSet(Tail(ids)) \subseteq Ids(x)
  <2>1. m > 0 /\ Len(ids) = m
    BY <1>1, <1>6
  <2>2. Head(ids) = ids[1] /\ Tail(ids) \in Seq(Nat) /\ Len(Tail(ids)) = m - 1
    BY <1>1, <1>6, <2>1
  <2>3. \A i \in 1 .. m - 1 : Tail(ids)[i] = ids[i + 1] /\ i + 1 \in 1 .. m
    BY <1>1, <1>6, <2>1
  <2>4. DOMAIN Tail(ids) = 1 .. m - 1
    BY <2>2
  <2>5. ToSet(Tail(ids)) \subseteq Ids(x)
    BY <1>5, <2>3, <2>4 DEF ToSet
  <2>6. QED
    BY <1>5, <2>1, <2>2, <2>5
<1>8. Ids(x) \subseteq DOMAIN x.slots
  BY <1>2 DEF Wired, Ids, ToSet
<1>9. calls \in Seq(Call) /\ \A i \in DOMAIN calls : Runs(heap, lua, calls[i])
  BY DEF IInv, Running1
<1>10. QED
  BY <1>1, <1>2, <1>7, <1>8, <1>9, CalledInv DEF x

LEMMA SlotReturnInv ==
  ASSUME IInv, SlotReturn
  PROVE  IInv'
<1> DEFINE c == Last(calls)
           todo == c.todo
           rest == Front(calls)
<1>1. /\ phase = "open" /\ calls # <<>> /\ UNCHANGED <<uses, cpp, iter, phase>>
      /\ IF todo # <<>> THEN Called(c.w, Head(todo), Tail(todo), rest)
         ELSE calls' = rest /\ UNCHANGED <<heap, lua>>
  BY DEF SlotReturn, Open
<1>2. calls \in Seq(Call) /\ \A i \in DOMAIN calls : Runs(heap, lua, calls[i])
  BY DEF IInv, Running1
<1>3. c \in Call /\ Runs(heap, lua, c) /\ rest \in Seq(Call) /\ \A i \in DOMAIN rest : Runs(heap, lua, rest[i])
  <2>1. Len(calls) \in Nat /\ DOMAIN calls = 1 .. Len(calls) /\ Len(calls) > 0
    BY <1>1, <1>2
  <2>2. c = calls[Len(calls)] /\ rest = SubSeq(calls, 1, Len(calls) - 1)
    BY <2>1 DEF Last, Front
  <2>4. rest \in Seq(Call) /\ DOMAIN rest = 1 .. Len(calls) - 1
    BY <1>2, <2>1, <2>2
  <2>5. \A i \in 1 .. Len(calls) - 1 : rest[i] = calls[i] /\ i \in DOMAIN calls
    BY <1>2, <2>1, <2>2
  <2>6. Len(calls) \in DOMAIN calls
    BY <2>1
  <2> HIDE DEF c, rest
  <2>7. QED
    BY <1>2, <2>2, <2>4, <2>5, <2>6
<1> HIDE DEF c, rest
<1>4. CASE todo # <<>>
  <2>1. c.w \in Wrappers /\ todo \in Seq(Nat) /\ ToSet(todo) \subseteq Ids(heap.wrap[c.w])
    BY <1>3 DEF Call, Runs
  <2> HIDE DEF todo
  <2>2. Head(todo) \in Nat /\ Head(todo) \in ToSet(todo) /\ Tail(todo) \in Seq(Nat)
    <3>1. 1 \in DOMAIN todo /\ Head(todo) = todo[1]
      BY <1>4, <2>1
    <3>2. QED
      BY <1>4, <2>1, <3>1 DEF ToSet
  <2>3. ToSet(Tail(todo)) \subseteq ToSet(todo)
    <3>1. \A i \in DOMAIN Tail(todo) : i + 1 \in DOMAIN todo /\ Tail(todo)[i] = todo[i + 1]
      BY <1>4, <2>1
    <3>2. QED
      BY <3>1 DEF ToSet
  <2>4. Ids(heap.wrap[c.w]) \subseteq DOMAIN heap.wrap[c.w].slots
    <3> DEFINE x == heap.wrap[c.w]
    <3>1. Wired(x) /\ x.conns \in Seq(Conn)
      BY <2>1, WrapperType, InvFacts DEF Sound, Slotted
    <3> HIDE DEF x
    <3>2. Ids(x) \subseteq DOMAIN x.slots
      BY <3>1, NoEntries DEF Wired, Ids, ToSet
    <3>3. QED
      BY <3>2 DEF x
  <2>5. QED
    BY <1>1, <1>3, <1>4, <2>1, <2>2, <2>3, <2>4, CalledInv
<1>5. CASE todo = <<>>
  <2>1. calls' = rest /\ UNCHANGED <<heap, lua>>
    BY <1>1, <1>5
  <2>2. Running1(heap, lua, rest)
    BY <1>3 DEF Running1
  <2>3. QED
    BY <1>1, <2>1, <2>2 DEF IInv, Within, Phased, Iterates, Running1
<1>6. QED
  BY <1>4, <1>5

(***************************************************************************)
(* The end of the State.                                                   *)
(***************************************************************************)

LEMMA CloseInv ==
  ASSUME IInv, Careful, Close
  PROVE  IInv'
<1>1. /\ phase = "open" /\ calls = <<>> /\ iter = NoIter /\ \A w \in Wrappers : cpp[w] = 0
      /\ phase' = "closing" /\ UNCHANGED <<uses, lua, cpp, calls, iter>>
  BY DEF Close, Open
<1>2. Good(heap', Total(lua, cpp))
  BY InvFacts, GoodSilenced DEF Close
<1>3. Running1(heap, lua, calls)' /\ Iterates(heap, lua, iter)'
  BY <1>1 DEF Running1, Iterates
<1>4. Phased'
  BY <1>1 DEF Phased
<1>5. QED
  BY <1>1, <1>2, <1>3, <1>4 DEF IInv, Within

LEMMA WipeInv ==
  ASSUME IInv, Careful, Wipe
  PROVE  IInv'
<1> DEFINE r == Total(lua, cpp)
<1>1. phase = "closing" /\ UNCHANGED <<uses, lua, cpp, calls, iter>> /\ \A w \in Wrappers : lua[w] = 0
  BY DEF Wipe
<1>2. calls = <<>> /\ iter = NoIter /\ \A w \in Wrappers : cpp[w] = 0
  BY <1>1 DEF IInv, Phased
<1>3. r \in Refs /\ Good(heap, r) /\ heap \in HeapType /\ Sound(heap) /\ \A w \in Wrappers : r[w] = 0
  BY <1>1, <1>2, InvFacts
<1> HIDE DEF r
<1>4. Running1(heap, lua, calls)' /\ Iterates(heap, lua, iter)'
  BY <1>1, <1>2 DEF Running1, Iterates
<1>5. CASE \E o \in Objects : heap.whash[o] # None
  <2>1. PICK o \in Objects : heap.whash[o] # None /\ heap' = Dropped(heap, heap.whash[o]) /\ phase' = phase
    BY <1>5 DEF Wipe
  <2> DEFINE w == heap.whash[o]
  <2>2. w \in Wrappers /\ heap.wrap[w].obj = o /\ o # None
    BY <1>3, <2>1, WrapperAssumption DEF HeapType, Sound, Hashed
  <2> HIDE DEF w
  <2>3. heap.wrap[w].count = 1
    BY <1>3, <2>2 DEF Good, Counted
  <2>4. Dropped(heap, w) = Freed(heap, w)
    BY <2>3 DEF Dropped
  <2>5. \A x \in Wrappers : x # w =>
          /\ heap.wrap[x].count = r[x] + (IF heap.wrap[x].obj # None THEN 1 ELSE 0)
          /\ ~ (heap.wrap[x].obj # None /\ heap.wrap[x].delete /\ Alone(heap, heap.wrap[x].obj) /\ r[x] = 0)
    BY <1>3 DEF Good, Counted, Owned
  <2>6. Good(Freed(heap, w), r)
    BY <1>3, <2>2, <2>5, GoodFreed
  <2>7. Good(heap', Total(lua', cpp'))
    BY <1>1, <2>1, <2>4, <2>6 DEF w, r
  <2>8. Phased'
    BY <1>1, <1>2, <2>1 DEF Phased
  <2>9. QED
    BY <1>1, <1>4, <2>7, <2>8 DEF IInv, Within
<1>6. CASE ~ \E o \in Objects : heap.whash[o] # None
  <2>1. phase' = "closed" /\ heap' = heap
    BY <1>6 DEF Wipe
  <2>2. ASSUME NEW w \in Wrappers PROVE heap.wrap[w].obj = None
    <3>1. heap.wrap[w].obj \in Objects \cup {None}
      BY <1>3, WrapperType
    <3>2. heap.wrap[w].obj \in Objects => heap.whash[heap.wrap[w].obj] = w
      BY <1>3 DEF Sound, Hashed
    <3>3. w # None
      BY WrapperAssumption
    <3>4. QED
      BY <1>6, <3>1, <3>2, <3>3
  <2>3. Phased'
    BY <1>1, <1>2, <2>1, <2>2 DEF Phased
  <2>4. QED
    BY <1>1, <1>4, <2>1, <2>3 DEF IInv, Within
<1>7. QED
  BY <1>5, <1>6

(***************************************************************************)
(* The Qt library.                                                         *)
(***************************************************************************)

LEMMA CreatedInv ==
  ASSUME IInv, Careful, NEW o \in Objects, NEW p \in Objects \cup {None}, p # None => p \in heap.exist,
         NEW n \in Names \cup {None}, Created(o, p, n)
  PROVE  IInv'
<1> DEFINE k == Below(heap, o, n, p)
           g == get_wrapper(k, o)
           w == Got(k, o)
           r == Total(Plus(lua, w), cpp)
           h == Flagged(g, w, TRUE, TRUE)
<1>1. /\ phase = "open" /\ o \notin heap.exist /\ Wrappable(k, o) /\ lua' = Plus(lua, w)
      /\ Becomes(h) /\ UNCHANGED <<uses, cpp, iter, phase>>
      /\ p # None /\ n # None => get_child(heap, p, n) = None
  BY DEF Created, Open, Below, Got, Plus
<1>2. p \in heap.exist \cup {None}
  OBVIOUS
<1>3. /\ Good(k, Total(lua, cpp)) /\ k.wrap = heap.wrap /\ k.whash = heap.whash /\ o \in k.exist
  BY <1>1, <1>2, InvFacts, AddedBelow
<1>4. k.whash[o] = None
  <2>1. \A x \in Wrappers : heap.wrap[x].obj # o
    BY <1>1, InvFacts
  <2>2. heap.whash[o] \in Wrappers \cup {None}
    BY InvFacts DEF HeapType
  <2>3. QED
    BY <1>3, <2>1, <2>2, InvFacts DEF Sound, Hashed
<1> HIDE DEF k
<1>5. /\ w \in Wrappers /\ Good(g, r) /\ r \in Refs /\ r[w] > 0 /\ Within(Plus(lua, w))
      /\ \A x \in Wrappers : lua[x] > 0 =>
           /\ Plus(lua, w)[x] > 0 /\ g.wrap[x].obj \in {heap.wrap[x].obj, None}
           /\ g.wrap[x].slots = heap.wrap[x].slots
  BY <1>1, <1>3, <1>4, TakenIs
<1> HIDE DEF g, w, r
<1>6. Good(h, r) /\ \A x \in Wrappers : h.wrap[x].obj = g.wrap[x].obj /\ h.wrap[x].slots = g.wrap[x].slots
  BY <1>5, GoodFlags DEF Alike
<1> HIDE DEF h
<1>7. /\ \A i \in DOMAIN calls : lua'[calls[i].w] > 0
      /\ iter # NoIter => lua'[iter.w] > 0
  BY <1>1, <1>5, InvFacts
<1>8. Within(lua)' /\ Within(cpp)' /\ Good(h, Total(lua', cpp'))
  BY <1>1, <1>5, <1>6 DEF IInv, Within, r
<1>9. QED
  BY <1>1, <1>5, <1>6, <1>7, <1>8, FollowInv

LEMMA set_modelInv ==
  ASSUME IInv, Careful, NEW w \in Wrappers, set_model(w)
  PROVE  IInv'
<1> DEFINE o == heap.wrap[w].obj
           h == Destroyed(heap, Subtree(heap, o))
<1>1. o # None /\ Becomes(h) /\ UNCHANGED <<uses, lua, cpp, iter, phase>> /\ phase # "closed"
  BY DEF set_model, Argument, Obj, Arranges, Open
<1>2. Subtree(heap, o) \in SUBSET heap.exist /\ Closed(heap, Subtree(heap, o))
  BY <1>1, InvFacts, SubtreeIs
<1>3. Good(h, Total(lua, cpp)) /\ Follows(heap, h, Total(lua, cpp))
  BY <1>2, InvFacts, GoodDestroyed
<1> HIDE DEF h
<1>4. QED
  BY <1>1, <1>3, SameUsersInv

(* What may be put below p.                                                *)
Fitting(h, o, p) ==
  p # None => /\ p \notin Subtree(h, o)
              /\ \A c \in ToSet(h.kids[p]) : c # o => h.name[o] = None \/ h.name[c] # h.name[o]

LEMMA FitsIs ==
  ASSUME IInv, Careful, NEW o \in heap.exist, NEW p \in heap.exist \cup {None}, Fits(o, p)
  PROVE  Fitting(heap, o, p)
<1> SUFFICES ASSUME p # None, NEW c \in ToSet(heap.kids[p]), c # o, heap.name[o] # None,
                    heap.name[c] = heap.name[o]
             PROVE  FALSE
  BY DEF Fitting, Fits
<1>1. get_child(heap, p, heap.name[o]) \in {None, o}
  BY DEF Fits
<1>2. p \in Objects /\ p \in heap.exist /\ heap \in HeapType
  BY InvFacts
<1>3. CASE get_child(heap, p, heap.name[o]) = None
  BY <1>2, <1>3, ChildIs
<1>4. CASE get_child(heap, p, heap.name[o]) = o
  <2>1. o \in ToSet(heap.kids[p])
    BY <1>2, <1>4, ChildIs, InvFacts
  <2>2. Named(heap)
    BY InvFacts DEF Sound
  <2>3. QED
    BY <1>2, <2>1, <2>2 DEF Named
<1>5. QED
  BY <1>1, <1>3, <1>4

LEMMA GoodPut ==
  ASSUME NEW h, NEW r \in Refs, Good(h, r), NEW o \in h.exist, NEW p \in h.exist \cup {None},
         Fitting(h, o, p)
  PROVE  Good(Put(h, o, p), r) /\ Put(h, o, p).wrap = h.wrap
<1>1. h \in HeapType /\ o \in Objects /\ p \in Objects \cup {None}
  BY DEF Good, Sound, HeapType
<1>2. CASE Put(h, o, p) = h
  BY <1>2
<1>3. CASE Put(h, o, p) # h
  <2>1. p # None /\ Put(h, o, p) = SetParent(h, o, p)
    BY <1>3 DEF Put
  <2>2. SetParent(h, o, p).wrap = h.wrap
    BY <1>1, SetParentIs DEF Moved
  <2>3. Good(SetParent(h, o, p), r)
    BY <2>1, GoodSetParent DEF Fitting
  <2>4. QED
    BY <2>1, <2>2, <2>3
<1>4. QED
  BY <1>2, <1>3

LEMMA parentWidgetIn ==
  ASSUME NEW h, NEW o PROVE parentWidget(h, o) \in h.exist \cup {None}
BY DEF parentWidget

(* A heap that something is put into, with wrappers that follow.           *)
LEMMA ArrangesInv ==
  ASSUME IInv, Careful, NEW k, Good(k, Total(lua, cpp)), Follows(heap, k, Total(lua, cpp)),
         NEW o \in k.exist, NEW p \in k.exist \cup {None}, Fitting(k, o, p), Arranges(Put(k, o, p))
  PROVE  IInv'
<1> DEFINE h == Put(k, o, p)
           r == Total(lua, cpp)
<1>1. Becomes(h) /\ UNCHANGED <<uses, lua, cpp, iter, phase>> /\ phase # "closed"
  BY DEF Arranges, Open
<1>2. r \in Refs
  BY InvFacts
<1>3. Good(h, r) /\ h.wrap = k.wrap
  <2> HIDE DEF r
  <2>1. Good(k, r)
    BY DEF r
  <2>2. QED
    BY <1>2, <2>1, GoodPut
<1> HIDE DEF h
<1>4. Follows(heap, h, r)
  BY <1>3 DEF Follows
<1>5. QED
  BY <1>1, <1>3, <1>4, SameUsersInv

LEMMA ui_attachInv ==
  ASSUME IInv, Careful, NEW w \in Wrappers, NEW v \in Wrappers, ui_attach(w, v)
  PROVE  IInv'
<1> DEFINE o == heap.wrap[w].obj
           a == heap.wrap[v].obj
<1>1. o # None /\ a # None /\ Fits(a, o) /\ Arranges(Put(heap, a, o))
  BY DEF ui_attach, Argument, Obj
<1>2. o \in heap.exist /\ a \in heap.exist /\ Good(heap, Total(lua, cpp))
  BY <1>1, InvFacts
<1> HIDE DEF o, a
<1>3. Fitting(heap, a, o)
  BY <1>1, <1>2, FitsIs
<1>4. Follows(heap, heap, Total(lua, cpp))
  BY DEF Follows
<1>5. QED
  BY <1>1, <1>2, <1>3, <1>4, ArrangesInv

LEMMA layout_addInv ==
  ASSUME IInv, Careful, NEW w \in Wrappers, NEW v \in Wrappers, layout_add(w, v)
  PROVE  IInv'
<1> DEFINE o == heap.wrap[w].obj
           item == heap.wrap[v].obj
           r == Total(lua, cpp)
<1>1. /\ o # None /\ item # None
      /\ \/ /\ Fits(item, o)
            /\ Arranges(Put([heap EXCEPT !.wrap[v].delete = FALSE], item, o))
         \/ /\ Fits(item, parentWidget(heap, o))
            /\ Arranges(Put(heap, item, parentWidget(heap, o)))
         \/ /\ o \notin Layouts /\ item \in Layouts /\ Fits(item, o)
            /\ LET old == UNION {Subtree(heap, c) : c \in ToSet(heap.kids[o]) \cap Layouts}
                   left == Destroyed(heap, old)
               IN item \notin old /\ Arranges(Put(left, item, o))
  BY DEF layout_add, Argument, Obj
<1>2. o \in heap.exist /\ item \in heap.exist /\ Good(heap, r) /\ r \in Refs /\ heap \in HeapType
  BY <1>1, InvFacts
<1> HIDE DEF o, item
<1>3. CASE Fits(item, o) /\ Arranges(Put([heap EXCEPT !.wrap[v].delete = FALSE], item, o))
  <2> DEFINE k == Flagged(heap, v, heap.wrap[v].reparent, FALSE)
  <2>1. heap.wrap[v] \in WrapType /\ heap.wrap[v].reparent \in BOOLEAN
    BY <1>2, WrapperType
  <2>2. k = [heap EXCEPT !.wrap[v].delete = FALSE]
    <3> DEFINE x == heap.wrap[v]
    <3>1. [x EXCEPT !.reparent = x.reparent, !.delete = FALSE] = [x EXCEPT !.delete = FALSE]
      BY <2>1 DEF WrapType
    <3>2. QED
      BY <3>1 DEF Flagged
  <2> HIDE DEF r
  <2>3. /\ Good(k, r) /\ k.exist = heap.exist /\ k.kids = heap.kids /\ k.name = heap.name
        /\ \A x \in Wrappers : k.wrap[x].obj = heap.wrap[x].obj /\ k.wrap[x].slots = heap.wrap[x].slots
    <3>1. Good(k, r) /\ Alike(heap, k)
      BY <1>2, <2>1, GoodFlags
    <3>2. QED
      BY <3>1 DEF Alike
  <2> HIDE DEF k
  <2>4. Follows(heap, k, r)
    BY <2>3 DEF Follows
  <2>5. Fitting(heap, item, o)
    BY <1>2, <1>3, FitsIs
  <2>6. Subtree(k, item) = Subtree(heap, item)
    BY <2>3, SubtreeSame
  <2>7. Fitting(k, item, o)
    BY <2>3, <2>5, <2>6 DEF Fitting
  <2>8. QED
    BY <1>2, <1>3, <2>2, <2>3, <2>4, <2>7, ArrangesInv DEF r
<1>4. CASE Fits(item, parentWidget(heap, o)) /\ Arranges(Put(heap, item, parentWidget(heap, o)))
  <2> DEFINE p == parentWidget(heap, o)
  <2>1. p \in heap.exist \cup {None}
    BY parentWidgetIn
  <2>2. Fits(item, p) /\ Arranges(Put(heap, item, p))
    BY <1>4
  <2> HIDE DEF p
  <2>3. Fitting(heap, item, p)
    BY <1>2, <2>1, <2>2, FitsIs
  <2>4. Follows(heap, heap, Total(lua, cpp))
    BY DEF Follows
  <2>5. QED
    BY <1>2, <2>1, <2>2, <2>3, <2>4, ArrangesInv
<1>5. ASSUME Fits(item, o), o \notin Layouts, item \in Layouts,
             LET old == UNION {Subtree(heap, c) : c \in ToSet(heap.kids[o]) \cap Layouts}
                 left == Destroyed(heap, old)
             IN item \notin old /\ Arranges(Put(left, item, o))
      PROVE  IInv'
  <2> DEFINE old == UNION {Subtree(heap, c) : c \in ToSet(heap.kids[o]) \cap Layouts}
             left == Destroyed(heap, old)
  <2>1. item \notin old /\ Arranges(Put(left, item, o))
    BY <1>5
  <2>2. \A c \in ToSet(heap.kids[o]) : /\ c \in heap.exist /\ o \notin Subtree(heap, c)
                                       /\ Subtree(heap, c) \in SUBSET heap.exist
                                       /\ Closed(heap, Subtree(heap, c))
    <3>1. ASSUME NEW c \in ToSet(heap.kids[o])
          PROVE  /\ c \in heap.exist /\ o \notin Subtree(heap, c)
                 /\ Subtree(heap, c) \in SUBSET heap.exist /\ Closed(heap, Subtree(heap, c))
      <4>1. c \in heap.exist /\ o \notin Subtree(heap, c)
        BY <1>2 DEF Good, Sound, Forest, Closed
      <4>2. QED
        BY <4>1, SubtreeIs, InvFacts
    <3>2. QED
      BY <3>1
  <2>3. old \in SUBSET heap.exist /\ Closed(heap, old) /\ o \notin old
    BY <2>2 DEF Closed
  <2> HIDE DEF old, r
  <2>4. Good(left, r) /\ Follows(heap, left, r)
    BY <1>2, <2>3, GoodDestroyed
  <2>5. /\ left.exist = heap.exist \ old
        /\ \A p \in Objects : p \notin old =>
             ToSet(left.kids[p]) \subseteq ToSet(heap.kids[p]) /\ left.name[p] = heap.name[p]
    <3>1. heap.exist \subseteq Objects
      BY <1>2 DEF HeapType
    <3>2. \A x \in Wrappers : heap.wrap[x].obj \in old => heap.wrap[x].count # 0
      <4>1. ASSUME NEW x \in Wrappers, heap.wrap[x].obj \in old PROVE heap.wrap[x].count # 0
        <5>1. heap.wrap[x].obj # None /\ r[x] \in Nat
          BY <1>2, <2>3, <4>1, InvFacts DEF Refs
        <5>2. QED
          BY <1>2, <5>1 DEF Good, Counted
      <4>2. QED
        BY <4>1
    <3>3. Spared(heap, left, old)
      BY <1>2, <2>3, <3>2, DestroyedIs
    <3>4. QED
      BY <1>2, <3>1, <3>3 DEF Spared
  <2> HIDE DEF left
  <2>6. o \in left.exist /\ item \in left.exist /\ heap.exist \subseteq Objects
    BY <1>2, <2>1, <2>3, <2>5 DEF HeapType
  <2>7. Closed(heap, heap.exist) /\ Closed(left, left.exist)
    BY <1>2, <2>4 DEF Good, Sound, Forest
  <2>8. Subtree(left, item) \subseteq Subtree(heap, item)
    BY <2>5, <2>6, <2>7, SubtreeLess
  <2>9. Fitting(heap, item, o)
    BY <1>2, <1>5, FitsIs
  <2>10. ASSUME NEW c \in ToSet(left.kids[o])
         PROVE  c \in ToSet(heap.kids[o]) /\ left.name[c] = heap.name[c]
    <3>1. c \in left.exist
      BY <2>6, <2>7 DEF Closed
    <3>2. QED
      BY <2>5, <2>6, <3>1
  <2>11. left.name[item] = heap.name[item]
    BY <2>5, <2>6
  <2>12. Fitting(left, item, o)
    BY <2>8, <2>9, <2>10, <2>11 DEF Fitting
  <2>13. QED
    BY <2>1, <2>4, <2>6, <2>12, ArrangesInv DEF r
<1>6. QED
  BY <1>1, <1>3, <1>4, <1>5

LEMMA connectInv ==
  ASSUME IInv, Careful, NEW w \in Wrappers, NEW sig \in Signals, NEW fn \in Functions, connect(w, sig, fn)
  PROVE  IInv'
<1> DEFINE x == heap.wrap[w]
           r == Total(lua, cpp)
           id == CHOOSE i \in x.next .. MaxSlots + 1 :
                   Free(x.slots, i) /\ \A j \in x.next .. i - 1 : ~ Free(x.slots, j)
           h == [heap EXCEPT !.wrap[w] =
                  [x EXCEPT !.slots = With(x.slots, id, [fn |-> fn, sig |-> sig]),
                            !.conns = Append(x.conns, [id |-> id, sig |-> sig]),
                            !.next = id + 1]]
<1>1. /\ phase = "open" /\ x.obj # None /\ Becomes(h) /\ UNCHANGED <<uses, lua, cpp, iter, phase>>
      /\ \E i \in x.next .. MaxSlots : Free(x.slots, i)
  BY DEF connect, _lua_connect, Open, Argument, Obj
<1>2. x.next \in Nat /\ Good(heap, r) /\ r \in Refs /\ MaxSlots \in Nat
  BY InvFacts, WrapperType, WrapperAssumption
<1>3. id \in Nat /\ id \notin DOMAIN x.slots
  <2> DEFINE T == {i \in x.next .. MaxSlots : Free(x.slots, i)}
             m == Min(T)
  <2>1. T \in SUBSET Nat /\ T # {}
    BY <1>1, <1>2
  <2>2. m \in T /\ \A j \in T : m <= j
    BY <2>1, LeastOf
  <2> HIDE DEF x, m
  <2>3. m \in x.next .. MaxSlots + 1 /\ Free(x.slots, m)
    BY <1>2, <2>2
  <2>4. ASSUME NEW j \in x.next .. m - 1 PROVE ~ Free(x.slots, j)
    <3>1. j \in x.next .. MaxSlots /\ ~ m <= j
      BY <1>2, <2>3
    <3>2. QED
      BY <2>2, <3>1
  <2>5. id \in x.next .. MaxSlots + 1 /\ Free(x.slots, id)
    BY <2>3, <2>4
  <2>6. QED
    BY <1>2, <2>5 DEF Free
<1> HIDE DEF id, r
<1>4. /\ Good(h, r)
      /\ \A z \in Wrappers : /\ h.wrap[z].obj = heap.wrap[z].obj
                             /\ DOMAIN heap.wrap[z].slots \subseteq DOMAIN h.wrap[z].slots
  BY <1>1, <1>2, <1>3, GoodConnected
<1> HIDE DEF h
<1>5. \A i \in DOMAIN calls : lua'[calls[i].w] > 0 /\ calls[i].id \in DOMAIN h.wrap[calls[i].w].slots
  BY <1>1, <1>4, InvFacts
<1>6. iter # NoIter => lua'[iter.w] > 0 /\ h.wrap[iter.w].obj \in {heap.wrap[iter.w].obj, None}
  BY <1>1, <1>4, InvFacts
<1>7. Within(lua)' /\ Within(cpp)' /\ Good(h, Total(lua', cpp'))
  BY <1>1, <1>4 DEF IInv, Within, r
<1>8. QED
  BY <1>1, <1>5, <1>6, <1>7, StepInv

LEMMA disconnectInv ==
  ASSUME IInv, Careful, NEW w \in Wrappers, NEW sig \in Signals, disconnect(w, sig)
  PROVE  IInv'
<1> DEFINE x == heap.wrap[w]
           r == Total(lua, cpp)
<1>1. /\ phase = "open" /\ x.obj # None /\ UNCHANGED <<uses, lua, cpp, iter, phase>>
      /\ \E ids \in SUBSET DOMAIN x.slots : Disconnected(w, ids)
  <2>1. /\ phase = "open" /\ x.obj # None /\ UNCHANGED <<uses, lua, cpp, iter, phase>>
        /\ _lua_disconnect_all(w, sig) \/ \E fn \in Functions : _lua_disconnect(w, sig, fn)
    BY DEF disconnect, Open, Argument, Obj
  <2>2. CASE _lua_disconnect_all(w, sig)
    BY <2>1, <2>2 DEF _lua_disconnect_all
  <2>3. CASE \E fn \in Functions : _lua_disconnect(w, sig, fn)
    <3>1. PICK id \in DOMAIN x.slots : Disconnected(w, {id})
      BY <2>3 DEF _lua_disconnect
    <3>2. {id} \in SUBSET DOMAIN x.slots
      OBVIOUS
    <3>3. QED
      BY <2>1, <3>1, <3>2
  <2>4. QED
    BY <2>1, <2>2, <2>3
<1>2. PICK ids \in SUBSET DOMAIN x.slots : Disconnected(w, ids)
  BY <1>1
<1> DEFINE h == Unslotted(heap, w, ids)
<1>3. Becomes(h) /\ ids \cap Running(w) = {}
  BY <1>2 DEF Disconnected, Unslotted
<1>4. Good(heap, r) /\ r \in Refs
  BY InvFacts
<1> HIDE DEF r
<1>5. /\ Good(h, r)
      /\ \A z \in Wrappers : h.wrap[z].obj = heap.wrap[z].obj /\ (z # w => h.wrap[z] = heap.wrap[z])
      /\ DOMAIN heap.wrap[w].slots \subseteq DOMAIN h.wrap[w].slots \cup ids
  <2>1. heap.wrap[w].obj # None /\ ids \in SUBSET DOMAIN heap.wrap[w].slots
    BY <1>1
  <2>2. QED
    BY <1>4, <2>1, GoodDisconnected
<1> HIDE DEF h
<1>6. ASSUME NEW i \in DOMAIN calls
      PROVE  lua'[calls[i].w] > 0 /\ calls[i].id \in DOMAIN h.wrap[calls[i].w].slots
  <2>1. calls[i].w \in Wrappers /\ lua[calls[i].w] > 0 /\ calls[i].id \in DOMAIN heap.wrap[calls[i].w].slots
    BY InvFacts
  <2>2. calls[i].w = w => calls[i].id \notin ids
    BY <1>3 DEF Running
  <2>3. QED
    BY <1>1, <1>5, <2>1, <2>2
<1>7. iter # NoIter => lua'[iter.w] > 0 /\ h.wrap[iter.w].obj \in {heap.wrap[iter.w].obj, None}
  BY <1>1, <1>5, InvFacts
<1>8. Within(lua)' /\ Within(cpp)' /\ Good(h, Total(lua', cpp'))
  BY <1>1, <1>5 DEF IInv, Within, r
<1>9. QED
  BY <1>1, <1>3, <1>6, <1>7, <1>8, StepInv

(***************************************************************************)
(* What giving up a reference does to the trees, and an assignment.        *)
(***************************************************************************)

SameTree(h, g) == g.exist = h.exist /\ g.kids = h.kids /\ g.name = h.name

Pruned(h, g, o) ==
  /\ g.exist = h.exist \ Subtree(h, o)
  /\ \A p \in Objects :
       /\ ToSet(g.kids[p]) = IF p \in Subtree(h, o) THEN {} ELSE ToSet(h.kids[p]) \cap (Objects \ Subtree(h, o))
       /\ p \notin Subtree(h, o) => g.name[p] = h.name[p]

LEMMA FreedIs ==
  ASSUME NEW h, NEW r \in Refs, Sound(h), NEW w \in Wrappers, r[w] = 0,
         \A x \in Wrappers : x # w =>
           /\ h.wrap[x].count = r[x] + (IF h.wrap[x].obj # None THEN 1 ELSE 0)
           /\ ~ (h.wrap[x].obj # None /\ h.wrap[x].delete /\ Alone(h, h.wrap[x].obj) /\ r[x] = 0)
  PROVE  \/ SameTree(h, Freed(h, w))
         \/ /\ h.wrap[w].obj # None /\ parent(h, h.wrap[w].obj) = None /\ h.wrap[w].delete
            /\ Pruned(h, Freed(h, w), h.wrap[w].obj)
<1> DEFINE o == h.wrap[w].obj
           g == Unwrapped(h, w)
           gone == Subtree(h, o)
           k == Destroyed(g, gone)
<1>1. /\ Sound(g) /\ SameTree(h, g)
      /\ g.wrap[w] = Blank /\ \A x \in Wrappers : x # w => g.wrap[x] = h.wrap[x]
  BY UnwrappedIs DEF SameTree
<1> HIDE DEF g
<1>2. CASE Freed(h, w) = g
  BY <1>1, <1>2
<1>3. CASE o # None /\ parent(h, o) = None /\ h.wrap[w].delete /\ Freed(h, w) = k
  <2>1. o \in h.exist /\ Closed(h, h.exist)
    BY <1>3 DEF Sound, Hashed, Forest
  <2>2. gone \in SUBSET h.exist /\ h.exist \subseteq Objects /\ None \notin Objects /\ g \in HeapType
    BY <1>1, <2>1, SubtreeIs, WrapperAssumption DEF Sound, HeapType
  <2>3. ASSUME NEW x \in Wrappers, g.wrap[x].obj \in gone PROVE g.wrap[x].count # 0
    <3>1. g.wrap[x].obj # None /\ x # w
      BY <1>1, <2>2, <2>3, BlankType
    <3>2. h.wrap[x].count = r[x] + 1 /\ r[x] \in Nat
      BY <1>1, <3>1 DEF Refs
    <3>3. QED
      BY <1>1, <3>1, <3>2
  <2> HIDE DEF gone
  <2>4. Spared(g, k, gone)
    BY <1>1, <2>2, <2>3, DestroyedIs DEF SameTree
  <2> HIDE DEF k
  <2>5. k.exist = h.exist \ gone
    BY <1>1, <2>4 DEF Spared, SameTree
  <2>6. ASSUME NEW p \in Objects
        PROVE  /\ ToSet(k.kids[p]) = IF p \in gone THEN {} ELSE ToSet(h.kids[p]) \cap (Objects \ gone)
               /\ p \notin gone => k.name[p] = h.name[p]
    <3>1. CASE p \in gone
      BY <2>4, <3>1, NoEntries DEF Spared
    <3>2. CASE p \notin gone
      BY <1>1, <2>4, <3>2 DEF Spared, SameTree
    <3>3. QED
      BY <3>1, <3>2
  <2>7. Pruned(h, k, o)
    BY <2>5, <2>6 DEF Pruned, gone
  <2>8. QED
    BY <1>3, <2>7
<1>4. QED
  BY <1>2, <1>3, GoodFreed DEF g

LEMMA DroppedIs ==
  ASSUME NEW h, NEW q \in Refs, Good(h, q), NEW w \in Wrappers, q[w] > 0
  PROVE  \/ SameTree(h, Dropped(h, w))
         \/ /\ Minus(q, w)[w] = 0
            /\ h.wrap[w].obj # None /\ parent(h, h.wrap[w].obj) = None /\ h.wrap[w].delete
            /\ Pruned(h, Dropped(h, w), h.wrap[w].obj)
<1>1. /\ Minus(q, w) \in Refs
      /\ \/ Dropped(h, w) = Freed(h, w) /\ Minus(q, w)[w] = 0
         \/ Dropped(h, w) = [h EXCEPT !.wrap[w].count = @ - 1]
  BY GoodDropped
<1>2. CASE Dropped(h, w) = Freed(h, w) /\ Minus(q, w)[w] = 0
  <2>1. \A x \in Wrappers : x # w => Minus(q, w)[x] = q[x]
    BY DEF Minus, Refs
  <2>2. \A x \in Wrappers : x # w =>
          /\ h.wrap[x].count = Minus(q, w)[x] + (IF h.wrap[x].obj # None THEN 1 ELSE 0)
          /\ ~ (h.wrap[x].obj # None /\ h.wrap[x].delete /\ Alone(h, h.wrap[x].obj) /\ Minus(q, w)[x] = 0)
    BY <2>1 DEF Good, Counted, Owned
  <2>3. Sound(h)
    BY DEF Good
  <2>4. QED
    BY <1>1, <1>2, <2>2, <2>3, FreedIs
<1>3. CASE Dropped(h, w) = [h EXCEPT !.wrap[w].count = @ - 1]
  BY <1>3 DEF SameTree, Good, Sound, HeapType
<1>4. QED
  BY <1>1, <1>2, <1>3

(* What v is assigned to, and what an assignment comes to: the trees are   *)
(* those of g, but for what is below the old child when its wrapper was    *)
(* the last to know it.                                                    *)
Entered(g, o, n, a) ==
  IF a = None THEN \A d \in ToSet(g.kids[o]) : g.name[d] # n
  ELSE a \in ToSet(g.kids[o]) /\ g.name[a] = n /\ \A p \in Objects : p # o => a \notin ToSet(g.kids[p])

Object(v) == IF v = None THEN None ELSE heap.wrap[v].obj

Outcome(o, c, n, a, g) ==
  /\ Good(heap', Total(lua, cpp)) /\ Follows(heap, heap', Total(lua, cpp))
  /\ g \in HeapType /\ g.exist = heap.exist /\ Closed(g, g.exist)
  /\ \A p \in Objects : p # o => ToSet(g.kids[p]) \subseteq ToSet(heap.kids[p])
  /\ SameTree(heap, g) \/ Entered(g, o, n, a)
  /\ \/ SameTree(g, heap')
     \/ /\ c # None /\ heap.whash[c] \in Wrappers /\ Total(lua, cpp)[heap.whash[c]] = 0
        /\ heap.wrap[heap.whash[c]].delete /\ Alone(g, c) /\ Pruned(g, heap', c)

LEMMA PlusMinus ==
  ASSUME NEW r \in Refs, NEW w \in Wrappers
  PROVE  Minus(Plus(r, w), w) = r /\ Plus(r, w)[w] > 0
<1>1. Plus(r, w) \in Refs /\ Plus(r, w)[w] = r[w] + 1 /\ \A x \in Wrappers : x # w => Plus(r, w)[x] = r[x]
  BY DEF Plus, Refs
<1> DEFINE f == Minus(Plus(r, w), w)
<1>2. f \in [Wrappers -> Int] /\ \A x \in Wrappers : f[x] = r[x]
  BY <1>1 DEF Minus, Refs
<1> HIDE DEF f
<1>3. f = r
  BY <1>2 DEF Refs
<1>4. QED
  BY <1>1, <1>3 DEF Refs, f

LEMMA AssignmentIs ==
  ASSUME IInv, Careful, NEW w \in Wrappers, NEW n \in Names, NEW v \in Wrappers \cup {None},
         meta_newindex(w, n, v)
  PROVE  LET o == heap.wrap[w].obj
             c == get_child(heap, o, n)
         IN /\ o \in heap.exist /\ Object(v) \in heap.exist \cup {None}
            /\ UNCHANGED <<uses, lua, cpp, iter, phase>> /\ phase = "open" /\ Becomes(heap')
            /\ v # None => Object(v) # None
            /\ \E g : Outcome(o, c, n, Object(v), g)
<1> DEFINE o == heap.wrap[w].obj
           c == get_child(heap, o, n)
           r == Total(lua, cpp)
           u == Got(heap, c)
           h == IF c = None THEN heap ELSE get_wrapper(heap, c)
           q == IF c = None THEN r ELSE Plus(r, u)
           g == Assigned(h, o, n, v).heap
           end == IF c = None THEN g ELSE Dropped(g, u)
<1>1. /\ phase = "open" /\ o # None
      /\ v # None => lua[v] > 0 /\ heap.wrap[v].obj # None /\ heap.wrap[v].reparent
                     /\ o \notin Subtree(heap, heap.wrap[v].obj)
      /\ c # None => Wrappable(heap, c)
      /\ Becomes(end) /\ UNCHANGED <<uses, lua, cpp, iter, phase>>
  BY DEF meta_newindex, Open, Got
<1>2. heap' = end
  BY <1>1 DEF Becomes
<1>3. /\ heap \in HeapType /\ Good(heap, r) /\ r \in Refs /\ None \notin Objects /\ o \in heap.exist
      /\ heap.exist \subseteq Objects /\ Closed(heap, heap.exist) /\ None \notin Wrappers
      /\ \A x \in Wrappers : lua[x] > 0 => r[x] > 0
      /\ Object(v) \in heap.exist \cup {None} /\ (v # None => Object(v) # None)
  BY <1>1, InvFacts, WrapperAssumption DEF Object
<1>4. c # None => c \in ToSet(heap.kids[o]) /\ c \in heap.exist
  <2>1. c # None => c \in ToSet(heap.kids[o])
    BY <1>3, ChildIs
  <2>2. QED
    BY <1>3, <2>1 DEF Closed
<1> HIDE DEF c, r, o
<1>5. c # None => GotIs(heap, r, c)
  BY <1>1, <1>3, <1>4, GoodGot
<1>6. /\ Good(h, q) /\ q \in Refs /\ Follows(heap, h, r)
      /\ h.exist = heap.exist /\ h.kids = heap.kids /\ h.name = heap.name
      /\ c # None => /\ u \in Wrappers /\ h.wrap[u].obj = c /\ q[u] > 0 /\ Minus(q, u) = r /\ h.whash[c] = u
                     /\ heap.whash[c] = None => ~ h.wrap[u].reparent
                     /\ heap.whash[c] # None => u = heap.whash[c] /\ h.wrap[u].delete = heap.wrap[u].delete
      /\ \A x \in Wrappers : r[x] > 0 => h.wrap[x].obj = heap.wrap[x].obj /\ h.wrap[x].reparent = heap.wrap[x].reparent
  <2>1. CASE c = None
    BY <1>3, <2>1 DEF Follows
  <2>2. CASE c # None
    <3> DEFINE k == get_wrapper(heap, c)
    <3>1. /\ u \in Wrappers /\ Plus(r, u) \in Refs /\ Good(k, Plus(r, u)) /\ Follows(heap, k, r)
          /\ k.exist = heap.exist /\ k.kids = heap.kids /\ k.name = heap.name
          /\ k.wrap[u].obj = c /\ k.whash[c] = u
          /\ \A x \in Wrappers : x # u => k.wrap[x] = heap.wrap[x]
          /\ heap.whash[c] = None => r[u] = 0 /\ ~ k.wrap[u].reparent
          /\ heap.whash[c] # None => u = heap.whash[c] /\ k.wrap[u] = [heap.wrap[u] EXCEPT !.count = @ + 1]
      BY <1>5, <2>2 DEF GotIs, Got
    <3>2. heap.wrap[u] \in WrapType
      BY <1>3, <3>1, WrapperType
    <3>3. heap.whash[c] # None => /\ k.wrap[u].obj = heap.wrap[u].obj /\ k.wrap[u].reparent = heap.wrap[u].reparent
                                  /\ k.wrap[u].delete = heap.wrap[u].delete
      BY <3>1, <3>2 DEF WrapType
    <3>4. Minus(Plus(r, u), u) = r /\ Plus(r, u)[u] > 0
      BY <1>3, <3>1, PlusMinus
    <3> HIDE DEF k, u
    <3>5. \A x \in Wrappers : r[x] > 0 => k.wrap[x].obj = heap.wrap[x].obj /\ k.wrap[x].reparent = heap.wrap[x].reparent
      BY <3>1, <3>3
    <3>6. h = k /\ q = Plus(r, u)
      BY <2>2 DEF k
    <3> HIDE DEF h, q
    <3>7. QED
      BY <3>1, <3>3, <3>4, <3>5, <3>6
  <2>3. QED
    BY <2>1, <2>2
<1> HIDE DEF h, q, u
<1>7. get_child(h, o, n) = c
  BY <1>6 DEF get_child, c
<1>8. v # None => h.wrap[v].obj = Object(v) /\ h.wrap[v].reparent /\ o \notin Subtree(h, h.wrap[v].obj)
  <2>1. \A x : Subtree(h, x) = Subtree(heap, x)
    BY <1>6, SubtreeSame
  <2>2. QED
    BY <1>1, <1>3, <1>6, <2>1 DEF Object
<1>9. /\ Good(g, q) /\ g.exist = h.exist /\ g.wrap = h.wrap
      /\ \/ g = h
         \/ /\ c # None => h.wrap[u].reparent
            /\ Entered(g, o, n, Object(v))
      /\ \A p \in Objects : p # o => ToSet(g.kids[p]) \subseteq ToSet(h.kids[p])
  <2>1. AssignedIs(h, q, o, n, v)
    <3>1. o \in h.exist
      BY <1>3, <1>6
    <3>2. v # None => h.wrap[v].obj # None
      BY <1>3, <1>8
    <3>3. get_child(h, o, n) # None => h.whash[get_child(h, o, n)] \in Wrappers /\ q[h.whash[get_child(h, o, n)]] > 0
      BY <1>6, <1>7
    <3>4. QED
      BY <1>6, <1>8, <3>1, <3>2, <3>3, GoodAssigned
  <2> HIDE DEF g
  <2>2. /\ Good(g, q) /\ g.exist = h.exist /\ g.wrap = h.wrap
        /\ \/ g = h
           \/ /\ c # None => h.wrap[h.whash[c]].reparent
              /\ IF v = None THEN \A d \in ToSet(g.kids[o]) : g.name[d] # n
                 ELSE /\ h.wrap[v].obj \in ToSet(g.kids[o]) /\ g.name[h.wrap[v].obj] = n
                      /\ \A p \in Objects : p # o => h.wrap[v].obj \notin ToSet(g.kids[p])
        /\ \A p \in Objects : p # o => ToSet(g.kids[p]) \subseteq ToSet(h.kids[p])
    BY <1>7, <2>1 DEF AssignedIs, g
  <2>3. c # None /\ h.wrap[h.whash[c]].reparent => h.wrap[u].reparent
    BY <1>6
  <2>4. v = None => Object(v) = None
    BY DEF Object
  <2>5. QED
    BY <1>3, <1>8, <2>2, <2>3, <2>4 DEF Entered
<1> HIDE DEF g
<1>10. /\ g \in HeapType /\ Closed(g, g.exist) /\ SameTree(heap, h)
  BY <1>6, <1>9 DEF Good, Sound, Forest, SameTree
<1>11. SameTree(heap, g) \/ Entered(g, o, n, Object(v))
  BY <1>9, <1>10
<1>12. CASE c = None
  <2>1. end = g /\ q = r
    BY <1>12 DEF q
  <2>2. Follows(heap, g, r)
    BY <1>6, <1>9 DEF Follows
  <2>3. Outcome(o, c, n, Object(v), g)
    BY <1>2, <1>6, <1>9, <1>10, <1>11, <2>1, <2>2 DEF Outcome, SameTree, r
  <2>4. QED
    BY <1>1, <1>2, <1>3, <2>3 DEF o, c
<1>13. CASE c # None
  <2>1. end = Dropped(g, u)
    BY <1>13
  <2>2. Good(end, r) /\ Follows(g, end, r)
    BY <1>6, <1>9, <1>13, <2>1, GoodDropped
  <2>3. Follows(heap, end, r)
    BY <1>6, <1>9, <2>2 DEF Follows
  <2>4. CASE SameTree(g, end)
    <3>1. Outcome(o, c, n, Object(v), g)
      BY <1>2, <1>6, <1>9, <1>10, <1>11, <2>2, <2>3, <2>4 DEF Outcome, r
    <3>2. QED
      BY <1>1, <1>2, <1>3, <3>1 DEF o, c
  <2>5. CASE ~ SameTree(g, end)
    <3>1. r[u] = 0 /\ g.wrap[u].delete /\ parent(g, c) = None /\ Pruned(g, end, c)
      BY <1>6, <1>9, <1>13, <2>1, <2>5, DroppedIs
    <3>2. c \in Objects
      BY <1>3, <1>4, <1>13
    <3>3. Alone(g, c)
      BY <1>10, <3>1, <3>2, ParentIs
    <3>4. g # h
      BY <1>3, <1>4, <1>6, <1>13, <3>3 DEF Alone
    <3>5. heap.whash[c] # None
      BY <1>6, <1>9, <1>13, <3>4
    <3>6. u = heap.whash[c] /\ heap.wrap[u].delete
      BY <1>6, <1>9, <1>13, <3>1, <3>5
    <3>7. Outcome(o, c, n, Object(v), g)
      BY <1>2, <1>6, <1>9, <1>10, <1>11, <1>13, <2>2, <2>3, <3>1, <3>3, <3>6 DEF Outcome, r
    <3>8. QED
      BY <1>1, <1>2, <1>3, <3>7 DEF o, c
  <2>6. QED
    BY <2>4, <2>5
<1>14. QED
  BY <1>12, <1>13

LEMMA meta_newindexInv ==
  ASSUME IInv, Careful, NEW w \in Wrappers, NEW n \in Names, NEW v \in Wrappers \cup {None},
         meta_newindex(w, n, v)
  PROVE  IInv'
<1>1. /\ UNCHANGED <<uses, lua, cpp, iter, phase>> /\ phase = "open" /\ Becomes(heap')
      /\ Good(heap', Total(lua, cpp)) /\ Follows(heap, heap', Total(lua, cpp))
  BY AssignmentIs DEF Outcome
<1>2. QED
  BY <1>1, SameUsersInv

(***************************************************************************)
(* The theorems.                                                           *)
(***************************************************************************)

LEMMA MakesInv ==
  ASSUME IInv, Careful, NEW o \in Objects,
         \/ new_qobject(o) \/ load_ui(o) \/ new_model(o)
         \/ \E n \in Names \cup {None} :
              \/ new_widget(o, n)
              \/ \E w \in Wrappers : add_menu(w, o, n) \/ add_separator(w, o, n) \/ add_action(w, o, n)
  PROVE  IInv' /\ heap.exist \subseteq heap'.exist
<1>1. PICK p \in Objects \cup {None}, n \in Names \cup {None} :
        (p # None => p \in heap.exist) /\ Created(o, p, n)
  <2>1. \A w \in Wrappers : Argument(w) => Obj(w) \in Objects /\ Obj(w) \in heap.exist
    BY InvFacts DEF Argument, Obj
  <2>2. CASE new_qobject(o) \/ load_ui(o) \/ new_model(o)
    BY <2>2 DEF new_qobject, load_ui, new_model
  <2>3. CASE \E n \in Names \cup {None} : new_widget(o, n)
    BY <2>1, <2>3 DEF new_widget
  <2>4. CASE \E n \in Names \cup {None}, w \in Wrappers :
               add_menu(w, o, n) \/ add_separator(w, o, n) \/ add_action(w, o, n)
    BY <2>1, <2>4 DEF add_menu, add_separator, add_action, InMenu
  <2>5. QED
    BY <2>2, <2>3, <2>4
<1>2. IInv'
  BY <1>1, CreatedInv
<1>3. heap.exist \subseteq heap'.exist
  <2> DEFINE k == Below(heap, o, n, p)
             g == get_wrapper(k, o)
             w == Got(k, o)
             r == Total(Plus(lua, w), cpp)
  <2>1. /\ o \notin heap.exist /\ Wrappable(k, o) /\ heap' = Flagged(g, w, TRUE, TRUE)
        /\ (p # None /\ n # None => get_child(heap, p, n) = None)
    BY <1>1 DEF Created, Below, Got, Becomes
  <2>a. p \in heap.exist \cup {None}
    BY <1>1
  <2>2. /\ Good(k, Total(lua, cpp)) /\ k.wrap = heap.wrap /\ o \in k.exist /\ heap.exist \subseteq k.exist
    <3>1. Good(heap, Total(lua, cpp)) /\ Total(lua, cpp) \in Refs
      BY InvFacts
    <3>2. o \notin heap.exist /\ (p # None /\ n # None => get_child(heap, p, n) = None)
      BY <2>1
    <3>3. /\ Good(Below(heap, o, n, p), Total(lua, cpp)) /\ Below(heap, o, n, p).wrap = heap.wrap
          /\ Below(heap, o, n, p).exist = heap.exist \cup {o}
      BY ONLY <2>a, <3>1, <3>2, o \in Objects, n \in Names \cup {None}, AddedBelow
    <3>4. QED
      BY <3>3
  <2> HIDE DEF k
  <2>3. w \in Wrappers /\ Good(g, r) /\ r \in Refs /\ r[w] > 0 /\ g.exist = k.exist
    BY <2>1, <2>2, TakenIs
  <2> HIDE DEF g, w, r
  <2>4. Alike(g, Flagged(g, w, TRUE, TRUE))
    BY <2>3, GoodFlags
  <2>5. QED
    BY <2>1, <2>2, <2>3, <2>4 DEF Alike
<1>4. QED
  BY <1>2, <1>3

LEMMA StepKeepsInv ==
  ASSUME IInv, Careful, [LibNext]_vars
  PROVE  IInv'
<1>1. CASE UNCHANGED vars
  BY <1>1 DEF vars, IInv, Within, Phased
<1>2. ASSUME NEW o \in Objects,
             \/ Delete(o)
             \/ \E p \in Objects \cup {None} : New(o, p) \/ Move(o, p)
             \/ \E flags \in Flags \cup {None} : Give(o, flags)
             \/ \E sig \in Signals : Emit(o, sig)
      PROVE  IInv'
  BY <1>2, DeleteInv, NewInv, MoveInv, GiveInv, EmitInv
<1>3. ASSUME NEW w \in Wrappers,
             \/ Hold(w) \/ Release(w) \/ Collect(w) \/ Iterate(w)
             \/ \E n \in Names : meta_index(w, n) \/ \E v \in Wrappers \cup {None} : meta_newindex(w, n, v)
      PROVE  IInv'
  BY <1>3, HoldInv, ReleaseInv, CollectInv, IterateInv, meta_indexInv, meta_newindexInv
<1>4. CASE Step \/ SlotReturn \/ Close \/ Wipe
  BY <1>4, StepIterInv, SlotReturnInv, CloseInv, WipeInv
<1>5. CASE Next
  BY <1>2, <1>3, <1>4, <1>5 DEF Next
<1>6. ASSUME NEW o \in Objects,
             \/ new_qobject(o) \/ load_ui(o) \/ new_model(o)
             \/ \E n \in Names \cup {None} :
                  \/ new_widget(o, n)
                  \/ \E w \in Wrappers : add_menu(w, o, n) \/ add_separator(w, o, n) \/ add_action(w, o, n)
      PROVE  IInv'
  BY <1>6, MakesInv
<1>7. ASSUME NEW w \in Wrappers,
             \/ set_model(w)
             \/ \E v \in Wrappers : layout_add(w, v) \/ ui_attach(w, v)
             \/ \E sig \in Signals : disconnect(w, sig) \/ \E fn \in Functions : connect(w, sig, fn)
      PROVE  IInv'
  BY <1>7, set_modelInv, layout_addInv, ui_attachInv, disconnectInv, connectInv
<1>8. CASE LibNext
  BY <1>5, <1>6, <1>7, <1>8 DEF LibNext
<1>9. QED
  BY <1>1, <1>8

LEMMA Invariant == Careful => (LibSpec => []IInv)
<1> SUFFICES ASSUME Careful PROVE LibSpec => []IInv
  OBVIOUS
<1>1. IInv /\ [LibNext]_vars => IInv'
  BY StepKeepsInv
<1>2. QED
  BY <1>1, InitInv, PTL DEF LibSpec

(* Whatever careful programs, C++ and Qt do, in any order: the QObjects,   *)
(* their children and names, the hash of wrappers and the references are   *)
(* of their types, and no program has more references than it takes.       *)
THEOREM TypeCorrect == Careful => (LibSpec => []TypeOK)
<1>1. IInv => TypeOK
  <2> SUFFICES ASSUME IInv PROVE TypeOK
    OBVIOUS
  <2>1. /\ heap \in HeapType /\ uses \in Programs /\ uses.refs \in Nat
        /\ lua \in Refs /\ cpp \in Refs
        /\ \A w \in Wrappers : lua[w] \in Nat /\ cpp[w] \in Nat /\ lua[w] <= uses.refs /\ cpp[w] <= uses.refs
    BY InvFacts DEF IInv
  <2>2. lua \in [Wrappers -> 0 .. uses.refs] /\ cpp \in [Wrappers -> 0 .. uses.refs]
    BY <2>1 DEF Refs
  <2>3. phase \in {"open", "closing", "closed"}
    BY DEF IInv, Phased
  <2>4. QED
    BY <2>1, <2>2, <2>3 DEF TypeOK, HeapType
<1>2. QED
  BY <1>1, Invariant, PTL

LEMMA WiredMatch ==
  ASSUME NEW x \in WrapType, Wired(x)
  PROVE  IF x.obj = None THEN x.conns = <<>>
         ELSE /\ Len(x.conns) = Cardinality(DOMAIN x.slots)
              /\ \A k \in ToSet(x.conns) : k.id \in DOMAIN x.slots /\ x.slots[k.id].sig = k.sig
<1>1. CASE x.obj = None
  BY <1>1 DEF Wired
<1>2. CASE x.obj # None
  <2> DEFINE D == DOMAIN x.conns
             S == DOMAIN x.slots
             f == [j \in D |-> x.conns[j].id]
  <2>1. /\ S = {x.conns[j].id : j \in D}
        /\ \A j \in D : x.slots[x.conns[j].id].sig = x.conns[j].sig
        /\ \A i, j \in D : x.conns[i].id = x.conns[j].id => i = j
    BY <1>2 DEF Wired
  <2>2. x.conns \in Seq(Conn)
    BY DEF WrapType
  <2>3. D = 1 .. Len(x.conns) /\ Len(x.conns) \in Nat
    BY <2>2, LenProperties
  <2>4. IsFiniteSet(D) /\ Cardinality(D) = Len(x.conns)
    BY <2>3, FS_Interval
  <2> HIDE DEF D, S
  <2>5. f \in Surjection(D, S)
    BY <2>1 DEF Surjection
  <2>6. f \in Injection(D, S)
    BY <2>1 DEF Injection, IsInjective
  <2>7. Cardinality(S) = Cardinality(D)
    BY <2>4, <2>5, <2>6, FS_Surjection
  <2>8. \A k \in ToSet(x.conns) : k.id \in S /\ x.slots[k.id].sig = k.sig
    BY <2>1 DEF ToSet, D
  <2>9. QED
    BY <1>2, <2>4, <2>7, <2>8 DEF S
<1>3. QED
  BY <1>1, <1>2

(* For any QObjects, wrappers and programs that are careful: the count of  *)
(* a wrapper is what refers to it, the hash has the wrappers of just those *)
(* QObjects that have one, Qt has connected what a wrapper has slots for,  *)
(* no QObject that was left to its wrapper is forgotten, and an iteration  *)
(* has a child to read.                                                    *)
THEOREM WrappersAgreeAlways == Careful => (LibSpec => []WrappersAgree)
<1>1. IInv => WrappersAgree
  <2> SUFFICES ASSUME IInv PROVE WrappersAgree
    OBVIOUS
  <2> DEFINE r == Total(lua, cpp)
  <2>1. /\ heap \in HeapType /\ Sound(heap) /\ Good(heap, r)
        /\ \A w \in Wrappers : lua[w] \in Nat /\ cpp[w] \in Nat /\ r[w] = lua[w] + cpp[w]
    BY InvFacts
  <2> HIDE DEF r
  <2>2. CountsRight
    BY <2>1 DEF CountsRight, Good, Counted
  <2>3. HashExact
    BY <2>1 DEF HashExact, Sound, Hashed, IInv, Phased
  <2>4. SlotsMatch
    <3>1. \A w \in Wrappers :
            LET x == heap.wrap[w] IN
            IF x.obj = None THEN x.conns = <<>>
            ELSE /\ Len(x.conns) = Cardinality(DOMAIN x.slots)
                 /\ \A k \in ToSet(x.conns) : k.id \in DOMAIN x.slots /\ x.slots[k.id].sig = k.sig
      BY <2>1, WrapperType, WiredMatch DEF Sound, Slotted
    <3>2. \A i \in DOMAIN calls : calls[i].id \in DOMAIN heap.wrap[calls[i].w].slots
      BY InvFacts
    <3>3. QED
      BY <3>1, <3>2 DEF SlotsMatch
  <2>5. NoneLeft
    <3>1. ASSUME NEW w \in Wrappers, heap.wrap[w].obj # None, heap.wrap[w].delete,
                 parent(heap, heap.wrap[w].obj) = None, lua[w] + cpp[w] = 0
          PROVE  FALSE
      <4>1. heap.wrap[w].obj \in Objects
        BY <2>1, <3>1, WrapperType
      <4>2. Alone(heap, heap.wrap[w].obj)
        BY <2>1, <3>1, <4>1, ParentIs
      <4>3. QED
        BY <2>1, <3>1, <4>2 DEF Good, Owned
    <3>2. QED
      BY <3>1 DEF NoneLeft
  <2>6. MoreIsThere
    BY DEF MoreIsThere, IInv, Iterates
  <2>7. QED
    BY <2>2, <2>3, <2>4, <2>5, <2>6 DEF WrappersAgree
<1>2. QED
  BY <1>1, Invariant, PTL

(* What is not among a closed set of the tree is not below its members.    *)
LEMMA OutcomeSpares ==
  ASSUME NEW g, NEW o, NEW c \in heap.exist, Closed(heap, heap.exist), heap.exist \subseteq Objects,
         o \notin Subtree(heap, c), g.exist = heap.exist, Closed(g, g.exist),
         \A p \in Objects : p # o => ToSet(g.kids[p]) \subseteq ToSet(heap.kids[p])
  PROVE  /\ Subtree(g, c) \subseteq Subtree(heap, c)
         /\ \A a \in Objects : a # c /\ (\A p \in Objects : p # o => a \notin ToSet(g.kids[p]))
                                 => a \notin Subtree(g, c)
<1> DEFINE S == Subtree(heap, c)
           T == Subtree(g, c)
<1>1. c \in S /\ S \in SUBSET heap.exist /\ Closed(heap, S)
  BY SubtreeIs
<1>2. Closed(g, S)
  BY <1>1 DEF Closed
<1>3. T \subseteq S
  BY <1>1, <1>2, SubtreeIs
<1>4. c \in T /\ T \in SUBSET g.exist /\ Closed(g, T)
  BY SubtreeIs
<1>5. ASSUME NEW a \in Objects, a # c, \A p \in Objects : p # o => a \notin ToSet(g.kids[p])
      PROVE  a \notin T
  <2>1. o \notin T
    BY <1>3
  <2> HIDE DEF T
  <2>2. Closed(g, T \ {a})
    BY <1>4, <1>5, <2>1 DEF Closed
  <2>3. c \in T \ {a} /\ T \ {a} \in SUBSET g.exist
    BY <1>4, <1>5
  <2>4. T \subseteq T \ {a}
    BY <2>2, <2>3, SubtreeIs DEF T
  <2>5. QED
    BY <2>4
<1>6. QED
  BY <1>3, <1>5

(* The child of a name is the one that has it.                             *)
LEMMA OnlyChild ==
  ASSUME NEW h \in HeapType, Named(h), NEW o \in h.exist, NEW a \in ToSet(h.kids[o]), NEW n \in Names,
         h.name[a] = n
  PROVE  get_child(h, o, n) = a
<1>1. o \in Objects /\ n # None
  BY WrapperAssumption DEF HeapType
<1> DEFINE c == get_child(h, o, n)
<1>2. c # None
  BY <1>1, ChildIs
<1>3. c \in ToSet(h.kids[o]) /\ h.name[c] = n
  BY <1>1, <1>2, ChildIs
<1> HIDE DEF c
<1>4. c = a
  BY <1>1, <1>3 DEF Named
<1>5. QED
  BY <1>4 DEF c

LEMMA NewindexWhole ==
  ASSUME IInv, Careful, NEW w \in Wrappers, NEW n \in Names, NEW v \in Wrappers \cup {None},
         meta_newindex(w, n, v)
  PROVE  \/ heap'.kids = heap.kids /\ heap'.name = heap.name
         \/ get_child(heap', heap.wrap[w].obj, n) = IF v = None THEN None ELSE heap.wrap[v].obj
<1> DEFINE o == heap.wrap[w].obj
           c == get_child(heap, o, n)
           a == Object(v)
<1>1. /\ o \in heap.exist /\ a \in heap.exist \cup {None} /\ heap \in HeapType
      /\ heap.exist \subseteq Objects /\ None \notin Objects /\ Closed(heap, heap.exist) /\ Sound(heap)
  BY AssignmentIs, InvFacts
<1>2. PICK g : Outcome(o, c, n, a, g)
  BY AssignmentIs
<1>3. c # None => c \in ToSet(heap.kids[o]) /\ c \in heap.exist /\ o \notin Subtree(heap, c)
  <2>1. c # None => c \in ToSet(heap.kids[o])
    BY <1>1, ChildIs
  <2>2. QED
    BY <1>1, <2>1 DEF Closed, Sound, Forest
<1>4. a = IF v = None THEN None ELSE heap.wrap[v].obj
  BY DEF Object
<1> HIDE DEF a, c, o
<1>5. /\ heap' \in HeapType /\ Named(heap') /\ heap'.exist \subseteq heap.exist
      /\ g \in HeapType /\ g.exist = heap.exist /\ Closed(g, g.exist)
      /\ \A p \in Objects : p # o => ToSet(g.kids[p]) \subseteq ToSet(heap.kids[p])
      /\ SameTree(heap, g) \/ Entered(g, o, n, a)
  BY <1>2 DEF Outcome, Good, Sound, SameTree, Pruned
<1>6. CASE SameTree(g, heap')
  <2>1. CASE SameTree(heap, g)
    BY <1>6, <2>1 DEF SameTree
  <2>2. CASE Entered(g, o, n, a)
    <3>1. get_child(heap', o, n) = a
      <4>1. CASE a = None
        <5>1. \A d \in ToSet(heap'.kids[o]) : heap'.name[d] # n
          BY <1>6, <2>2, <4>1 DEF SameTree, Entered
        <5>2. QED
          BY <1>1, <1>5, <4>1, <5>1, ChildIs
      <4>2. CASE a # None
        <5>1. a \in ToSet(heap'.kids[o]) /\ heap'.name[a] = n /\ o \in heap'.exist
          BY <1>1, <1>5, <1>6, <2>2, <4>2 DEF SameTree, Entered
        <5>2. QED
          BY <1>1, <1>5, <5>1, OnlyChild
      <4>3. QED
        BY <4>1, <4>2
    <3>2. QED
      BY <1>4, <3>1 DEF o
  <2>3. QED
    BY <1>5, <2>1, <2>2
<1>7. CASE c # None /\ Alone(g, c) /\ Pruned(g, heap', c)
  <2>1. Entered(g, o, n, a)
    <3>1. ~ SameTree(heap, g)
      BY <1>1, <1>3, <1>7 DEF Alone, SameTree
    <3>2. QED
      BY <1>5, <3>1
  <2>2. /\ Subtree(g, c) \subseteq Subtree(heap, c)
        /\ \A x \in Objects : x # c /\ (\A p \in Objects : p # o => x \notin ToSet(g.kids[p]))
                                => x \notin Subtree(g, c)
    BY <1>1, <1>3, <1>5, <1>7, OutcomeSpares
  <2>3. o \notin Subtree(g, c) /\ o \in Objects
    BY <1>1, <1>3, <1>7, <2>2
  <2>4. /\ o \in heap'.exist
        /\ ToSet(heap'.kids[o]) = ToSet(g.kids[o]) \cap (Objects \ Subtree(g, c))
        /\ \A p \in Objects : p \notin Subtree(g, c) => heap'.name[p] = g.name[p]
    BY <1>1, <1>5, <1>7, <2>3 DEF Pruned
  <2>5. get_child(heap', o, n) = a
    <3>1. CASE a = None
      <4>1. \A d \in ToSet(heap'.kids[o]) : heap'.name[d] # n
        BY <2>1, <2>4, <3>1 DEF Entered
      <4>2. QED
        BY <1>5, <2>3, <3>1, <4>1, ChildIs
    <3>2. CASE a # None
      <4>1. a \in Objects /\ a \in ToSet(g.kids[o]) /\ g.name[a] = n
            /\ \A p \in Objects : p # o => a \notin ToSet(g.kids[p])
        BY <1>1, <2>1, <3>2 DEF Entered
      <4>2. a # c
        BY <1>1, <1>5, <1>7, <4>1 DEF Alone
      <4>3. a \notin Subtree(g, c)
        BY <2>2, <4>1, <4>2
      <4>4. a \in ToSet(heap'.kids[o]) /\ heap'.name[a] = n
        BY <2>4, <4>1, <4>3
      <4>5. QED
        BY <1>5, <2>4, <4>4, OnlyChild
    <3>3. QED
      BY <3>1, <3>2
  <2>6. QED
    BY <1>4, <2>5 DEF o
<1>8. QED
  BY <1>2, <1>6, <1>7 DEF Outcome

(* For any QObjects, wrappers and careful programs: an assignment to a name  *)
(* makes the QObject assigned the child of that name, or none for nil, or *)
(* it changes no child and no name at all.                                 *)
THEOREM AssignmentWhole == Careful => (LibSpec => AssignsWholeOrNot)
<1> SUFFICES ASSUME Careful PROVE LibSpec => AssignsWholeOrNot
  OBVIOUS
<1> DEFINE Whole ==
      \A w \in Wrappers, n \in Names, v \in Wrappers \cup {None} :
        meta_newindex(w, n, v) =>
          \/ heap'.kids = heap.kids /\ heap'.name = heap.name
          \/ get_child(heap', heap.wrap[w].obj, n) = IF v = None THEN None ELSE heap.wrap[v].obj
<1>1. IInv => Whole
  BY NewindexWhole
<1>2. LibSpec => []IInv
  BY Invariant
<1> HIDE DEF Whole
<1>3. []IInv => [][Whole]_vars
  BY <1>1, PTL
<1>4. [][Whole]_vars => AssignsWholeOrNot
  BY DEF Whole, AssignsWholeOrNot
<1>5. QED
  BY <1>2, <1>3, <1>4

(***************************************************************************)
(* Who deletes.                                                            *)
(***************************************************************************)

(* A QObject goes with one that its wrapper was to delete.                 *)
Deleted(o) ==
  \/ \E r \in Objects : Delete(r)
  \/ \E w \in Wrappers : set_model(w) \/ \E v \in Wrappers : layout_add(w, v)
  \/ \E r \in heap.exist :
       /\ o \in Subtree(heap, r)
       /\ LET w == heap.whash[r] IN w # None /\ heap.wrap[w].delete /\ lua'[w] + cpp'[w] = 0
       /\ \/ parent(heap, r) = None
          \/ \E w \in Wrappers, n \in Names, v \in Wrappers \cup {None} : meta_newindex(w, n, v)

LEMMA DropDeletes ==
  ASSUME IInv, NEW w \in Wrappers, heap' = Dropped(heap, w) \/ heap' = Freed(heap, w),
         NEW o \in heap.exist, o \notin heap'.exist, lua'[w] + cpp'[w] = 0,
         heap.wrap[w].obj # None, parent(heap, heap.wrap[w].obj) = None, heap.wrap[w].delete,
         Pruned(heap, heap', heap.wrap[w].obj)
  PROVE  Deleted(o)
<1> DEFINE r == heap.wrap[w].obj
<1>1. r \in heap.exist /\ heap.whash[r] = w /\ w # None
  BY InvFacts, WrapperAssumption DEF Sound, Hashed
<1>2. o \in Subtree(heap, r)
  BY DEF Pruned
<1> HIDE DEF r
<1>3. parent(heap, r) = None
  BY DEF r
<1>4. QED
  BY <1>1, <1>2, <1>3 DEF Deleted

LEMMA GiveUpDeletes ==
  ASSUME IInv, NEW w \in Wrappers, heap' = Dropped(heap, w), NEW o \in heap.exist, o \notin heap'.exist,
         Total(lua, cpp)[w] > 0, Minus(Total(lua, cpp), w)[w] = lua'[w] + cpp'[w]
  PROVE  Deleted(o)
<1> DEFINE q == Total(lua, cpp)
<1>1. Good(heap, q) /\ q \in Refs
  BY InvFacts
<1> HIDE DEF q
<1>2. ~ SameTree(heap, heap')
  BY DEF SameTree
<1>3. /\ Minus(q, w)[w] = 0
      /\ heap.wrap[w].obj # None /\ parent(heap, heap.wrap[w].obj) = None /\ heap.wrap[w].delete
      /\ Pruned(heap, heap', heap.wrap[w].obj)
  BY <1>1, <1>2, DroppedIs DEF q
<1>4. lua'[w] + cpp'[w] = 0
  BY <1>3 DEF q
<1>5. QED
  BY <1>3, <1>4, DropDeletes

LEMMA CollectDeletes ==
  ASSUME IInv, NEW w \in Wrappers, Collect(w) \/ Release(w), NEW o \in heap.exist, o \notin heap'.exist
  PROVE  Deleted(o)
<1> DEFINE q == Total(lua, cpp)
<1>1. /\ lua \in Refs /\ cpp \in Refs /\ lua[w] \in Nat /\ cpp[w] \in Nat /\ q[w] = lua[w] + cpp[w]
      /\ Used(w) \in Nat /\ q \in Refs
  BY InvFacts, UsedIs
<1>2. /\ heap' = Dropped(heap, w)
      /\ \/ lua' = Minus(lua, w) /\ cpp' = cpp /\ lua[w] > 0
         \/ lua' = lua /\ cpp' = Minus(cpp, w) /\ cpp[w] > 0
  BY <1>1 DEF Collect, Release, Becomes, Minus
<1> HIDE DEF q
<1>3. q[w] > 0 /\ Minus(q, w)[w] = q[w] - 1
  BY <1>1, <1>2 DEF Minus, Refs
<1>4. Minus(q, w)[w] = lua'[w] + cpp'[w]
  BY <1>1, <1>2, <1>3 DEF Minus, Refs
<1>5. QED
  BY <1>2, <1>3, <1>4, GiveUpDeletes DEF q

LEMMA WipeDeletes ==
  ASSUME IInv, Wipe, NEW o \in heap.exist, o \notin heap'.exist
  PROVE  Deleted(o)
<1> DEFINE r == Total(lua, cpp)
<1>1. phase = "closing" /\ UNCHANGED <<lua, cpp>> /\ \A w \in Wrappers : lua[w] = 0
  BY DEF Wipe
<1>2. \A w \in Wrappers : cpp[w] = 0
  BY <1>1 DEF IInv, Phased
<1>3. r \in Refs /\ Good(heap, r) /\ heap \in HeapType /\ Sound(heap) /\ \A w \in Wrappers : r[w] = 0
  BY <1>1, <1>2, InvFacts
<1> HIDE DEF r
<1>4. PICK p \in Objects : heap.whash[p] # None /\ heap' = Dropped(heap, heap.whash[p])
  BY DEF Wipe
<1> DEFINE w == heap.whash[p]
<1>5. w \in Wrappers /\ heap.wrap[w].obj = p /\ p # None
  BY <1>3, <1>4, WrapperAssumption DEF HeapType, Sound, Hashed
<1> HIDE DEF w
<1>6. heap.wrap[w].count = 1
  BY <1>3, <1>5 DEF Good, Counted
<1>7. heap' = Freed(heap, w)
  BY <1>4, <1>6 DEF Dropped, w
<1>8. \A x \in Wrappers : x # w =>
        /\ heap.wrap[x].count = r[x] + (IF heap.wrap[x].obj # None THEN 1 ELSE 0)
        /\ ~ (heap.wrap[x].obj # None /\ heap.wrap[x].delete /\ Alone(heap, heap.wrap[x].obj) /\ r[x] = 0)
  BY <1>3 DEF Good, Counted, Owned
<1>9. ~ SameTree(heap, heap')
  BY DEF SameTree
<1>10. /\ heap.wrap[w].obj # None /\ parent(heap, heap.wrap[w].obj) = None /\ heap.wrap[w].delete
       /\ Pruned(heap, heap', heap.wrap[w].obj)
  BY <1>3, <1>5, <1>7, <1>8, <1>9, FreedIs
<1>11. lua'[w] + cpp'[w] = 0
  BY <1>1, <1>2, <1>5
<1>12. QED
  BY <1>5, <1>7, <1>10, <1>11, DropDeletes

LEMMA NewindexDeletes ==
  ASSUME IInv, Careful, NEW w \in Wrappers, NEW n \in Names, NEW v \in Wrappers \cup {None},
         meta_newindex(w, n, v), NEW x \in heap.exist, x \notin heap'.exist
  PROVE  Deleted(x)
<1> DEFINE o == heap.wrap[w].obj
           c == get_child(heap, o, n)
           a == Object(v)
           u == heap.whash[c]
           r == Total(lua, cpp)
<1>1. /\ o \in heap.exist /\ heap \in HeapType /\ UNCHANGED <<lua, cpp>>
      /\ heap.exist \subseteq Objects /\ Closed(heap, heap.exist) /\ Sound(heap) /\ None \notin Wrappers
      /\ \A y \in Wrappers : r[y] = lua[y] + cpp[y]
  BY AssignmentIs, InvFacts, WrapperAssumption
<1>2. PICK g : Outcome(o, c, n, a, g)
  BY AssignmentIs
<1>3. c # None => c \in ToSet(heap.kids[o]) /\ c \in heap.exist /\ o \notin Subtree(heap, c)
  <2>1. c # None => c \in ToSet(heap.kids[o])
    BY <1>1, ChildIs
  <2>2. QED
    BY <1>1, <2>1 DEF Closed, Sound, Forest
<1> HIDE DEF a, c, o, u, r
<1>4. /\ g.exist = heap.exist /\ Closed(g, g.exist)
      /\ \A p \in Objects : p # o => ToSet(g.kids[p]) \subseteq ToSet(heap.kids[p])
      /\ c # None /\ u \in Wrappers /\ r[u] = 0 /\ heap.wrap[u].delete /\ Pruned(g, heap', c)
  BY <1>2 DEF Outcome, SameTree, u, r
<1>5. Subtree(g, c) \subseteq Subtree(heap, c)
  <2>1. /\ c \in heap.exist /\ o \notin Subtree(heap, c)
        /\ Closed(heap, heap.exist) /\ heap.exist \subseteq Objects
    BY <1>1, <1>3, <1>4
  <2>2. /\ g.exist = heap.exist /\ Closed(g, g.exist)
        /\ \A p \in Objects : p # o => ToSet(g.kids[p]) \subseteq ToSet(heap.kids[p])
    BY <1>4
  <2>3. QED
    BY ONLY <2>1, <2>2, OutcomeSpares
<1>6. x \in Subtree(heap, c)
  BY <1>4, <1>5 DEF Pruned
<1>7. u # None /\ lua'[u] + cpp'[u] = 0
  BY <1>1, <1>4
<1>8. QED
  BY <1>3, <1>4, <1>6, <1>7 DEF Deleted, u

(* The other steps delete nothing.                                         *)
LEMMA NoneDeleted ==
  ASSUME IInv, Careful,
         \/ \E o \in Objects :
              \/ \E p \in Objects \cup {None} : New(o, p) \/ Move(o, p)
              \/ \E flags \in Flags \cup {None} : Give(o, flags)
              \/ \E sig \in Signals : Emit(o, sig)
         \/ \E w \in Wrappers : Hold(w) \/ Iterate(w) \/ \E n \in Names : meta_index(w, n)
         \/ Step \/ SlotReturn \/ Close
         \/ \E w \in Wrappers :
              \/ \E v \in Wrappers : ui_attach(w, v)
              \/ \E sig \in Signals : disconnect(w, sig) \/ \E fn \in Functions : connect(w, sig, fn)
  PROVE  heap.exist \subseteq heap'.exist
<1>1. /\ heap \in HeapType /\ heap.exist \subseteq Objects /\ Good(heap, Total(lua, cpp))
      /\ Total(lua, cpp) \in Refs /\ Closed(heap, heap.exist)
      /\ \A w \in Wrappers : heap.wrap[w].obj \in heap.exist \cup {None}
  BY InvFacts
<1>2. \A h, f : h = [heap EXCEPT !.wrap = f] => h.exist = heap.exist
  BY <1>1 DEF HeapType
<1>3. ASSUME NEW c \in heap.exist, Wrappable(heap, c) PROVE get_wrapper(heap, c).exist = heap.exist
  BY <1>1, <1>3, TakenIs
<1>4. ASSUME NEW o \in Objects, NEW p \in Objects \cup {None}, New(o, p) PROVE heap.exist \subseteq heap'.exist
  <2> DEFINE k == [heap EXCEPT !.exist = @ \cup {o}]
  <2>1. heap' = SetParent(k, o, p)
    BY <1>4 DEF New, Becomes
  <2>2. k \in HeapType /\ k.exist = heap.exist \cup {o}
    BY <1>1 DEF HeapType
  <2> HIDE DEF k
  <2>3. Moved(k, heap', o, p)
    BY <2>1, <2>2, SetParentIs
  <2>4. QED
    BY <2>2, <2>3 DEF Moved
<1>5. ASSUME NEW o \in Objects, NEW p \in Objects \cup {None}, Move(o, p) PROVE heap.exist \subseteq heap'.exist
  <2>1. heap' = SetParent(heap, o, p)
    BY <1>5 DEF Move, Becomes
  <2>2. Moved(heap, SetParent(heap, o, p), o, p)
    BY <1>1, SetParentIs
  <2>3. QED
    BY <2>1, <2>2 DEF Moved
<1>6. ASSUME NEW o \in Objects, NEW flags \in Flags \cup {None}, Give(o, flags)
      PROVE  heap.exist \subseteq heap'.exist
  <2> DEFINE k == get_wrapper(heap, o)
  <2>1. /\ o \in heap.exist /\ Wrappable(heap, o)
        /\ heap' = IF flags = None THEN k ELSE Flagged(k, Got(heap, o), flags.reparent, flags.delete)
    BY <1>6 DEF Give, Becomes, Got
  <2>2. k.exist = heap.exist /\ k \in HeapType
    BY <1>1, <2>1, TakenIs DEF Good, Sound
  <2> HIDE DEF k
  <2>3. \A w, x, y : Flagged(k, w, x, y).exist = k.exist
    BY <2>2 DEF Flagged, HeapType
  <2>4. QED
    BY <2>1, <2>2, <2>3
<1>7. ASSUME NEW o \in Objects, NEW sig \in Signals, Emit(o, sig) PROVE heap.exist \subseteq heap'.exist
  BY <1>1, <1>7 DEF Emit, Called, HeapType
<1>8. ASSUME NEW w \in Wrappers, Hold(w) \/ Iterate(w) PROVE heap.exist \subseteq heap'.exist
  BY <1>1, <1>8 DEF Hold, Iterate, Becomes, HeapType
<1>9. ASSUME NEW w \in Wrappers, NEW n \in Names, meta_index(w, n) PROVE heap.exist \subseteq heap'.exist
  <2> DEFINE c == get_child(heap, heap.wrap[w].obj, n)
  <2>1. heap.wrap[w].obj # None /\ c # None /\ Wrappable(heap, c) /\ heap' = get_wrapper(heap, c)
    BY <1>9 DEF meta_index, Becomes
  <2>2. c \in ToSet(heap.kids[heap.wrap[w].obj])
    BY <1>1, <2>1, ChildIs
  <2>3. c \in heap.exist
    BY <1>1, <2>1, <2>2 DEF Closed
  <2> HIDE DEF c
  <2>4. QED
    BY <1>3, <2>1, <2>3
<1>10. CASE Step
  <2> DEFINE o == heap.wrap[iter.w].obj
             c == heap.kids[o][iter.id + 1]
  <2>1. CASE More(heap, iter.w, iter.id)
    <3>1. Wrappable(heap, c) /\ heap' = get_wrapper(heap, c) /\ iter # NoIter
      BY <1>10, <2>1 DEF Step, Becomes
    <3>2. iter.w \in Wrappers /\ iter.id \in Nat /\ o # None /\ iter.id < Len(heap.kids[o])
      BY <2>1, <3>1 DEF IInv, Iterates, More
    <3>3. o \in heap.exist /\ heap.kids[o] \in Seq(Objects)
      BY <1>1, <3>2 DEF HeapType
    <3>4. \A s \in Seq(Objects), i \in Nat : i < Len(s) => s[i + 1] \in ToSet(s)
      BY DEF ToSet
    <3>6. c \in ToSet(heap.kids[o])
      BY <3>2, <3>3, <3>4
    <3>7. c \in heap.exist
      BY <1>1, <3>3, <3>6 DEF Closed
    <3> HIDE DEF c
    <3>8. QED
      BY <1>3, <3>1, <3>7
  <2>2. CASE ~ More(heap, iter.w, iter.id)
    BY <1>10, <2>2 DEF Step
  <2>3. QED
    BY <2>1, <2>2
<1>11. CASE SlotReturn
  BY <1>1, <1>11 DEF SlotReturn, Called, HeapType
<1>12. CASE Close
  BY <1>2, <1>12 DEF Close
<1>13. ASSUME NEW w \in Wrappers, NEW v \in Wrappers, ui_attach(w, v) PROVE heap.exist \subseteq heap'.exist
  <2> DEFINE o == heap.wrap[w].obj
             b == heap.wrap[v].obj
  <2>1. heap' = Put(heap, b, o) /\ o # None /\ b # None
    BY <1>13 DEF ui_attach, Argument, Obj, Arranges, Becomes
  <2>2. o \in Objects /\ b \in Objects
    BY <1>1, <2>1
  <2>3. CASE heap' = SetParent(heap, b, o)
    <3>1. Moved(heap, SetParent(heap, b, o), b, o)
      BY <1>1, <2>2, SetParentIs
    <3>2. QED
      BY <2>3, <3>1 DEF Moved
  <2>4. QED
    BY <2>1, <2>3 DEF Put
<1>14. ASSUME NEW w \in Wrappers, NEW sig \in Signals, disconnect(w, sig) PROVE heap.exist \subseteq heap'.exist
  BY <1>1, <1>14 DEF disconnect, _lua_disconnect, _lua_disconnect_all, Disconnected, Becomes, HeapType
<1>15. ASSUME NEW w \in Wrappers, NEW sig \in Signals, NEW fn \in Functions, connect(w, sig, fn)
       PROVE  heap.exist \subseteq heap'.exist
  BY <1>1, <1>15 DEF connect, _lua_connect, Becomes, HeapType
<1>16. QED
  BY <1>4, <1>5, <1>6, <1>7, <1>8, <1>9, <1>10, <1>11, <1>12, <1>13, <1>14, <1>15

LEMMA StepDeletes ==
  ASSUME IInv, Careful, LibNext, NEW x \in heap.exist, x \notin heap'.exist
  PROVE  Deleted(x)
<1>1. ASSUME NEW o \in Objects,
             \/ Delete(o)
             \/ \E p \in Objects \cup {None} : New(o, p) \/ Move(o, p)
             \/ \E flags \in Flags \cup {None} : Give(o, flags)
             \/ \E sig \in Signals : Emit(o, sig)
      PROVE  Deleted(x)
  BY <1>1, NoneDeleted DEF Deleted
<1>2. ASSUME NEW w \in Wrappers,
             \/ Hold(w) \/ Release(w) \/ Collect(w) \/ Iterate(w)
             \/ \E n \in Names : meta_index(w, n) \/ \E v \in Wrappers \cup {None} : meta_newindex(w, n, v)
      PROVE  Deleted(x)
  BY <1>2, NoneDeleted, CollectDeletes, NewindexDeletes
<1>3. CASE Step \/ SlotReturn \/ Close \/ Wipe
  BY <1>3, NoneDeleted, WipeDeletes
<1>4. CASE Next
  BY <1>1, <1>2, <1>3, <1>4 DEF Next
<1>5. ASSUME NEW o \in Objects,
             \/ new_qobject(o) \/ load_ui(o) \/ new_model(o)
             \/ \E n \in Names \cup {None} :
                  \/ new_widget(o, n)
                  \/ \E w \in Wrappers : add_menu(w, o, n) \/ add_separator(w, o, n) \/ add_action(w, o, n)
      PROVE  Deleted(x)
  BY <1>5, MakesInv
<1>6. ASSUME NEW w \in Wrappers,
             \/ set_model(w)
             \/ \E v \in Wrappers : layout_add(w, v) \/ ui_attach(w, v)
             \/ \E sig \in Signals : disconnect(w, sig) \/ \E fn \in Functions : connect(w, sig, fn)
      PROVE  Deleted(x)
  BY <1>6, NoneDeleted DEF Deleted
<1>7. QED
  BY <1>4, <1>5, <1>6 DEF LibNext

(* For any QObjects, wrappers and careful programs: a QObject that goes    *)
(* was deleted by C++, was the layout or model that another took the place *)
(* of, or is below one whose wrapper was to delete it, which nobody knows  *)
(* any more and which had no parent, or lost it to the assignment.         *)
THEOREM NothingElseDeleted == Careful => (LibSpec => NoSurprise)
<1> SUFFICES ASSUME Careful PROVE LibSpec => NoSurprise
  OBVIOUS
<1> DEFINE Expected == \A o \in heap.exist \ heap'.exist : Deleted(o)
<1>1. IInv /\ [LibNext]_vars => [Expected]_vars
  BY StepDeletes
<1>2. LibSpec => []IInv
  BY Invariant
<1> HIDE DEF Expected
<1>3. []IInv /\ [][LibNext]_vars => [][Expected]_vars
  BY <1>1, PTL
<1>4. [][Expected]_vars => NoSurprise
  BY DEF Expected, Deleted, NoSurprise
<1>5. QED
  BY <1>2, <1>3, <1>4, PTL DEF LibSpec
=============================================================================
