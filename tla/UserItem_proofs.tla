-------------------------- MODULE UserItem_proofs --------------------------
(***************************************************************************)
(* Whoever edits the trees, scripts, views and C++ code, in any order, a   *)
(* drag in progress or not: the parent and row pointers agree with the     *)
(* child lists, and the name index with the children.  First what the      *)
(* operations on trees of module ItemTree preserve, then the actions.      *)
(***************************************************************************)
EXTENDS UserItem, SequenceTheorems, TLAPS

-----------------------------------------------------------------------------
(* What QList::removeAt and QList::insert do to a list.                    *)

LEMMA RemoveAtFacts ==
  ASSUME NEW S, NEW s \in Seq(S), NEW k \in 1 .. Len(s)
  PROVE  /\ RemoveAt(s, k) \in Seq(S)
         /\ Len(RemoveAt(s, k)) = Len(s) - 1
         /\ \A j \in 1 .. Len(s) - 1 :
              RemoveAt(s, k)[j] = IF j < k THEN s[j] ELSE s[j + 1]
<1> DEFINE u == SubSeq(s, 1, k - 1)
           v == SubSeq(s, k + 1, Len(s))
<1>1. /\ u \in Seq(S) /\ Len(u) = k - 1
      /\ \A j \in 1 .. k - 1 : u[j] = s[j]
  OBVIOUS
<1>2. /\ v \in Seq(S) /\ Len(v) = Len(s) - k
      /\ \A j \in 1 .. Len(s) - k : v[j] = s[k + j]
  OBVIOUS
<1>3. RemoveAt(s, k) = u \o v
  BY DEF RemoveAt
<1> HIDE DEF u, v
<1>4. /\ u \o v \in Seq(S) /\ Len(u \o v) = Len(u) + Len(v)
      /\ \A j \in 1 .. Len(u) + Len(v) :
           (u \o v)[j] = IF j <= Len(u) THEN u[j] ELSE v[j - Len(u)]
  BY <1>1, <1>2, ConcatProperties
<1>5. Len(u) + Len(v) = Len(s) - 1
  BY <1>1, <1>2
<1>6. ASSUME NEW j \in 1 .. Len(s) - 1
      PROVE  (u \o v)[j] = IF j < k THEN s[j] ELSE s[j + 1]
  <2>1. CASE j < k
    BY <2>1, <1>1, <1>4, <1>5
  <2>2. CASE ~ (j < k)
    <3>1. j - Len(u) \in 1 .. Len(s) - k /\ ~ (j <= Len(u)) /\ k + (j - Len(u)) = j + 1
      BY <2>2, <1>1
    <3>2. QED
      BY <2>2, <3>1, <1>2, <1>4, <1>5
  <2>3. QED
    BY <2>1, <2>2
<1>7. QED
  BY <1>3, <1>4, <1>5, <1>6

LEMMA InsertAtFacts ==
  ASSUME NEW s \in Seq(Item), NEW k \in 1 .. Len(s) + 1, NEW e \in Item
  PROVE  /\ InsertAt(s, k, e) \in Seq(Item)
         /\ Len(InsertAt(s, k, e)) = Len(s) + 1
         /\ \A j \in 1 .. Len(s) + 1 :
              InsertAt(s, k, e)[j] = IF j < k THEN s[j] ELSE IF j = k THEN e ELSE s[j - 1]
<1> DEFINE u == SubSeq(s, 1, k - 1)
           v == SubSeq(s, k, Len(s))
<1>1. /\ u \in Seq(Item) /\ Len(u) = k - 1
      /\ \A j \in 1 .. k - 1 : u[j] = s[j]
  OBVIOUS
<1>2. /\ v \in Seq(Item) /\ Len(v) = Len(s) - k + 1
      /\ \A j \in 1 .. Len(s) - k + 1 : v[j] = s[k + j - 1]
  OBVIOUS
<1>3. InsertAt(s, k, e) = u \o <<e>> \o v
  BY DEF InsertAt
<1> HIDE DEF u, v
<1> DEFINE w == u \o <<e>>
<1>4. /\ w \in Seq(Item) /\ Len(w) = k
      /\ \A j \in 1 .. k : w[j] = IF j < k THEN u[j] ELSE e
  BY <1>1
<1> HIDE DEF w
<1>5. /\ w \o v \in Seq(Item) /\ Len(w \o v) = Len(s) + 1
      /\ \A j \in 1 .. Len(s) + 1 : (w \o v)[j] = IF j <= k THEN w[j] ELSE v[j - k]
  BY <1>2, <1>4, ConcatProperties
<1>6. QED
  BY <1>1, <1>2, <1>3, <1>4, <1>5 DEF w

-----------------------------------------------------------------------------
(* Renumbering.                                                            *)

(* From first on, no item is twice in the child list of p.                 *)
NoRepeats(t, p, first) ==
  \A k, m \in first + 1 .. Len(t.children[p]) : t.children[p][k] = t.children[p][m] => k = m

LEMMA RenumberedFacts ==
  ASSUME NEW t \in Tree, NEW p \in List, NEW first \in Nat, NoRepeats(t, p, first)
  PROVE  /\ Renumbered(t, p, first) \in [Item -> Nat \cup {-1}]
         /\ \A k \in first + 1 .. Len(t.children[p]) :
              Renumbered(t, p, first)[t.children[p][k]] = k - 1
         /\ \A j \in Item :
              (\A k \in first + 1 .. Len(t.children[p]) : t.children[p][k] # j)
                => Renumbered(t, p, first)[j] = t.row[j]
         /\ \A j \in Item : t.row[j] \in Nat => Renumbered(t, p, first)[j] \in Nat
<1> DEFINE list == t.children[p]
           tail == first + 1 .. Len(list)
           r == Renumbered(t, p, first)
<1>1. list \in Seq(Item) /\ t.row \in [Item -> Nat \cup {-1}]
  BY DEF Tree
<1>2. \A k \in tail : list[k] \in Item /\ k - 1 \in Nat
  BY <1>1
<1> DEFINE position(j) == CHOOSE k \in tail : list[k] = j
<1>3. \A k \in tail : position(list[k]) = k
  <2>1. ASSUME NEW k \in tail
        PROVE  position(list[k]) \in tail /\ list[position(list[k])] = list[k]
    BY Zenon
  <2> HIDE DEF position
  <2>2. \A k, m \in tail : list[k] = list[m] => k = m
    BY DEF NoRepeats
  <2>3. QED
    BY <2>1, <2>2
<1>4. \A j \in Item : r[j] = IF \E k \in tail : list[k] = j THEN position(j) - 1 ELSE t.row[j]
  BY DEF Renumbered
<1> HIDE DEF position, r
<1>5. \A k \in tail : r[list[k]] = k - 1
  BY <1>2, <1>3, <1>4
<1>6. \A j \in Item : (\A k \in tail : list[k] # j) => r[j] = t.row[j]
  BY <1>4
<1>7. \A j \in Item : r[j] \in Nat \cup {-1} /\ (t.row[j] \in Nat => r[j] \in Nat)
  BY <1>1, <1>2, <1>5, <1>6
<1>8. r \in [Item -> Nat \cup {-1}]
  BY <1>7 DEF Renumbered, r
<1>9. QED
  BY <1>5, <1>6, <1>7, <1>8 DEF r

LEMMA ChangeIndexesFacts ==
  ASSUME NEW t \in Tree, NEW p \in List, NEW first \in Nat, NoRepeats(t, p, first)
  PROVE  LET u == ChangeIndexes(t, p, first)
         IN  /\ u \in Tree
             /\ \A k \in first + 1 .. Len(t.children[p]) : u.row[t.children[p][k]] = k - 1
             /\ \A j \in Item :
                  (\A k \in first + 1 .. Len(t.children[p]) : t.children[p][k] # j)
                    => u.row[j] = t.row[j]
             /\ u.children = t.children /\ u.hash = t.hash /\ u.counter = t.counter
             /\ u.name = t.name /\ u.parent = t.parent /\ u.mdl = t.mdl
<1> DEFINE newrow == Renumbered(t, p, first)
           pidx == {IF Follows(t, p, e) THEN [e EXCEPT !.row = newrow[e.item]] ELSE e : e \in t.pidx}
           u == ChangeIndexes(t, p, first)
<1>1. /\ newrow \in [Item -> Nat \cup {-1}]
      /\ \A k \in first + 1 .. Len(t.children[p]) : newrow[t.children[p][k]] = k - 1
      /\ \A j \in Item : (\A k \in first + 1 .. Len(t.children[p]) : t.children[p][k] # j)
                         => newrow[j] = t.row[j]
      /\ \A j \in Item : t.row[j] \in Nat => newrow[j] \in Nat
  BY RenumberedFacts
<1>2. u = [t EXCEPT !.row = newrow, !.pidx = pidx]
  BY DEF ChangeIndexes
<1> HIDE DEF newrow, u
<1>3. ASSUME NEW e \in t.pidx
      PROVE  (IF Follows(t, p, e) THEN [e EXCEPT !.row = newrow[e.item]] ELSE e) \in PersistentIndex
  <2>1. e \in PersistentIndex
    BY DEF Tree
  <2>2. CASE Follows(t, p, e)
    <3>1. t.row[e.item] = e.row
      BY <2>2 DEF Follows, IsIndexOf
    <3>2. newrow[e.item] \in Nat
      BY <2>1, <3>1, <1>1 DEF PersistentIndex
    <3>3. QED
      BY <2>1, <2>2, <3>2 DEF PersistentIndex
  <2>3. QED
    BY <2>1, <2>2
<1>4. pidx \in SUBSET PersistentIndex
  BY <1>3
<1> HIDE DEF pidx
<1>5. /\ u \in Tree /\ u.row = newrow
      /\ u.children = t.children /\ u.hash = t.hash /\ u.counter = t.counter
      /\ u.name = t.name /\ u.parent = t.parent /\ u.mdl = t.mdl
  BY <1>1, <1>2, <1>4 DEF Tree
<1>6. QED
  BY <1>1, <1>5 DEF u

-----------------------------------------------------------------------------
(* The private functions that link and unlink a child.                     *)

LEMMA RemoveNameFacts ==
  ASSUME NEW t \in Tree, NEW p \in List, NEW n \in Raw
  PROVE  LET u == RemoveName(t, p, n)
         IN  /\ u \in Tree
             /\ u = [t EXCEPT !.hash = u.hash]
             /\ \A q \in List, m \in Name :
                  u.hash[q][m] = IF q = p /\ m = n THEN None ELSE t.hash[q][m]
  BY TreeAssumption DEF RemoveName, Tree, Raw

(* Removing a child keeps the lists and the pointers in agreement.         *)
LEMMA RemoveChildFacts ==
  ASSUME NEW t \in Tree, ListsAgree(t), NEW i \in Item, t.parent[i] # None
  PROVE  LET u == RemoveChild(t, i)
             p == t.parent[i]
         IN  /\ u \in Tree
             /\ ListsAgree(u)
             /\ u.parent = [t.parent EXCEPT ![i] = None]
             /\ u.hash = RemoveName(t, p, t.name[i]).hash
             /\ u.name = t.name /\ u.counter = t.counter /\ u.mdl = t.mdl
             /\ \A q \in List : Len(u.children[q]) =
                  IF q = p THEN Len(t.children[q]) - 1 ELSE Len(t.children[q])
<1> DEFINE p == t.parent[i]
           r == t.row[i]
           list == t.children[p]
           short == RemoveAt(list, r + 1)
           t1 == RemoveName(t, p, t.name[i])
           t2 == [t1 EXCEPT !.children[p] = RemoveAt(@, r + 1)]
           t3 == ChangeIndexes(t2, p, r)
           u == [t3 EXCEPT !.parent[i] = None, !.row[i] = -1]
<1>0. u = RemoveChild(t, i)
  BY DEF RemoveChild
<1>1. /\ p \in List /\ t.name[i] \in Raw /\ list \in Seq(Item) /\ p # None
      /\ p = t.parent[i] /\ r = t.row[i] /\ list = t.children[p]
  BY DEF Tree
<1>2. r \in Nat /\ r + 1 \in 1 .. Len(list) /\ list[r + 1] = i
  BY DEF Tree, ListsAgree
<1>4. /\ short \in Seq(Item) /\ Len(short) = Len(list) - 1
      /\ \A k \in 1 .. Len(list) - 1 : short[k] = IF k < r + 1 THEN list[k] ELSE list[k + 1]
      /\ short = RemoveAt(list, r + 1)
  BY <1>1, <1>2, RemoveAtFacts
<1>3. /\ t1 \in Tree /\ t1.children = t.children /\ t1.row = t.row /\ t1.parent = t.parent
      /\ t1.name = t.name /\ t1.counter = t.counter /\ t1.mdl = t.mdl
      /\ t1.hash = RemoveName(t, t.parent[i], t.name[i]).hash
  <2>1. t1 \in Tree /\ t1 = [t EXCEPT !.hash = t1.hash]
    BY <1>1, RemoveNameFacts
  <2>2. QED
    BY <2>1 DEF Tree
<1> HIDE DEF p, r, list, short, t1
<1>5. /\ t2 \in Tree /\ t2.children = [t.children EXCEPT ![p] = short] /\ t2.row = t.row
      /\ t2.parent = t.parent /\ t2.name = t.name /\ t2.counter = t.counter
      /\ t2.mdl = t.mdl /\ t2.hash = t1.hash
  BY <1>1, <1>3, <1>4 DEF Tree
<1> HIDE DEF t2
<1>6. t2.children[p] = short
  BY <1>1, <1>5 DEF Tree
<1>7. \A k \in 1 .. Len(list) : t.parent[list[k]] = p /\ t.row[list[k]] = k - 1
  BY <1>1 DEF ListsAgree
<1>8. \A k \in 1 .. Len(short) :
        /\ short[k] \in Item /\ t.parent[short[k]] = p /\ short[k] # i
        /\ t.row[short[k]] = IF k < r + 1 THEN k - 1 ELSE k
  <2> TAKE k \in 1 .. Len(short)
  <2>1. k \in 1 .. Len(list) /\ k + 1 \in 1 .. Len(list) /\ short[k] = IF k < r + 1 THEN list[k] ELSE list[k + 1]
    BY <1>1, <1>4
  <2>2. list[k] \in Item /\ list[k + 1] \in Item
    BY <2>1, <1>1
  <2>3. t.row[i] = r
    BY <1>1
  <2>4. CASE k < r + 1
    BY <2>1, <2>2, <2>3, <2>4, <1>2, <1>7
  <2>5. CASE ~ (k < r + 1)
    BY <2>1, <2>2, <2>3, <2>5, <1>2, <1>7
  <2>6. QED
    BY <2>4, <2>5
<1>9. NoRepeats(t2, p, r)
  <2>1. ASSUME NEW k \in r + 1 .. Len(short), NEW m \in r + 1 .. Len(short), short[k] = short[m]
        PROVE  k = m
    <3>1. k \in 1 .. Len(short) /\ m \in 1 .. Len(short) /\ ~ (k < r + 1) /\ ~ (m < r + 1)
      BY <1>2, <1>4
    <3>2. QED
      BY <2>1, <3>1, <1>8
  <2>2. QED
    BY <2>1, <1>6 DEF NoRepeats
<1>10. /\ t3 \in Tree /\ t3.children = t2.children
       /\ t3.parent = t.parent /\ t3.name = t.name /\ t3.counter = t.counter
       /\ t3.mdl = t.mdl /\ t3.hash = t1.hash
       /\ \A k \in r + 1 .. Len(t2.children[p]) : t3.row[t2.children[p][k]] = k - 1
       /\ \A j \in Item : (\A k \in r + 1 .. Len(t2.children[p]) : t2.children[p][k] # j)
                          => t3.row[j] = t2.row[j]
  <2>1. t2 \in Tree /\ p \in List /\ r \in Nat
    BY <1>1, <1>2, <1>5
  <2>2. /\ t3 \in Tree /\ t3.children = t2.children
        /\ t3.hash = t2.hash /\ t3.counter = t2.counter /\ t3.name = t2.name
        /\ t3.parent = t2.parent /\ t3.mdl = t2.mdl
        /\ \A k \in r + 1 .. Len(t2.children[p]) : t3.row[t2.children[p][k]] = k - 1
        /\ \A j \in Item : (\A k \in r + 1 .. Len(t2.children[p]) : t2.children[p][k] # j)
                           => t3.row[j] = t2.row[j]
    BY <2>1, <1>9, ChangeIndexesFacts
  <2> HIDE DEF t3
  <2>3. QED
    BY <2>2, <1>5
<1> HIDE DEF t3
<1>11. /\ t3.row \in [Item -> Nat \cup {-1}]
       /\ \A k \in r + 1 .. Len(short) : t3.row[short[k]] = k - 1
       /\ \A j \in Item : (\A k \in r + 1 .. Len(short) : short[k] # j) => t3.row[j] = t.row[j]
  <2>1. t3.row \in [Item -> Nat \cup {-1}]
    BY <1>10 DEF Tree
  <2>2. QED
    BY <2>1, <1>5, <1>6, <1>10
<1>12. /\ u \in Tree /\ u.children = [t.children EXCEPT ![p] = short]
       /\ u.parent = [t.parent EXCEPT ![i] = None] /\ u.row = [t3.row EXCEPT ![i] = -1]
       /\ u.name = t.name /\ u.counter = t.counter /\ u.mdl = t.mdl /\ u.hash = t1.hash
  BY <1>5, <1>10 DEF Tree
<1>13. /\ \A q \in List : u.children[q] = IF q = p THEN short ELSE t.children[q]
       /\ \A j \in Item : u.parent[j] = IF j = i THEN None ELSE t.parent[j]
       /\ \A j \in Item : u.row[j] = IF j = i THEN -1 ELSE t3.row[j]
  BY <1>1, <1>11, <1>12 DEF Tree
<1> HIDE DEF u
<1>14. ASSUME NEW q \in List, NEW k \in 1 .. Len(u.children[q])
       PROVE  u.parent[u.children[q][k]] = q /\ u.row[u.children[q][k]] = k - 1
  <2>1. CASE q # p
    <3>1. PICK j \in Item : j = t.children[q][k] /\ u.children[q][k] = j
      BY <2>1, <1>13 DEF Tree
    <3>2. t.parent[j] = q /\ t.row[j] = k - 1
      BY <2>1, <3>1, <1>13 DEF ListsAgree
    <3>3. \A m \in r + 1 .. Len(short) : short[m] # j
      BY <2>1, <3>2, <1>2, <1>8
    <3>4. j # i /\ t3.row[j] = t.row[j]
      BY <2>1, <3>2, <3>3, <1>1, <1>11
    <3>5. QED
      BY <3>1, <3>2, <3>4, <1>13
  <2>2. CASE q = p
    <3>1. k \in 1 .. Len(short) /\ u.children[q][k] = short[k]
      BY <2>2, <1>13
    <3>2. u.parent[short[k]] = p /\ u.row[short[k]] = t3.row[short[k]]
      BY <3>1, <1>8, <1>13
    <3>3. CASE k < r + 1
      <4>1. \A m \in r + 1 .. Len(short) : short[m] # short[k]
        <5>1. ASSUME NEW m \in r + 1 .. Len(short)
              PROVE  t.row[short[m]] = m /\ m # k - 1
          BY <3>3, <1>2, <1>8, <1>4, <3>1
        <5>2. t.row[short[k]] = k - 1
          BY <3>1, <3>3, <1>8
        <5>3. QED
          BY <5>1, <5>2
      <4>2. QED
        BY <2>2, <3>1, <3>2, <3>3, <4>1, <1>8, <1>11
    <3>4. CASE ~ (k < r + 1)
      <4>1. k \in r + 1 .. Len(short)
        BY <3>1, <3>4, <1>2, <1>4
      <4>2. QED
        BY <2>2, <3>1, <3>2, <4>1, <1>11
    <3>5. QED
      BY <3>3, <3>4
  <2>3. QED
    BY <2>1, <2>2
<1>15. ASSUME NEW j \in Item
       PROVE  IF u.parent[j] = None
              THEN u.row[j] = -1
              ELSE /\ u.row[j] + 1 \in 1 .. Len(u.children[u.parent[j]])
                   /\ u.children[u.parent[j]][u.row[j] + 1] = j
  <2>1. CASE j = i
    BY <2>1, <1>13
  <2>2. CASE j # i /\ t.parent[j] # p
    <3>1. \A m \in r + 1 .. Len(short) : short[m] # j
      BY <2>2, <1>2, <1>8
    <3>2. u.parent[j] = t.parent[j] /\ u.row[j] = t.row[j]
      BY <2>2, <3>1, <1>11, <1>13
    <3>3. CASE t.parent[j] = None
      BY <3>2, <3>3 DEF ListsAgree
    <3>4. CASE t.parent[j] # None
      <4>1. t.parent[j] \in List /\ u.children[t.parent[j]] = t.children[t.parent[j]]
        BY <2>2, <3>4, <1>13 DEF Tree
      <4>2. QED
        BY <3>2, <3>4, <4>1 DEF ListsAgree
    <3>5. QED
      BY <3>3, <3>4
  <2>3. CASE j # i /\ t.parent[j] = p
    <3>1. PICK m \in Nat : /\ m = t.row[j] /\ m # r
                           /\ m + 1 \in 1 .. Len(list) /\ list[m + 1] = j
      <4>1. t.row[j] + 1 \in 1 .. Len(list) /\ list[t.row[j] + 1] = j /\ t.row[j] \in Nat \cup {-1}
        BY <2>3, <1>1 DEF ListsAgree, Tree
      <4>2. t.row[j] # r
        BY <4>1, <2>3, <1>2
      <4>3. t.row[j] \in Nat
        BY <4>1
      <4>4. QED
        BY ONLY <4>1, <4>2, <4>3
    <3>2. u.parent[j] = p /\ u.row[j] = t3.row[j] /\ u.children[p] = short
      BY <2>3, <1>1, <1>13
    <3>3. CASE m < r
      <4>1. \A k \in r + 1 .. Len(short) : short[k] # j
        <5>1. ASSUME NEW k \in r + 1 .. Len(short)
              PROVE  t.row[short[k]] = k /\ k # m
          BY <3>3, <1>2, <1>4, <1>8
        <5>2. QED
          BY <5>1, <3>1
      <4>2. t3.row[j] = m
        BY <3>1, <4>1, <1>11
      <4>3. m + 1 \in 1 .. Len(short) /\ short[m + 1] = j
        <5>0. Len(list) \in Nat
          BY <1>1
        <5>1. m \in 0 .. Len(list) - 1 /\ m < Len(list) - 1
          BY <5>0, <3>1, <3>3, <1>2
        <5>2. m + 1 \in 1 .. Len(list) - 1 /\ m + 1 < r + 1
          BY <5>0, <5>1, <3>3, <1>2
        <5>3. QED
          BY <5>2, <3>1, <1>4
      <4>4. QED
        BY <3>2, <4>2, <4>3, <1>1
    <3>4. CASE m > r
      <4>1. m \in r + 1 .. Len(short) /\ m \in 1 .. Len(short) /\ short[m] = j
        <5>0. Len(list) \in Nat
          BY <1>1
        <5>1. m \in 1 .. Len(list) - 1 /\ ~ (m < r + 1)
          BY <5>0, <3>1, <3>4, <1>2
        <5>2. m \in r + 1 .. Len(list) - 1
          BY <5>0, <5>1, <1>2
        <5>3. QED
          BY <5>1, <5>2, <3>1, <1>4
      <4>2. t3.row[j] = m - 1
        BY <4>1, <1>11
      <4>3. QED
        BY <3>2, <4>1, <4>2, <1>1
    <3>5. QED
      BY <3>1, <3>3, <3>4, <1>2
  <2>4. QED
    BY <2>1, <2>2, <2>3
<1>16. ListsAgree(u)
  BY <1>14, <1>15 DEF ListsAgree
<1>17. \A q \in List : Len(u.children[q]) =
         IF q = t.parent[i] THEN Len(t.children[q]) - 1 ELSE Len(t.children[q])
  BY <1>1, <1>4, <1>13
<1>18. QED
  BY <1>0, <1>1, <1>3, <1>12, <1>16, <1>17

(* So does inserting one, at any row of the list or at its end.            *)
LEMMA InsertChildFacts ==
  ASSUME NEW t \in Tree, ListsAgree(t), NEW i \in Item, t.parent[i] = None,
         NEW p \in List, NEW r \in 0 .. Len(t.children[p])
  PROVE  LET u == InsertChild(t, p, i, r)
         IN  /\ u \in Tree
             /\ ListsAgree(u)
             /\ u.parent = [t.parent EXCEPT ![i] = p]
             /\ u.hash = t.hash /\ u.name = t.name /\ u.counter = t.counter /\ u.mdl = t.mdl
             /\ \A q \in List : Len(u.children[q]) =
                  IF q = p THEN Len(t.children[q]) + 1 ELSE Len(t.children[q])
<1>g. \A s \in Seq(Item) : \A k \in 1 .. Len(s) + 1 :
        /\ InsertAt(s, k, i) \in Seq(Item)
        /\ Len(InsertAt(s, k, i)) = Len(s) + 1
        /\ \A j \in 1 .. Len(s) + 1 : InsertAt(s, k, i)[j] =
             IF j < k THEN s[j] ELSE IF j = k THEN i ELSE s[j - 1]
  <2>1. ASSUME NEW s \in Seq(Item), NEW k \in 1 .. Len(s) + 1
        PROVE  /\ InsertAt(s, k, i) \in Seq(Item)
               /\ Len(InsertAt(s, k, i)) = Len(s) + 1
               /\ \A j \in 1 .. Len(s) + 1 : InsertAt(s, k, i)[j] =
                    IF j < k THEN s[j] ELSE IF j = k THEN i ELSE s[j - 1]
    BY InsertAtFacts
  <2>2. QED
    BY <2>1
<1>f. Len(t.children[p]) \in Nat
  BY DEF Tree
<1> PICK f \in 1 .. Len(t.children[p]) + 1 : f = r + 1
  BY <1>f
<1> DEFINE list == t.children[p]
           long == InsertAt(list, f, i)
           t1 == [t EXCEPT !.children[p] = InsertAt(@, f, i), !.parent[i] = p, !.row[i] = r]
           u == ChangeIndexes(t1, p, f)
<1>0. u = InsertChild(t, p, i, r)
  BY DEF InsertChild
<1>1. /\ list \in Seq(Item) /\ Len(list) \in Nat /\ p # None /\ r \in Nat
      /\ f \in 1 .. Len(list) + 1 /\ f = r + 1 /\ f \in Nat /\ list = t.children[p]
  BY TreeAssumption DEF Tree
<1>2. /\ long \in Seq(Item) /\ Len(long) = Len(list) + 1
      /\ \A k \in 1 .. Len(list) + 1 :
           long[k] = IF k < f THEN list[k] ELSE IF k = f THEN i ELSE list[k - 1]
      /\ long = InsertAt(list, f, i)
  <2>1. list \in Seq(Item) /\ f \in 1 .. Len(list) + 1
    BY <1>1
  <2> HIDE DEF list
  <2>2. QED
    BY ONLY <2>1, <1>g DEF long
<1> HIDE DEF list, long
<1>3. /\ t1 \in Tree /\ t1.children = [t.children EXCEPT ![p] = long]
      /\ t1.parent = [t.parent EXCEPT ![i] = p] /\ t1.row = [t.row EXCEPT ![i] = r]
      /\ t1.name = t.name /\ t1.counter = t.counter /\ t1.mdl = t.mdl /\ t1.hash = t.hash
  BY <1>1, <1>2 DEF Tree
<1> HIDE DEF t1
<1>4. t1.children[p] = long
  BY <1>3 DEF Tree
<1>5. \A k \in 1 .. Len(list) : /\ list[k] \in Item /\ list[k] # i
                                /\ t.parent[list[k]] = p /\ t.row[list[k]] = k - 1
  BY <1>1 DEF ListsAgree
<1>6. \A k \in 1 .. Len(long) :
        /\ long[k] \in Item
        /\ k < f => long[k] # i /\ t.parent[long[k]] = p /\ t.row[long[k]] = k - 1
        /\ k > f => long[k] # i /\ t.parent[long[k]] = p /\ t.row[long[k]] = k - 2
        /\ k = f => long[k] = i
  <2> TAKE k \in 1 .. Len(long)
  <2>1. k < f => /\ long[k] \in Item /\ long[k] # i
                 /\ t.parent[long[k]] = p /\ t.row[long[k]] = k - 1
    <3>1. k < f => k \in 1 .. Len(list) /\ long[k] = list[k]
      BY <1>1, <1>2
    <3>2. QED
      BY <3>1, <1>5
  <2>2. k > f => /\ long[k] \in Item /\ long[k] # i
                 /\ t.parent[long[k]] = p /\ t.row[long[k]] = k - 2
    <3>1. k > f => k - 1 \in 1 .. Len(list) /\ long[k] = list[k - 1] /\ (k - 1) - 1 = k - 2
      BY <1>1, <1>2
    <3>2. k > f => /\ list[k - 1] \in Item /\ list[k - 1] # i
                   /\ t.parent[list[k - 1]] = p /\ t.row[list[k - 1]] = (k - 1) - 1
      BY <3>1, <1>5
    <3>3. QED
      BY <3>1, <3>2
  <2>3. k = f => long[k] = i /\ i \in Item
    BY <1>1, <1>2
  <2>4. k < f \/ k > f \/ k = f
    BY <1>1, <1>2
  <2>5. QED
    BY <2>1, <2>2, <2>3, <2>4
<1>7. NoRepeats(t1, p, f)
  <2>1. ASSUME NEW k \in f + 1 .. Len(long), NEW m \in f + 1 .. Len(long), long[k] = long[m]
        PROVE  k = m
    <3>1. k \in 1 .. Len(long) /\ m \in 1 .. Len(long) /\ k > f /\ m > f
      BY <1>1, <1>2
    <3>2. QED
      BY <2>1, <3>1, <1>6
  <2>2. QED
    BY <2>1, <1>4 DEF NoRepeats
<1>8. p \in List /\ f \in Nat
  BY <1>1
<1>9. /\ u \in Tree /\ u.children = t1.children
      /\ u.hash = t1.hash /\ u.counter = t1.counter /\ u.name = t1.name
      /\ u.parent = t1.parent /\ u.mdl = t1.mdl
      /\ \A k \in f + 1 .. Len(t1.children[p]) : u.row[t1.children[p][k]] = k - 1
      /\ \A j \in Item : (\A k \in f + 1 .. Len(t1.children[p]) : t1.children[p][k] # j)
                         => u.row[j] = t1.row[j]
  <2>1. t1 \in Tree
    BY <1>3
  <2>2. QED
    BY ONLY <2>1, <1>7, <1>8, ChangeIndexesFacts
<1> HIDE DEF u
<1>10. /\ \A k \in f + 1 .. Len(long) : u.row[long[k]] = k - 1
       /\ \A j \in Item : (\A k \in f + 1 .. Len(long) : long[k] # j) => u.row[j] = t1.row[j]
  BY <1>4, <1>9
<1>11. /\ \A q \in List : u.children[q] = IF q = p THEN long ELSE t.children[q]
       /\ \A j \in Item : u.parent[j] = IF j = i THEN p ELSE t.parent[j]
       /\ \A j \in Item : t1.row[j] = IF j = i THEN r ELSE t.row[j]
  BY <1>3, <1>9 DEF Tree
<1>12. \A k \in 1 .. Len(long) : u.parent[long[k]] = p /\ u.row[long[k]] = k - 1
  <2> TAKE k \in 1 .. Len(long)
  <2>1. u.parent[long[k]] = p
    BY <1>1, <1>6, <1>11
  <2>2. CASE k > f
    <3>1. k \in f + 1 .. Len(long)
      BY <2>2, <1>1, <1>2
    <3>2. QED
      BY <2>1, <3>1, <1>10
  <2>3. CASE ~ (k > f)
    <3>1. t1.row[long[k]] = k - 1 /\ long[k] \in Item
      <4>1. CASE k = f
        <5>1. long[k] = i
          BY <4>1, <1>6
        <5>2. t1.row[i] = r /\ r = k - 1
          BY <4>1, <1>1, <1>11
        <5>3. QED
          BY <5>1, <5>2
      <4>2. CASE k < f
        <5>1. long[k] \in Item /\ long[k] # i /\ t.row[long[k]] = k - 1
          BY <4>2, <1>6
        <5>2. QED
          BY <5>1, <1>11
      <4>3. k < f \/ k = f
        BY <2>3, <1>1, <1>2
      <4>4. QED
        BY <4>1, <4>2, <4>3
    <3>2. ASSUME NEW m \in f + 1 .. Len(long)
          PROVE  long[m] # long[k]
      <4>1. m \in 1 .. Len(long) /\ m > f /\ (m - 2 # k - 1 \/ k = f)
        BY <2>3, <1>1, <1>2
      <4>2. t.row[long[m]] = m - 2 /\ long[m] # i
        BY <4>1, <1>6
      <4>3. QED
        BY <2>3, <4>1, <4>2, <1>1, <1>6
    <3>3. QED
      BY <2>1, <3>1, <3>2, <1>10
  <2>4. QED
    BY <2>2, <2>3
<1>13. ASSUME NEW q \in List, NEW k \in 1 .. Len(u.children[q])
       PROVE  u.parent[u.children[q][k]] = q /\ u.row[u.children[q][k]] = k - 1
  <2>1. CASE q # p
    <3>1. PICK j \in Item : j = t.children[q][k] /\ u.children[q][k] = j
      BY <2>1, <1>11 DEF Tree
    <3>2. t.parent[j] = q /\ t.row[j] = k - 1 /\ j # i
      BY <2>1, <3>1, <1>11, TreeAssumption DEF ListsAgree
    <3>3. \A m \in f + 1 .. Len(long) : long[m] # j
      <4>1. ASSUME NEW m \in f + 1 .. Len(long)
            PROVE  t.parent[long[m]] = p
        BY <1>1, <1>2, <1>6
      <4>2. QED
        BY <2>1, <3>2, <4>1
    <3>4. QED
      BY <3>1, <3>2, <3>3, <1>10, <1>11
  <2>2. CASE q = p
    BY <2>2, <1>11, <1>12
  <2>3. QED
    BY <2>1, <2>2
<1>14. ASSUME NEW j \in Item
       PROVE  IF u.parent[j] = None
              THEN u.row[j] = -1
              ELSE /\ u.row[j] + 1 \in 1 .. Len(u.children[u.parent[j]])
                   /\ u.children[u.parent[j]][u.row[j] + 1] = j
  <2>1. CASE \E k \in 1 .. Len(long) : long[k] = j
    <3>1. PICK k \in 1 .. Len(long) : long[k] = j
      BY <2>1
    <3>2. u.parent[j] = p /\ u.row[j] = k - 1 /\ k - 1 + 1 = k
      BY <3>1, <1>12
    <3>3. QED
      BY <3>1, <3>2, <1>1, <1>11
  <2>2. CASE \A k \in 1 .. Len(long) : long[k] # j
    <3>1. j # i
      BY <2>2, <1>1, <1>2, <1>6
    <3>2. u.parent[j] = t.parent[j] /\ u.row[j] = t.row[j]
      <4>1. \A k \in f + 1 .. Len(long) : long[k] # j
        BY <2>2, <1>1, <1>2
      <4>2. QED
        BY <3>1, <4>1, <1>10, <1>11
    <3>3. t.parent[j] # p
      <4>1. ASSUME t.parent[j] = p
            PROVE  FALSE
        <5>1. PICK k \in 1 .. Len(list) : list[k] = j
          BY <4>1, <1>1 DEF ListsAgree
        <5>2. CASE k < f
          <6>1. k \in 1 .. Len(list) + 1 /\ long[k] = list[k]
            BY <5>2, <1>1, <1>2
          <6>2. QED
            BY <6>1, <5>1, <2>2, <1>2
        <5>3. CASE ~ (k < f)
          <6>1. k + 1 \in 1 .. Len(list) + 1 /\ long[k + 1] = list[k]
            BY <5>3, <1>1, <1>2
          <6>2. QED
            BY <6>1, <5>1, <2>2, <1>2
        <5>4. QED
          BY <5>2, <5>3
      <4>2. QED
        BY <4>1
    <3>4. CASE t.parent[j] = None
      BY <3>2, <3>4 DEF ListsAgree
    <3>5. CASE t.parent[j] # None
      <4>1. t.parent[j] \in List /\ u.children[t.parent[j]] = t.children[t.parent[j]]
        BY <3>3, <3>5, <1>11 DEF Tree
      <4>2. QED
        BY <3>2, <3>5, <4>1 DEF ListsAgree
    <3>6. QED
      BY <3>4, <3>5
  <2>3. QED
    BY <2>1, <2>2
<1>15. ListsAgree(u)
  BY <1>13, <1>14 DEF ListsAgree
<1>16. \A q \in List : Len(u.children[q]) =
         IF q = p THEN Len(t.children[q]) + 1 ELSE Len(t.children[q])
  BY <1>1, <1>2, <1>11
<1>17. QED
  BY <1>0, <1>3, <1>9, <1>15, <1>16

-----------------------------------------------------------------------------
(* Names.                                                                  *)

(* The index of every list is right about all items but i.                 *)
NamedBut(t, i) ==
  \A p \in List : \A n \in Name : \A j \in Item :
    t.hash[p][n] = j <=> t.parent[j] = p /\ t.name[j] = n /\ j # i

LEMMA OutsideIsNamedBut ==
  ASSUME NEW t, NamesAgree(t), NEW i, t.parent[i] = None
  PROVE  NamedBut(t, i)
<1>1. None \notin List
  BY TreeAssumption
<1>2. QED
  BY <1>1 DEF NamesAgree, NamedBut

LEMMA OutsideNamesAgree ==
  ASSUME NEW t, NEW i, NamedBut(t, i), t.parent[i] = None
  PROVE  NamesAgree(t)
<1>1. None \notin List
  BY TreeAssumption
<1>2. QED
  BY <1>1 DEF NamesAgree, NamedBut

(* Taking the name of an item out of the index of its list.                *)
LEMMA RemoveNameNamedBut ==
  ASSUME NEW t \in Tree, NamesAgree(t), NEW i \in Item, t.parent[i] # None
  PROVE  NamedBut([t EXCEPT !.hash = RemoveName(t, t.parent[i], t.name[i]).hash], i)
<1> DEFINE p == t.parent[i]
           n == t.name[i]
           h == RemoveName(t, p, n).hash
           u == [t EXCEPT !.hash = h]
<1>1. p \in List /\ n \in Raw /\ None \notin Item
  BY TreeAssumption DEF Tree
<1>2. \A q \in List, m \in Name :
        h[q][m] = IF q = p /\ m = n THEN None ELSE t.hash[q][m]
  BY <1>1, RemoveNameFacts
<1>3. u.hash = h /\ u.parent = t.parent /\ u.name = t.name
  BY DEF Tree
<1> HIDE DEF u, h
<1>4. ASSUME NEW q \in List, NEW m \in Name, NEW j \in Item
      PROVE  h[q][m] = j <=> t.parent[j] = q /\ t.name[j] = m /\ j # i
  <2>1. t.hash[q][m] = j <=> t.parent[j] = q /\ t.name[j] = m
    BY DEF NamesAgree
  <2>2. CASE q = p /\ m = n
    <3>1. h[q][m] # j
      BY <2>2, <1>1, <1>2
    <3>2. t.hash[p][n] = i
      BY <2>2, <1>1 DEF NamesAgree
    <3>3. QED
      BY <2>1, <2>2, <3>1, <3>2
  <2>3. CASE ~ (q = p /\ m = n)
    <3>1. h[q][m] = t.hash[q][m]
      BY <2>3, <1>2
    <3>2. QED
      BY <2>1, <2>3, <3>1
  <2>4. QED
    BY <2>2, <2>3
<1>5. NamedBut(u, i)
  BY <1>3, <1>4 DEF NamedBut
<1>6. QED
  BY <1>5 DEF u, h

(* insert_name gives the item a name no other child of the list has.       *)
LEMMA InsertNameFacts ==
  ASSUME NEW t \in Tree, NEW p \in List, NEW i \in Item, NEW n \in Name,
         t.parent[i] = p, t.hash[p][n] = None, NamedBut(t, i)
  PROVE  LET u == InsertName(t, p, i, n)
         IN  /\ u \in Tree
             /\ NamesAgree(u)
             /\ u.children = t.children /\ u.parent = t.parent
             /\ u.row = t.row /\ u.mdl = t.mdl /\ u.pidx = t.pidx
<1> DEFINE h == [t.hash EXCEPT ![p] = [@ EXCEPT ![n] = i]]
           nm == [t.name EXCEPT ![i] = n]
           ct == [t.counter EXCEPT ![p] = IF n = Clean(t.name[i]) THEN @ ELSE n[2] + 1]
           u == InsertName(t, p, i, n)
<1>1. u = [t EXCEPT !.hash = h, !.name = nm, !.counter = ct]
  BY DEF InsertName, Tree
<1>2. h \in [List -> [Name -> Item \cup {None}]] /\ nm \in [Item -> Raw]
  BY DEF Tree, Raw
<1>3. ct \in [List -> 1 .. MaxId + 1]
  <2>1. n[2] \in 0 .. MaxId /\ MaxId \in Nat
    BY TreeAssumption DEF Name
  <2>2. n[2] + 1 \in 1 .. MaxId + 1
    BY <2>1
  <2>3. QED
    BY <2>2 DEF Tree
<1>4. /\ u.hash = h /\ u.name = nm
      /\ u.children = t.children /\ u.parent = t.parent
      /\ u.row = t.row /\ u.mdl = t.mdl /\ u.pidx = t.pidx
  BY <1>1 DEF Tree
<1>5. u \in Tree
  BY <1>1, <1>2, <1>3 DEF Tree
<1>6. /\ \A q \in List, m \in Name :
           h[q][m] = IF q = p /\ m = n THEN i ELSE t.hash[q][m]
      /\ \A j \in Item : nm[j] = IF j = i THEN n ELSE t.name[j]
  BY DEF Tree
<1> HIDE DEF h, nm, ct, u
<1>7. ASSUME NEW q \in List, NEW m \in Name, NEW j \in Item
      PROVE  h[q][m] = j <=> t.parent[j] = q /\ nm[j] = m
  <2>1. t.hash[q][m] = j <=> t.parent[j] = q /\ t.name[j] = m /\ j # i
    BY DEF NamedBut
  <2>2. CASE q = p /\ m = n
    <3>1. t.hash[q][m] # j
      BY <2>2, TreeAssumption
    <3>2. QED
      BY <2>1, <2>2, <3>1, <1>6
  <2>3. CASE ~ (q = p /\ m = n)
    BY <2>1, <2>3, <1>6
  <2>4. QED
    BY <2>2, <2>3
<1>8. NamesAgree(u)
  BY <1>4, <1>7 DEF NamesAgree
<1>9. QED
  BY <1>4, <1>5, <1>8 DEF u

(* The name insert_name chooses is not in the index.                       *)
LEMMA ChosenNameIsFree ==
  ASSUME NEW t, NEW p, NEW i, NEW n, ChosenName(t, p, i, n)
  PROVE  t.hash[p][n] = None
BY DEF ChosenName

-----------------------------------------------------------------------------
(* The operations.  Whole trees satisfy all of what they preserve.         *)
Whole(t) == t \in Tree /\ ListsAgree(t) /\ NamesAgree(t) /\ ChildNamesLegal(t)

(* set_model changes neither the lists nor the names.                      *)
LEMMA SetModelFacts ==
  ASSUME NEW t \in Tree, NEW i \in Item, NEW m \in Model \cup {None}
  PROVE  LET u == SetModel(t, i, m)
         IN  /\ u \in Tree
             /\ u.children = t.children /\ u.hash = t.hash /\ u.counter = t.counter
             /\ u.name = t.name /\ u.parent = t.parent /\ u.row = t.row
<1> DEFINE visited == SetModelVisits(t, i, m)
           md == [j \in Item |-> IF j \in visited THEN m ELSE t.mdl[j]]
           px == {e \in t.pidx : ~ (/\ e.item \in visited
                                    /\ t.mdl[e.item] # m
                                    /\ IsIndexOf(t, e, e.item))}
           u == SetModel(t, i, m)
<1>1. u = [t EXCEPT !.mdl = md, !.pidx = px]
  BY DEF SetModel, Tree
<1>2. md \in [Item -> Model \cup {None}]
  BY DEF Tree
<1>3. px \in SUBSET PersistentIndex
  BY DEF Tree
<1> HIDE DEF md, px, u
<1>4. QED
  BY <1>1, <1>2, <1>3 DEF Tree, u

LEMMA SameLinks ==
  ASSUME NEW t, NEW u, Whole(t), u \in Tree,
         u.children = t.children, u.hash = t.hash,
         u.name = t.name, u.parent = t.parent, u.row = t.row
  PROVE  Whole(u)
BY DEF Whole, ListsAgree, NamesAgree, ChildNamesLegal

LEMMA SetModelWhole ==
  ASSUME NEW t, Whole(t), NEW i \in Item, NEW m \in Model \cup {None}
  PROVE  LET u == SetModel(t, i, m)
         IN  Whole(u) /\ u.children = t.children /\ u.parent = t.parent /\ u.name = t.name
<1>1. t \in Tree
  BY DEF Whole
<1>2. QED
  BY <1>1, SetModelFacts, SameLinks

LEMMA RemoveChildWhole ==
  ASSUME NEW t, Whole(t), NEW i \in Item, t.parent[i] # None
  PROVE  LET u == RemoveChild(t, i)
         IN  /\ Whole(u)
             /\ u.parent = [t.parent EXCEPT ![i] = None]
             /\ \A q \in List : Len(u.children[q]) =
                  IF q = t.parent[i] THEN Len(t.children[q]) - 1 ELSE Len(t.children[q])
<1> DEFINE u == RemoveChild(t, i)
           h == RemoveName(t, t.parent[i], t.name[i]).hash
<1>1. t \in Tree /\ ListsAgree(t) /\ NamesAgree(t) /\ ChildNamesLegal(t)
  BY DEF Whole
<1>2. /\ u \in Tree
      /\ ListsAgree(u)
      /\ u.parent = [t.parent EXCEPT ![i] = None]
      /\ u.hash = h /\ u.name = t.name
      /\ \A q \in List : Len(u.children[q]) =
           IF q = t.parent[i] THEN Len(t.children[q]) - 1 ELSE Len(t.children[q])
  BY <1>1, RemoveChildFacts
<1>3. NamedBut([t EXCEPT !.hash = h], i)
  BY <1>1, RemoveNameNamedBut
<1> HIDE DEF u, h
<1>4. \A p \in List : \A n \in Name : \A j \in Item :
        h[p][n] = j <=> t.parent[j] = p /\ t.name[j] = n /\ j # i
  BY <1>1, <1>3 DEF NamedBut, Tree
<1>5. /\ \A j \in Item : u.parent[j] = IF j = i THEN None ELSE t.parent[j]
      /\ None \notin List
  BY <1>1, <1>2, TreeAssumption DEF Tree
<1>6. NamesAgree(u)
  BY <1>2, <1>4, <1>5 DEF NamesAgree
<1>7. ChildNamesLegal(u)
  BY <1>1, <1>2, <1>5 DEF ChildNamesLegal
<1>8. QED
  BY <1>2, <1>6, <1>7 DEF Whole, u

LEMMA RemoveItemWhole ==
  ASSUME NEW t, Whole(t), NEW i \in Item, t.parent[i] # None
  PROVE  LET u == RemoveItem(t, i)
         IN  Whole(u) /\ u.parent = [t.parent EXCEPT ![i] = None]
<1> DEFINE s == SetModel(t, i, None)
<1>2. Whole(s) /\ s.parent = t.parent
  BY SetModelWhole
<1> HIDE DEF s
<1>3. Whole(RemoveChild(s, i)) /\ RemoveChild(s, i).parent = [s.parent EXCEPT ![i] = None]
  BY <1>2, RemoveChildWhole
<1>4. QED
  BY <1>2, <1>3 DEF RemoveItem, s

LEMMA DetachWhole ==
  ASSUME NEW t, Whole(t), NEW i \in Item
  PROVE  LET u == Detach(t, i)
         IN  Whole(u) /\ u.parent = [t.parent EXCEPT ![i] = None]
<1>1. CASE t.parent[i] = None
  <2>1. t.parent = [t.parent EXCEPT ![i] = None]
    BY <1>1 DEF Whole, Tree
  <2>2. QED
    BY <1>1, <2>1 DEF Detach
<1>2. CASE t.parent[i] # None
  BY <1>2, RemoveItemWhole DEF Detach
<1>3. QED
  BY <1>1, <1>2

(* An item outside of all lists can be put in one and then named.          *)
LEMMA InsertChildNamed ==
  ASSUME NEW t, Whole(t), NEW i \in Item, t.parent[i] = None,
         NEW p \in List, NEW r \in 0 .. Len(t.children[p])
  PROVE  LET u == InsertChild(t, p, i, r)
         IN  /\ u \in Tree /\ ListsAgree(u) /\ NamedBut(u, i)
             /\ u.parent = [t.parent EXCEPT ![i] = p] /\ u.name = t.name
             /\ \A q \in List : Len(u.children[q]) =
                  IF q = p THEN Len(t.children[q]) + 1 ELSE Len(t.children[q])
<1> DEFINE u == InsertChild(t, p, i, r)
<1>1. t \in Tree /\ ListsAgree(t) /\ NamedBut(t, i)
  BY OutsideIsNamedBut DEF Whole
<1>2. /\ u \in Tree /\ ListsAgree(u)
      /\ u.parent = [t.parent EXCEPT ![i] = p]
      /\ u.hash = t.hash /\ u.name = t.name
      /\ \A q \in List : Len(u.children[q]) =
           IF q = p THEN Len(t.children[q]) + 1 ELSE Len(t.children[q])
  BY <1>1, InsertChildFacts
<1> HIDE DEF u
<1>3. \A j \in Item : j # i => u.parent[j] = t.parent[j]
  BY <1>1, <1>2 DEF Tree
<1>4. NamedBut(u, i)
  BY <1>1, <1>2, <1>3 DEF NamedBut
<1>5. QED
  BY <1>2, <1>4 DEF u

LEMMA NamedWhole ==
  ASSUME NEW t \in Tree, ListsAgree(t), NEW i \in Item, NamedBut(t, i),
         \A j \in Item : j # i /\ t.parent[j] # None => t.name[j] \in Name,
         NEW p \in List, t.parent[i] = p,
         NEW n \in Name, ChosenName(t, p, i, n)
  PROVE  LET u == InsertName(t, p, i, n)
         IN  Whole(u) /\ u.parent = t.parent /\ u.children = t.children
<1> DEFINE u == InsertName(t, p, i, n)
<1>1. t.hash[p][n] = None
  BY ChosenNameIsFree
<1>2. /\ u \in Tree
      /\ NamesAgree(u)
      /\ u.children = t.children /\ u.parent = t.parent /\ u.row = t.row
  BY <1>1, InsertNameFacts
<1>3. \A j \in Item : u.name[j] = IF j = i THEN n ELSE t.name[j]
  BY DEF InsertName, Tree
<1> HIDE DEF u
<1>4. ListsAgree(u) /\ ChildNamesLegal(u)
  BY <1>2, <1>3 DEF ListsAgree, ChildNamesLegal
<1>5. QED
  BY <1>2, <1>4 DEF Whole, u

(* insert keeps a tree whole and gives the item the parent asked for.      *)
LEMMA InsertedWhole ==
  ASSUME NEW t, Whole(t), NEW i \in Item, NEW p \in List, NEW pos \in Int,
         NEW u, Inserted(t, p, i, pos, u)
  PROVE  Whole(u) /\ u.parent = [t.parent EXCEPT ![i] = p]
<1> DEFINE t1 == Detach(t, i)
           t2 == SetModel(t1, i, t1.mdl[p])
           k  == Len(t2.children[p])
           r  == IF pos < 0 \/ pos > k THEN k ELSE pos
           t3 == InsertChild(t2, p, i, r)
<1>1. Whole(t1) /\ t1.parent = [t.parent EXCEPT ![i] = None]
  BY DetachWhole
<1>2. t1 \in Tree /\ p \in Item
  BY <1>1, TreeAssumption DEF Whole
<1> HIDE DEF t1
<1>3. t1.mdl[p] \in Model \cup {None}
  BY <1>2 DEF Tree
<1>4. Whole(t2) /\ t2.parent = t1.parent
  BY <1>1, <1>3, SetModelWhole
<1>5. t2 \in Tree
  BY <1>4 DEF Whole
<1> HIDE DEF t2
<1>6. k \in Nat
  BY <1>5 DEF Tree
<1>7. r \in 0 .. k
  BY <1>6
<1>8. t.parent \in [Item -> List \cup {None}]
  BY DEF Whole, Tree
<1>9. t2.parent[i] = None
  BY <1>1, <1>4, <1>8
<1> HIDE DEF r
<1>10. /\ t3 \in Tree /\ ListsAgree(t3) /\ NamedBut(t3, i)
       /\ t3.parent = [t2.parent EXCEPT ![i] = p] /\ t3.name = t2.name
  BY <1>4, <1>7, <1>9, InsertChildNamed
<1>11. PICK n \in Name : ChosenName(t3, p, i, n) /\ u = InsertName(t3, p, i, n)
  BY DEF Inserted, Place, t1, t2, r
<1> HIDE DEF t3
<1>12. t3.parent = [t.parent EXCEPT ![i] = p]
  BY <1>1, <1>4, <1>8, <1>10
<1>13. \A j \in Item : j # i /\ t3.parent[j] # None => t3.name[j] \in Name
  <2>1. ASSUME NEW j \in Item, j # i, t3.parent[j] # None
        PROVE  t3.name[j] \in Name
    <3>1. t2.parent[j] # None
      BY <2>1, <1>1, <1>4, <1>8, <1>12
    <3>2. QED
      BY <3>1, <1>4, <1>10 DEF Whole, ChildNamesLegal
  <2>2. QED
    BY <2>1
<1>14. t3.parent[i] = p
  BY <1>8, <1>12
<1>15. LET w == InsertName(t3, p, i, n)
       IN  Whole(w) /\ w.parent = t3.parent /\ w.children = t3.children
  <2>1. t3 \in Tree /\ ListsAgree(t3) /\ NamedBut(t3, i) /\ ChosenName(t3, p, i, n)
    BY <1>10, <1>11
  <2>2. QED
    BY ONLY <2>1, <1>13, <1>14, NamedWhole, i \in Item, p \in List, n \in Name
<1>16. QED
  BY <1>11, <1>12, <1>15

(* So does set_name, which moves nothing.                                  *)
LEMMA RenamedWhole ==
  ASSUME NEW t, Whole(t), NEW i \in Item, NEW raw \in Raw, NEW u, Renamed(t, i, raw, u)
  PROVE  Whole(u) /\ u.parent = t.parent
<1> DEFINE p == t.parent[i]
<1>1. t \in Tree /\ ListsAgree(t) /\ NamesAgree(t) /\ ChildNamesLegal(t)
  BY DEF Whole
<1>2. CASE p = None
  <2>1. u = [t EXCEPT !.name[i] = raw]
    BY <1>2 DEF Renamed, WithName
  <2>2. /\ u \in Tree /\ u.parent = t.parent /\ u.children = t.children /\ u.row = t.row
        /\ u.hash = t.hash
        /\ \A j \in Item : u.name[j] = IF j = i THEN raw ELSE t.name[j]
    BY <1>1, <2>1 DEF Tree
  <2>3. None \notin List
    BY TreeAssumption
  <2>4. NamesAgree(u)
    BY <1>1, <1>2, <2>2, <2>3 DEF NamesAgree
  <2>5. ListsAgree(u) /\ ChildNamesLegal(u)
    BY <1>1, <1>2, <2>2 DEF ListsAgree, ChildNamesLegal
  <2>6. QED
    BY <2>2, <2>4, <2>5 DEF Whole
<1>3. CASE p # None
  <2> DEFINE h == RemoveName(t, p, t.name[i]).hash
             t1 == RemoveName(t, p, t.name[i])
             t2 == WithName(t1, i, raw)
  <2>1. p \in List /\ t.name[i] \in Raw
    BY <1>1, <1>3 DEF Tree
  <2>2. t1 \in Tree /\ t1 = [t EXCEPT !.hash = h]
    BY <1>1, <2>1, RemoveNameFacts
  <2>3. NamedBut(t1, i)
    BY <1>1, <1>3, <2>2, RemoveNameNamedBut
  <2>4. PICK n \in Name : ChosenName(t2, p, i, n) /\ u = InsertName(t2, p, i, n)
    BY <1>3 DEF Renamed
  <2> HIDE DEF t1, h
  <2>5. /\ t1.parent = t.parent /\ t1.children = t.children /\ t1.row = t.row
        /\ t1.name = t.name
    BY <1>1, <2>2 DEF Tree
  <2>6. /\ t2 \in Tree /\ t2.parent = t1.parent /\ t2.children = t1.children
        /\ t2.row = t1.row /\ t2.hash = t1.hash
        /\ \A j \in Item : j # i => t2.name[j] = t1.name[j]
    BY <2>2 DEF Tree, WithName
  <2> HIDE DEF t2
  <2>7. NamedBut(t2, i)
    BY <2>3, <2>6 DEF NamedBut
  <2>8. ListsAgree(t2)
    BY <1>1, <2>5, <2>6 DEF ListsAgree
  <2>9. \A j \in Item : j # i /\ t2.parent[j] # None => t2.name[j] \in Name
    BY <1>1, <2>5, <2>6 DEF ChildNamesLegal
  <2>10. t2.parent[i] = p
    BY <2>5, <2>6
  <2>11. QED
    BY <2>1, <2>4, <2>5, <2>6, <2>7, <2>8, <2>9, <2>10, NamedWhole
<1>4. QED
  BY <1>2, <1>3

(* The loop body of dropMimeData: from one list to another with the        *)
(* private functions.                                                      *)
LEMMA MovedWhole ==
  ASSUME NEW t, Whole(t), NEW i \in Item, t.parent[i] # None, NEW p \in List,
         NEW t1, t1 = RemoveChild(t, i),
         NEW r \in 0 .. Len(t1.children[p]),
         NEW t2, t2 = InsertChild(t1, p, i, r),
         NEW n \in Name, ChosenName(t2, p, i, n),
         NEW u, u = InsertName(t2, p, i, n)
  PROVE  Whole(u) /\ Len(u.children[p]) = Len(t1.children[p]) + 1
<1>1. Whole(t1) /\ t1.parent = [t.parent EXCEPT ![i] = None]
  BY RemoveChildWhole
<1>2. t.parent \in [Item -> List \cup {None}]
  BY DEF Whole, Tree
<1>3. t1.parent[i] = None
  BY <1>1, <1>2
<1>4. /\ t2 \in Tree /\ ListsAgree(t2) /\ NamedBut(t2, i)
      /\ t2.parent = [t1.parent EXCEPT ![i] = p] /\ t2.name = t1.name
      /\ Len(t2.children[p]) = Len(t1.children[p]) + 1
  BY <1>1, <1>3, InsertChildNamed
<1>5. t2.parent[i] = p
  BY <1>1, <1>2, <1>4
<1>6. \A j \in Item : j # i /\ t2.parent[j] # None => t2.name[j] \in Name
  BY <1>1, <1>2, <1>4 DEF Whole, ChildNamesLegal
<1>7. Whole(u) /\ u.children = t2.children
  <2>1. t2 \in Tree /\ ListsAgree(t2) /\ NamedBut(t2, i) /\ ChosenName(t2, p, i, n)
    BY <1>4
  <2>2. LET w == InsertName(t2, p, i, n)
        IN  Whole(w) /\ w.parent = t2.parent /\ w.children = t2.children
    BY ONLY <2>1, <1>5, <1>6, NamedWhole, i \in Item, p \in List, n \in Name, ZenonT(60)
  <2>3. QED
    BY <2>2
<1>8. QED
  BY <1>4, <1>7

-----------------------------------------------------------------------------
(* What is above an item.                                                  *)

LEMMA AboveClosed ==
  ASSUME NEW t, t.parent \in [Item -> List \cup {None}], NEW i \in Item
  PROVE  \A k \in Above(t, i) \cup {i} : t.parent[k] \in Above(t, i) \cup {None}
<1> SUFFICES ASSUME NEW k \in Above(t, i) \cup {i}, t.parent[k] # None
             PROVE  t.parent[k] \in Above(t, i)
  OBVIOUS
<1>1. k \in Item
  BY TreeAssumption DEF Above
<1>2. t.parent[k] \in List
  BY <1>1
<1>3. ASSUME NEW S \in SUBSET List, \A q \in S \cup {i} : t.parent[q] \in S \cup {None}
      PROVE  t.parent[k] \in S
  <2>1. k \in S \cup {i}
    BY <1>3 DEF Above
  <2>2. QED
    BY <1>3, <2>1
<1>4. QED
  BY <1>2, <1>3 DEF Above

LEMMA AboveLeast ==
  ASSUME NEW t, NEW i \in Item, NEW S \in SUBSET List,
         \A k \in S \cup {i} : t.parent[k] \in S \cup {None}
  PROVE  Above(t, i) \subseteq S
BY DEF Above

(* Below its parent an item has the path of its parent.                    *)
LEMMA PathOfChild ==
  ASSUME NEW t, t.parent \in [Item -> List \cup {None}],
         NEW i \in Item, t.parent[i] # None
  PROVE  Path(t, t.parent[i]) \subseteq Path(t, i)
<1> DEFINE p == t.parent[i]
<1>1. p \in List /\ p \in Item
  BY TreeAssumption
<1>2. \A k \in Above(t, i) \cup {i} : t.parent[k] \in Above(t, i) \cup {None}
  BY AboveClosed
<1>3. p \in Above(t, i)
  BY <1>2
<1> HIDE DEF p
<1>4. Above(t, i) \in SUBSET List
  BY DEF Above
<1>5. Above(t, p) \subseteq Above(t, i)
  BY <1>1, <1>2, <1>3, <1>4, AboveLeast
<1>6. QED
  BY <1>3, <1>5 DEF Path, p

(* Taking items out of their lists makes no path longer.                   *)
LEMMA PathShrinks ==
  ASSUME NEW t, t.parent \in [Item -> List \cup {None}],
         NEW u, \A k \in Item : u.parent[k] = t.parent[k] \/ u.parent[k] = None,
         NEW i \in Item
  PROVE  Path(u, i) \subseteq Path(t, i)
<1>1. \A k \in Above(t, i) \cup {i} : t.parent[k] \in Above(t, i) \cup {None}
  BY AboveClosed
<1>2. Above(t, i) \in SUBSET List /\ Above(t, i) \cup {i} \subseteq Item
  BY TreeAssumption DEF Above
<1>3. \A k \in Above(t, i) \cup {i} : u.parent[k] \in Above(t, i) \cup {None}
  BY <1>1, <1>2
<1>4. Above(u, i) \subseteq Above(t, i)
  BY <1>2, <1>3, AboveLeast
<1>5. QED
  BY <1>4 DEF Path

(* Moving what is not on the path of an item leaves its path alone.        *)
LEMMA PathStays ==
  ASSUME NEW t, t.parent \in [Item -> List \cup {None}],
         NEW u, u.parent \in [Item -> List \cup {None}],
         NEW i \in Item, \A k \in Path(t, i) : u.parent[k] = t.parent[k]
  PROVE  Path(u, i) = Path(t, i)
<1>1. /\ \A k \in Above(t, i) \cup {i} : t.parent[k] \in Above(t, i) \cup {None}
      /\ \A k \in Above(u, i) \cup {i} : u.parent[k] \in Above(u, i) \cup {None}
  BY AboveClosed
<1>2. Above(t, i) \in SUBSET List /\ Above(u, i) \in SUBSET List
  BY DEF Above
<1>3. \A k \in Above(t, i) \cup {i} : u.parent[k] \in Above(t, i) \cup {None}
  BY <1>1 DEF Path
<1>4. Above(u, i) \subseteq Above(t, i)
  BY <1>2, <1>3, AboveLeast
<1>5. \A k \in Above(u, i) \cup {i} : t.parent[k] \in Above(u, i) \cup {None}
  BY <1>1, <1>4 DEF Path
<1>6. Above(t, i) \subseteq Above(u, i)
  BY <1>2, <1>5, AboveLeast
<1>7. QED
  BY <1>4, <1>6 DEF Path

LEMMA AcyclicFewer ==
  ASSUME NEW t, t.parent \in [Item -> List \cup {None}], Acyclic(t),
         NEW u, \A k \in Item : u.parent[k] = t.parent[k] \/ u.parent[k] = None
  PROVE  Acyclic(u)
<1> SUFFICES ASSUME NEW S \in SUBSET List, S # {}
             PROVE  \E p \in S : u.parent[p] \notin S
  BY DEF Acyclic
<1>1. PICK p \in S : t.parent[p] \notin S
  BY DEF Acyclic
<1>2. p \in Item /\ None \notin S
  BY TreeAssumption
<1>3. QED
  BY <1>1, <1>2

(* An item may be put in a list that is not below it.                      *)
LEMMA AcyclicAfter ==
  ASSUME NEW t, t.parent \in [Item -> List \cup {None}], Acyclic(t),
         NEW i \in Item, NEW p \in List, i \notin Path(t, p),
         NEW u, u.parent = [t.parent EXCEPT ![i] = p]
  PROVE  Acyclic(u)
<1> SUFFICES ASSUME NEW S \in SUBSET List, S # {}
             PROVE  \E q \in S : u.parent[q] \notin S
  BY DEF Acyclic
<1>1. /\ \A q \in List : u.parent[q] = IF q = i THEN p ELSE t.parent[q]
      /\ p \in Item /\ None \notin S
  BY TreeAssumption
<1>2. CASE i \notin S
  <2>1. PICK q \in S : t.parent[q] \notin S
    BY DEF Acyclic
  <2>2. QED
    BY <1>1, <1>2, <2>1
<1>3. CASE i \in S /\ p \notin S
  BY <1>1, <1>3
<1>4. CASE i \in S /\ p \in S
  <2> DEFINE R == S \cap Path(t, p)
  <2>1. p \in R /\ R \in SUBSET List
    BY <1>4 DEF Path
  <2>2. PICK q \in R : t.parent[q] \notin R
    BY <2>1 DEF Acyclic
  <2>3. t.parent[q] \in Path(t, p) \cup {None}
    BY <1>1, <2>2, AboveClosed DEF Path
  <2>4. q # i /\ q \in S /\ t.parent[q] \notin S
    BY <1>1, <2>2, <2>3
  <2>5. QED
    BY <1>1, <2>4
<1>5. QED
  BY <1>2, <1>3, <1>4

-----------------------------------------------------------------------------
(* The lists and the rows after a child has been unlinked or linked.       *)

LEMMA RemoveChildLists ==
  ASSUME NEW t, Whole(t), NEW i \in Item, t.parent[i] # None
  PROVE  RemoveChild(t, i).children =
           [t.children EXCEPT ![t.parent[i]] = RemoveAt(@, t.row[i] + 1)]
<1> DEFINE p == t.parent[i]
           h == RemoveName(t, p, t.name[i]).hash
           c == [t.children EXCEPT ![p] = RemoveAt(@, t.row[i] + 1)]
<1>1. t \in Tree /\ p \in List /\ t.name[i] \in Raw
  BY DEF Whole, Tree
<1>2. RemoveName(t, p, t.name[i]) = [t EXCEPT !.hash = h]
  BY <1>1, RemoveNameFacts
<1> HIDE DEF h
<1>3. ([[t EXCEPT !.hash = h] EXCEPT !.children = c]).children = c
  BY <1>1 DEF Tree
<1>4. RemoveChild(t, i).children =
        [[t EXCEPT !.hash = h] EXCEPT !.children[p] = RemoveAt(@, t.row[i] + 1)].children
  BY <1>2 DEF RemoveChild, ChangeIndexes, Renumbered
<1>5. QED
  BY <1>1, <1>3, <1>4 DEF Tree

LEMMA InsertChildLists ==
  ASSUME NEW t, Whole(t), NEW i \in Item, NEW p \in List, NEW r
  PROVE  InsertChild(t, p, i, r).children =
           [t.children EXCEPT ![p] = InsertAt(@, r + 1, i)]
BY DEF InsertChild, ChangeIndexes, Whole, Tree

(* The child found under a place of a list, by the pointers of the item.   *)
LEMMA ChildAtPlace ==
  ASSUME NEW t, t \in Tree, ListsAgree(t), NEW p \in List, NEW k \in 1 .. Len(t.children[p])
  PROVE  /\ t.children[p][k] \in Item
         /\ t.parent[t.children[p][k]] = p /\ t.row[t.children[p][k]] = k - 1
BY DEF ListsAgree, Tree

LEMMA PlaceOfChild ==
  ASSUME NEW t, t \in Tree, ListsAgree(t), NEW j \in Item, t.parent[j] # None
  PROVE  /\ t.parent[j] \in List /\ t.row[j] \in Nat
         /\ t.row[j] < Len(t.children[t.parent[j]])
         /\ t.children[t.parent[j]][t.row[j] + 1] = j
<1>1. t.row[j] \in Nat \cup {-1} /\ t.parent[j] \in List
  BY DEF Tree
<1>2. /\ t.row[j] + 1 \in 1 .. Len(t.children[t.parent[j]])
      /\ t.children[t.parent[j]][t.row[j] + 1] = j
  BY DEF ListsAgree
<1>3. Len(t.children[t.parent[j]]) \in Nat
  BY <1>1 DEF Tree
<1>4. QED
  BY <1>1, <1>2, <1>3

(* The children after the one removed move up by one row.                  *)
LEMMA RemoveChildRows ==
  ASSUME NEW t, Whole(t), NEW i \in Item, t.parent[i] # None,
         NEW j \in Item, j # i, t.parent[j] # None
  PROVE  RemoveChild(t, i).row[j] =
           IF t.parent[j] = t.parent[i] /\ t.row[j] > t.row[i] THEN t.row[j] - 1 ELSE t.row[j]
<1> DEFINE u == RemoveChild(t, i)
           p == t.parent[i]
           q == t.parent[j]
           s == t.children[p]
           k == t.row[i] + 1
           r == t.row[j]
<1>1. t \in Tree /\ ListsAgree(t)
  BY DEF Whole
<1>2. u \in Tree /\ ListsAgree(u) /\ u.children = [t.children EXCEPT ![p] = RemoveAt(s, k)]
  BY RemoveChildWhole, RemoveChildLists DEF Whole
<1>3. /\ p \in List /\ q \in List /\ t.row[i] \in Nat /\ r \in Nat
      /\ t.row[i] < Len(s) /\ s[k] = i /\ r < Len(t.children[q]) /\ t.children[q][r + 1] = j
  BY <1>1, PlaceOfChild
<1>4. s \in Seq(Item) /\ Len(s) \in Nat /\ t.children \in [List -> Seq(Item)]
  BY <1>1, <1>3 DEF Tree
<1> HIDE DEF u, p, q, s, k, r
<1>5. k \in 1 .. Len(s) /\ k = t.row[i] + 1 /\ s = t.children[p]
  BY <1>3, <1>4 DEF k, s
<1>6. /\ Len(RemoveAt(s, k)) = Len(s) - 1
      /\ \A m \in 1 .. Len(s) - 1 : RemoveAt(s, k)[m] = IF m < k THEN s[m] ELSE s[m + 1]
  BY <1>4, <1>5, RemoveAtFacts
<1>7. /\ u.children[p] = RemoveAt(s, k)
      /\ q # p => u.children[q] = t.children[q]
  BY <1>2, <1>3, <1>4
<1>8. \A m \in 1 .. Len(u.children[q]) : u.children[q][m] = j => u.row[j] = m - 1
  BY <1>2, <1>3 DEF ListsAgree
<1>9. CASE q # p
  <2>1. r + 1 \in 1 .. Len(u.children[q]) /\ u.children[q][r + 1] = j
    BY <1>3, <1>4, <1>7, <1>9
  <2>2. u.row[j] = r
    BY <1>3, <1>8, <2>1
  <2>3. QED
    BY <1>9, <2>2 DEF u, p, q, r
<1>10. CASE q = p
  <2>1. r < Len(s) /\ s[r + 1] = j /\ r + 1 # k
    BY <1>3, <1>5, <1>10
  <2>2. CASE r + 1 > k
    <3>1. r \in 1 .. Len(s) - 1 /\ ~ (r < k)
      BY <1>3, <1>4, <1>5, <2>1, <2>2
    <3>2. r \in 1 .. Len(u.children[q]) /\ u.children[q][r] = j
      BY <1>6, <1>7, <1>10, <2>1, <3>1
    <3>3. u.row[j] = r - 1
      BY <1>8, <3>2
    <3>4. r > t.row[i]
      BY <1>3, <1>5, <2>2
    <3>5. QED
      BY <1>10, <3>3, <3>4 DEF u, p, q, r
  <2>3. CASE r + 1 < k
    <3>1. r + 1 \in 1 .. Len(s) - 1
      BY <1>3, <1>4, <1>5, <2>3
    <3>2. r + 1 \in 1 .. Len(u.children[q]) /\ u.children[q][r + 1] = j
      BY <1>6, <1>7, <1>10, <2>1, <2>3, <3>1
    <3>3. u.row[j] = r
      BY <1>3, <1>8, <3>2
    <3>4. ~ (r > t.row[i])
      BY <1>3, <1>5, <2>3
    <3>5. QED
      BY <1>10, <3>3, <3>4 DEF u, p, q, r
  <2>4. QED
    BY <1>3, <1>5, <2>1, <2>2, <2>3
<1>11. QED
  BY <1>9, <1>10

(* Those from the place of the one inserted on move down by one row.       *)
LEMMA InsertChildRows ==
  ASSUME NEW t, Whole(t), NEW i \in Item, t.parent[i] = None,
         NEW p \in List, NEW r \in 0 .. Len(t.children[p]),
         NEW j \in Item, t.parent[j] # None
  PROVE  InsertChild(t, p, i, r).row[j] =
           IF t.parent[j] = p /\ t.row[j] >= r THEN t.row[j] + 1 ELSE t.row[j]
<1> DEFINE u == InsertChild(t, p, i, r)
           q == t.parent[j]
           s == t.children[p]
           m == t.row[j]
<1>1. t \in Tree /\ ListsAgree(t)
  BY DEF Whole
<1>2. u \in Tree /\ ListsAgree(u) /\ u.children = [t.children EXCEPT ![p] = InsertAt(s, r + 1, i)]
  <2>1. u \in Tree /\ ListsAgree(u)
    BY InsertChildNamed
  <2>2. u.children = [t.children EXCEPT ![p] = InsertAt(@, r + 1, i)]
    BY InsertChildLists
  <2>3. QED
    BY <2>1, <2>2
<1>3. q \in List /\ m \in Nat /\ m < Len(t.children[q]) /\ t.children[q][m + 1] = j
  BY <1>1, PlaceOfChild
<1>4. s \in Seq(Item) /\ Len(s) \in Nat /\ t.children \in [List -> Seq(Item)]
  BY <1>1 DEF Tree
<1>5. r \in Nat /\ r <= Len(s)
  BY <1>4
<1> HIDE DEF u, q, s, m
<1>6. /\ Len(InsertAt(s, r + 1, i)) = Len(s) + 1
      /\ \A k \in 1 .. Len(s) + 1 :
           InsertAt(s, r + 1, i)[k] = IF k < r + 1 THEN s[k] ELSE IF k = r + 1 THEN i ELSE s[k - 1]
  <2>1. PICK f \in 1 .. Len(s) + 1 : f = r + 1
    BY <1>4, <1>5
  <2>2. s \in Seq(Item)
    BY <1>4
  <2>3. /\ InsertAt(s, f, i) \in Seq(Item)
        /\ Len(InsertAt(s, f, i)) = Len(s) + 1
        /\ \A k \in 1 .. Len(s) + 1 :
             InsertAt(s, f, i)[k] = IF k < f THEN s[k] ELSE IF k = f THEN i ELSE s[k - 1]
    BY ONLY <2>2, i \in Item, f \in 1 .. Len(s) + 1, InsertAtFacts
  <2>4. QED
    BY <2>1, <2>3
<1>7. /\ u.children[p] = InsertAt(s, r + 1, i)
      /\ q # p => u.children[q] = t.children[q]
  BY <1>2, <1>3, <1>4
<1>8. \A k \in 1 .. Len(u.children[q]) : u.children[q][k] = j => u.row[j] = k - 1
  BY <1>2, <1>3 DEF ListsAgree
<1>9. CASE q # p
  <2>1. m + 1 \in 1 .. Len(u.children[q]) /\ u.children[q][m + 1] = j
    BY <1>3, <1>4, <1>7, <1>9
  <2>2. u.row[j] = m
    BY <1>3, <1>8, <2>1
  <2>3. QED
    BY <1>9, <2>2 DEF u, q, m
<1>10. CASE q = p
  <2>1. m < Len(s) /\ s[m + 1] = j
    BY <1>3, <1>10 DEF s
  <2>2. CASE m >= r
    <3>1. m + 2 \in 1 .. Len(s) + 1 /\ ~ (m + 2 < r + 1) /\ m + 2 # r + 1 /\ (m + 2) - 1 = m + 1
      BY <1>3, <1>4, <1>5, <2>1, <2>2
    <3>2. m + 2 \in 1 .. Len(u.children[q]) /\ u.children[q][m + 2] = j
      BY <1>6, <1>7, <1>10, <2>1, <3>1
    <3>3. u.row[j] = m + 1
      BY <1>3, <1>8, <3>2
    <3>4. QED
      BY <1>10, <2>2, <3>3 DEF u, q, m
  <2>3. CASE ~ (m >= r)
    <3>1. m + 1 \in 1 .. Len(s) + 1 /\ m + 1 < r + 1
      BY <1>3, <1>4, <1>5, <2>1, <2>3
    <3>2. m + 1 \in 1 .. Len(u.children[q]) /\ u.children[q][m + 1] = j
      BY <1>6, <1>7, <1>10, <2>1, <3>1
    <3>3. u.row[j] = m
      BY <1>3, <1>8, <3>2
    <3>4. QED
      BY <1>10, <2>3, <3>3 DEF u, q, m
  <2>4. QED
    BY <2>2, <2>3
<1>11. QED
  BY <1>9, <1>10

-----------------------------------------------------------------------------
(* What an operation on some items leaves of the others.                   *)

(* Those outside of X keep their lists, and their order in them.           *)
OthersStay(t, u, X) ==
  \A j \in Item \ X :
    /\ u.parent[j] = t.parent[j]
    /\ \A k \in Item \ X :
         t.parent[j] # None /\ t.parent[j] = t.parent[k]
           => (t.row[j] < t.row[k] <=> u.row[j] < u.row[k])

LEMMA OthersStayOn ==
  ASSUME NEW t, NEW u, NEW w, NEW X, OthersStay(t, u, X), OthersStay(u, w, X)
  PROVE  OthersStay(t, w, X)
BY DEF OthersStay

LEMMA OthersStayMore ==
  ASSUME NEW t, NEW u, NEW X, OthersStay(t, u, X), NEW Y, X \subseteq Y
  PROVE  OthersStay(t, u, Y)
BY DEF OthersStay

LEMMA SameStay ==
  ASSUME NEW t, NEW u, u.parent = t.parent, u.row = t.row, NEW X
  PROVE  OthersStay(t, u, X)
BY DEF OthersStay

LEMMA RemoveChildStay ==
  ASSUME NEW t, Whole(t), NEW i \in Item, t.parent[i] # None
  PROVE  OthersStay(t, RemoveChild(t, i), {i})
<1> DEFINE u == RemoveChild(t, i)
<1>1. u.parent = [t.parent EXCEPT ![i] = None] /\ t.parent \in [Item -> List \cup {None}]
  BY RemoveChildWhole DEF Whole, Tree
<1>2. \A j \in Item : j # i /\ t.parent[j] # None =>
        u.row[j] = IF t.parent[j] = t.parent[i] /\ t.row[j] > t.row[i]
                   THEN t.row[j] - 1 ELSE t.row[j]
  BY RemoveChildRows
<1>3. \A j \in Item : t.parent[j] # None =>
        t.row[j] \in Nat /\ t.children[t.parent[j]][t.row[j] + 1] = j
  BY PlaceOfChild DEF Whole
<1> HIDE DEF u
<1>4. ASSUME NEW j \in Item \ {i}, NEW k \in Item \ {i},
             t.parent[j] # None, t.parent[j] = t.parent[k]
      PROVE  t.row[j] < t.row[k] <=> u.row[j] < u.row[k]
  <2>1. t.row[j] \in Nat /\ t.row[k] \in Nat /\ t.row[i] \in Nat
    BY <1>3, <1>4
  <2>2. t.parent[j] = t.parent[i] => t.row[j] # t.row[i] /\ t.row[k] # t.row[i]
    BY <1>3, <1>4
  <2>3. QED
    BY <1>2, <1>4, <2>1, <2>2
<1>5. QED
  BY <1>1, <1>4 DEF OthersStay, u

LEMMA InsertChildStay ==
  ASSUME NEW t, Whole(t), NEW i \in Item, t.parent[i] = None,
         NEW p \in List, NEW r \in 0 .. Len(t.children[p])
  PROVE  OthersStay(t, InsertChild(t, p, i, r), {i})
<1> DEFINE u == InsertChild(t, p, i, r)
<1>1. u.parent = [t.parent EXCEPT ![i] = p] /\ t.parent \in [Item -> List \cup {None}]
  <2>1. u.parent = [t.parent EXCEPT ![i] = p]
    BY InsertChildNamed
  <2>2. QED
    BY <2>1 DEF Whole, Tree
<1>2. \A j \in Item : t.parent[j] # None =>
        u.row[j] = IF t.parent[j] = p /\ t.row[j] >= r THEN t.row[j] + 1 ELSE t.row[j]
  BY InsertChildRows
<1>3. \A j \in Item : t.parent[j] # None => t.row[j] \in Nat
  BY PlaceOfChild DEF Whole
<1> HIDE DEF u
<1>4. ASSUME NEW j \in Item \ {i}, NEW k \in Item \ {i},
             t.parent[j] # None, t.parent[j] = t.parent[k]
      PROVE  t.row[j] < t.row[k] <=> u.row[j] < u.row[k]
  <2>1. t.row[j] \in Nat /\ t.row[k] \in Nat /\ r \in Int
    BY <1>3, <1>4
  <2>2. QED
    BY <1>2, <1>4, <2>1
<1>5. QED
  BY <1>1, <1>4 DEF OthersStay, u

(* No item but i has another name.                                         *)
OthersKeptNamed(t, u, i) == \A j \in Item : j # i => u.name[j] = t.name[j]

LEMMA InsertNameOthers ==
  ASSUME NEW t \in Tree, NEW p \in List, NEW i \in Item, NEW n
  PROVE  LET u == InsertName(t, p, i, n)
         IN  /\ u.children = t.children /\ u.parent = t.parent /\ u.row = t.row
             /\ u.mdl = t.mdl /\ u.pidx = t.pidx
             /\ OthersKeptNamed(t, u, i)
BY DEF InsertName, Tree, OthersKeptNamed

LEMMA RemoveItemOthers ==
  ASSUME NEW t, Whole(t), NEW i \in Item, t.parent[i] # None
  PROVE  LET u == RemoveItem(t, i)
         IN  OthersStay(t, u, {i}) /\ u.name = t.name
<1> DEFINE s == SetModel(t, i, None)
<1>1. Whole(s) /\ s.parent = t.parent /\ s.name = t.name /\ s.row = t.row
  BY SetModelWhole, SetModelFacts DEF Whole
<1> HIDE DEF s
<1>2. OthersStay(s, RemoveChild(s, i), {i}) /\ RemoveChild(s, i).name = s.name
  <2>1. OthersStay(s, RemoveChild(s, i), {i})
    BY <1>1, RemoveChildStay
  <2>2. s \in Tree /\ ListsAgree(s) /\ s.parent[i] # None
    BY <1>1 DEF Whole
  <2>3. RemoveChild(s, i).name = s.name
    BY <2>2, RemoveChildFacts
  <2>4. QED
    BY <2>1, <2>3
<1>3. OthersStay(t, s, {i})
  BY <1>1, SameStay
<1>4. QED
  BY <1>1, <1>2, <1>3, OthersStayOn DEF RemoveItem, s

LEMMA DetachOthers ==
  ASSUME NEW t, Whole(t), NEW i \in Item
  PROVE  LET u == Detach(t, i)
         IN  OthersStay(t, u, {i}) /\ u.name = t.name
<1>1. CASE t.parent[i] = None
  BY <1>1, SameStay DEF Detach
<1>2. CASE t.parent[i] # None
  BY <1>2, RemoveItemOthers DEF Detach
<1>3. QED
  BY <1>1, <1>2

(* Up to the call of insert_name.                                          *)
LEMMA PlaceFacts ==
  ASSUME NEW t, Whole(t), NEW i \in Item, NEW p \in List,
         NEW t1, t1 = Detach(t, i),
         NEW t2, t2 = SetModel(t1, i, t1.mdl[p])
  PROVE  /\ Whole(t1) /\ t1.parent = [t.parent EXCEPT ![i] = None] /\ t1.parent[i] = None
         /\ t1.mdl[p] \in Model \cup {None}
         /\ Whole(t2) /\ t2.parent = t1.parent /\ t2.parent[i] = None
<1>1. Whole(t1) /\ t1.parent = [t.parent EXCEPT ![i] = None] /\ t1.parent[i] = None
  <2>1. Whole(t1) /\ t1.parent = [t.parent EXCEPT ![i] = None]
    BY DetachWhole
  <2>2. t.parent \in [Item -> List \cup {None}]
    BY DEF Whole, Tree
  <2>3. QED
    BY <2>1, <2>2
<1>2. t1.mdl[p] \in Model \cup {None}
  BY <1>1, TreeAssumption DEF Whole, Tree
<1>3. Whole(t2) /\ t2.parent = t1.parent
  BY <1>1, <1>2, SetModelWhole
<1>4. QED
  BY <1>1, <1>2, <1>3

(* u is t with i in some place of p.                                       *)
PutIn(t, p, i, u) == \E r \in 0 .. Len(t.children[p]) : u = InsertChild(t, p, i, r)

LEMMA PlaceInserts ==
  ASSUME NEW t, NEW i \in Item, NEW p \in List, NEW pos \in Int,
         NEW t1, t1 = Detach(t, i),
         NEW t2, t2 = SetModel(t1, i, t1.mdl[p]), Whole(t2)
  PROVE  PutIn(t2, p, i, Place(t, p, i, pos))
<1> DEFINE k == Len(t2.children[p])
           r == IF pos < 0 \/ pos > k THEN k ELSE pos
<1>1. k \in Nat
  BY DEF Whole, Tree
<1>2. Place(t, p, i, pos) = InsertChild(t2, p, i, r)
  BY DEF Place
<1> HIDE DEF k
<1>3. r \in 0 .. k
  BY <1>1
<1>4. QED
  BY <1>2, <1>3 DEF k, PutIn

LEMMA InsertedOthers ==
  ASSUME NEW t, Whole(t), NEW i \in Item, NEW p \in List, NEW pos \in Int,
         NEW u, Inserted(t, p, i, pos, u)
  PROVE  OthersStay(t, u, {i}) /\ OthersKeptNamed(t, u, i)
<1>a. PICK t1 : t1 = Detach(t, i)
  OBVIOUS
<1>b. PICK t2 : t2 = SetModel(t1, i, t1.mdl[p])
  OBVIOUS
<1>c. PICK t3 : t3 = Place(t, p, i, pos)
  OBVIOUS
<1>1. /\ Whole(t1) /\ t1.parent = [t.parent EXCEPT ![i] = None] /\ t1.parent[i] = None
      /\ t1.mdl[p] \in Model \cup {None}
      /\ Whole(t2) /\ t2.parent = t1.parent /\ t2.parent[i] = None
  BY <1>a, <1>b, PlaceFacts
<1>2. OthersStay(t, t1, {i}) /\ t1.name = t.name
  BY <1>a, DetachOthers
<1>3. t2.parent = t1.parent /\ t2.row = t1.row /\ t2.name = t1.name
  BY <1>b, <1>1, SetModelFacts DEF Whole
<1>4. PICK r \in 0 .. Len(t2.children[p]) : t3 = InsertChild(t2, p, i, r)
  <2>1. PutIn(t2, p, i, t3)
    BY <1>a, <1>b, <1>c, <1>1, PlaceInserts
  <2>2. QED
    BY <2>1 DEF PutIn
<1>5. PICK n \in Name : ChosenName(t3, p, i, n) /\ u = InsertName(t3, p, i, n)
  BY <1>c DEF Inserted
<1>6. OthersStay(t2, t3, {i}) /\ t3.name = t2.name /\ t3 \in Tree
  <2>1. OthersStay(t2, t3, {i})
    BY <1>1, <1>4, InsertChildStay
  <2>2. t3.name = t2.name /\ t3 \in Tree
    <3>1. Whole(t2) /\ t2.parent[i] = None
      BY <1>1
    <3>2. LET w == InsertChild(t2, p, i, r)
          IN  /\ w \in Tree /\ ListsAgree(w) /\ NamedBut(w, i)
              /\ w.parent = [t2.parent EXCEPT ![i] = p] /\ w.name = t2.name
              /\ \A q \in List : Len(w.children[q]) =
                   IF q = p THEN Len(t2.children[q]) + 1 ELSE Len(t2.children[q])
      BY <3>1, InsertChildNamed
    <3>3. QED
      BY <1>4, <3>2
  <2>3. QED
    BY <2>1, <2>2
<1>7. /\ u.parent = t3.parent /\ u.row = t3.row
      /\ \A j \in Item : j # i => u.name[j] = t3.name[j]
  BY <1>5, <1>6, InsertNameOthers DEF OthersKeptNamed
<1>8. OthersStay(t1, t2, {i}) /\ OthersStay(t3, u, {i})
  BY <1>3, <1>7, SameStay
<1>9. OthersStay(t, t2, {i})
  BY <1>2, <1>8, OthersStayOn
<1>10. OthersStay(t, t3, {i})
  BY <1>6, <1>9, OthersStayOn
<1>11. OthersStay(t, u, {i})
  BY <1>8, <1>10, OthersStayOn
<1>12. QED
  BY <1>2, <1>3, <1>6, <1>7, <1>11 DEF OthersKeptNamed

LEMMA RenamedOthers ==
  ASSUME NEW t, Whole(t), NEW i \in Item, NEW raw \in Raw, NEW u, Renamed(t, i, raw, u)
  PROVE  /\ OthersKeptNamed(t, u, i)
         /\ u.children = t.children /\ u.parent = t.parent /\ u.row = t.row
         /\ u.mdl = t.mdl /\ u.pidx = t.pidx
<1> DEFINE p == t.parent[i]
<1>1. t \in Tree
  BY DEF Whole
<1>2. CASE p = None
  BY <1>1, <1>2 DEF Renamed, WithName, Tree, OthersKeptNamed
<1>3. CASE p # None
  <2> DEFINE t1 == RemoveName(t, p, t.name[i])
             t2 == WithName(t1, i, raw)
  <2>1. p \in List /\ t.name[i] \in Raw
    BY <1>1, <1>3 DEF Tree
  <2>2. t1 \in Tree /\ t1 = [t EXCEPT !.hash = t1.hash]
    BY <1>1, <2>1, RemoveNameFacts
  <2>3. PICK n \in Name : u = InsertName(t2, p, i, n)
    BY <1>3 DEF Renamed
  <2> HIDE DEF t1
  <2>4. /\ t1.parent = t.parent /\ t1.children = t.children /\ t1.row = t.row
        /\ t1.name = t.name /\ t1.mdl = t.mdl /\ t1.pidx = t.pidx
    BY <1>1, <2>2 DEF Tree
  <2>5. /\ t2 \in Tree /\ t2.parent = t1.parent /\ t2.children = t1.children
        /\ t2.row = t1.row /\ t2.mdl = t1.mdl /\ t2.pidx = t1.pidx
        /\ \A j \in Item : j # i => t2.name[j] = t1.name[j]
    BY <2>2 DEF Tree, WithName
  <2> HIDE DEF t2
  <2>6. /\ u.children = t2.children /\ u.parent = t2.parent /\ u.row = t2.row
        /\ u.mdl = t2.mdl /\ u.pidx = t2.pidx
        /\ \A j \in Item : j # i => u.name[j] = t2.name[j]
    BY <2>1, <2>3, <2>5, InsertNameOthers DEF OthersKeptNamed
  <2>7. QED
    BY <2>4, <2>5, <2>6 DEF OthersKeptNamed
<1>4. QED
  BY <1>2, <1>3

-----------------------------------------------------------------------------
(* The models.                                                             *)

(* set_model(m) on i: it reaches the children of the lists it changes, and *)
(* reaches nothing but i and what is below.                                *)
LEMMA VisitsFacts ==
  ASSUME NEW t \in Tree, ListsAgree(t), NEW i \in Item, NEW m
  PROVE  LET V == SetModelVisits(t, i, m)
         IN  /\ i \in V
             /\ \A j \in V : j \in Item /\ i \in Path(t, j)
             /\ \A j \in V : j # i => t.parent[j] # None /\ t.parent[j] \in V /\ t.mdl[t.parent[j]] # m
             /\ \A j \in Item : t.parent[j] \in V /\ t.parent[j] # None /\ t.mdl[t.parent[j]] # m
                                  => j \in V
<1> DEFINE open == {p \in List : t.mdl[p] # m}
           E == Entered(t, i, m)
           V == SetModelVisits(t, i, m)
           Kids(p) == ToSet(t.children[p])
           Closed(S) == (i \in open => i \in S) /\ \A k \in S : Kids(k) \cap open \subseteq S
<1>1. E = {p \in open : \A S \in SUBSET open : Closed(S) => p \in S}
  BY DEF Entered
<1>2. V = {i} \cup UNION {Kids(p) : p \in E}
  BY DEF SetModelVisits
<1>3. \A p \in List : \A j : j \in Kids(p) <=> j \in Item /\ t.parent[j] = p
  <2>1. ASSUME NEW p \in List, NEW j \in Item, t.parent[j] = p
        PROVE  j \in Kids(p)
    <3>1. p # None
      BY TreeAssumption
    <3>2. t.row[j] \in Nat /\ t.row[j] < Len(t.children[p]) /\ t.children[p][t.row[j] + 1] = j
      BY <2>1, <3>1, PlaceOfChild
    <3>3. Len(t.children[p]) \in Nat
      BY DEF Tree
    <3>4. t.row[j] + 1 \in 1 .. Len(t.children[p])
      BY <3>2, <3>3
    <3>5. QED
      BY <3>2, <3>4 DEF ToSet
  <2>2. ASSUME NEW p \in List, NEW j \in Kids(p)
        PROVE  j \in Item /\ t.parent[j] = p
    <3>1. PICK k \in 1 .. Len(t.children[p]) : t.children[p][k] = j
      BY DEF ToSet
    <3>2. QED
      BY <3>1, ChildAtPlace
  <2>3. QED
    BY <2>1, <2>2
<1>4. /\ t.parent \in [Item -> List \cup {None}] /\ List \subseteq Item /\ None \notin List
  BY TreeAssumption DEF Tree
<1> HIDE DEF open, E, V, Kids
<1>5. open \in SUBSET List /\ \A p \in open : t.mdl[p] # m
  BY DEF open
<1>6. E \in SUBSET open
  BY <1>1
(* E is closed itself. *)
<1>7. Closed(E)
  <2>1. i \in open => i \in E
    BY <1>1
  <2>2. ASSUME NEW k \in E, NEW j \in Kids(k) \cap open
        PROVE  j \in E
    <3>1. ASSUME NEW S \in SUBSET open, Closed(S)
          PROVE  j \in S
      <4>1. k \in S
        BY <1>1, <3>1
      <4>2. QED
        BY <3>1, <4>1
    <3>2. QED
      BY <1>1, <3>1
  <2>3. QED
    BY <2>1, <2>2
(* Every list entered has been visited before. *)
<1>8. E \subseteq V
  <2> DEFINE S == E \cap V
  <2>1. S \in SUBSET open /\ Closed(S)
    <3>1. i \in open => i \in S
      BY <1>2, <1>7
    <3>2. ASSUME NEW k \in S, NEW j \in Kids(k) \cap open
          PROVE  j \in S
      <4>1. j \in E
        BY <1>7
      <4>2. j \in V
        BY <1>2
      <4>3. QED
        BY <4>1, <4>2
    <3>3. QED
      BY <1>6, <3>1, <3>2
  <2> HIDE DEF S
  <2>2. E \subseteq S
    BY <1>1, <2>1
  <2>3. QED
    BY <2>2 DEF S
(* They are i or below it. *)
<1>9. \A k \in E : i \in Path(t, k)
  <2> DEFINE S == {k \in E : i \in Path(t, k)}
  <2>1. S \in SUBSET open /\ Closed(S)
    <3>1. i \in open => i \in S
      BY <1>7 DEF Path
    <3>2. ASSUME NEW k \in S, NEW j \in Kids(k) \cap open
          PROVE  j \in S
      <4>1. j \in E
        BY <1>7
      <4>2. j \in Item /\ t.parent[j] = k /\ k # None
        BY <1>3, <1>4, <1>5, <1>6
      <4>3. Path(t, k) \subseteq Path(t, j)
        BY <1>4, <4>2, PathOfChild
      <4>4. QED
        BY <4>1, <4>3
    <3>3. QED
      BY <1>6, <3>1, <3>2
  <2> HIDE DEF S
  <2>2. E \subseteq S
    BY <1>1, <2>1
  <2>3. QED
    BY <2>2 DEF S
<1>10. ASSUME NEW j \in V, j # i
       PROVE  j \in Item /\ t.parent[j] \in E /\ t.parent[j] # None
  BY <1>2, <1>3, <1>4, <1>5, <1>6, <1>10
<1>11. ASSUME NEW j \in V
       PROVE  j \in Item /\ i \in Path(t, j)
  <2>1. CASE j = i
    BY <2>1 DEF Path
  <2>2. CASE j # i
    <3>1. Path(t, t.parent[j]) \subseteq Path(t, j)
      BY <1>4, <1>10, <2>2, PathOfChild
    <3>2. QED
      BY <1>9, <1>10, <2>2, <3>1
  <2>3. QED
    BY <2>1, <2>2
<1>12. ASSUME NEW j \in Item, t.parent[j] \in V, t.parent[j] # None, t.mdl[t.parent[j]] # m
       PROVE  j \in V
  <2>1. t.parent[j] \in open
    BY <1>4, <1>12 DEF open
  <2>2. t.parent[j] \in E
    <3>1. CASE t.parent[j] = i
      BY <1>7, <2>1, <3>1
    <3>2. CASE t.parent[j] # i
      <4>1. PICK q \in E : t.parent[j] \in Kids(q)
        BY <1>2, <1>12, <3>2
      <4>2. QED
        BY <1>7, <2>1, <4>1
    <3>3. QED
      BY <3>1, <3>2
  <2>3. j \in Kids(t.parent[j])
    BY <1>3, <1>5, <1>6, <2>2
  <2>4. QED
    BY <1>2, <2>2, <2>3
<1>13. i \in V
  BY <1>2
<1>14. \A j \in V : j # i => t.parent[j] # None /\ t.parent[j] \in V /\ t.mdl[t.parent[j]] # m
  BY <1>5, <1>6, <1>8, <1>10
<1>15. QED
  BY <1>11, <1>12, <1>13, <1>14 DEF V

(* The items outside of X that are in a list are attached to its model.    *)
ModelsFollow(t, X) ==
  \A j \in Item \ X : t.parent[j] # None => t.mdl[j] = t.mdl[t.parent[j]]

(* An index is lost only of an item that has i above it.                   *)
IndexesKept(t, u, i) ==
  \A e \in t.pidx : i \in Path(t, e.item) \/ \E f \in u.pidx : f.model = e.model /\ f.item = e.item

LEMMA SetModelModels ==
  ASSUME NEW t \in Tree, ListsAgree(t), NEW i \in Item, NEW m \in Model \cup {None},
         ModelsFollow(t, {i}), IndexesAgree(t)
  PROVE  LET u == SetModel(t, i, m)
         IN  /\ ModelsFollow(u, {i}) /\ IndexesAgree(u)
             /\ u.pidx \subseteq t.pidx
             /\ u.mdl[i] = m
             /\ \A j \in Item : u.mdl[j] = t.mdl[j] \/ u.mdl[j] = m
             /\ \A j \in Item : j # i /\ t.parent[j] = None => u.mdl[j] = t.mdl[j]
             /\ \A e \in t.pidx : e \in u.pidx \/ i \in Path(t, e.item)
<1> DEFINE V == SetModelVisits(t, i, m)
           md == [j \in Item |-> IF j \in V THEN m ELSE t.mdl[j]]
           px == {e \in t.pidx : ~ (/\ e.item \in V
                                    /\ t.mdl[e.item] # m
                                    /\ IsIndexOf(t, e, e.item))}
           u == SetModel(t, i, m)
<1>1. /\ i \in V
      /\ \A j \in V : j \in Item /\ i \in Path(t, j)
      /\ \A j \in V : j # i => t.parent[j] # None /\ t.parent[j] \in V /\ t.mdl[t.parent[j]] # m
      /\ \A j \in Item : t.parent[j] \in V /\ t.parent[j] # None /\ t.mdl[t.parent[j]] # m
                           => j \in V
  BY VisitsFacts
<1>2. u = [t EXCEPT !.mdl = md, !.pidx = px]
  BY DEF SetModel, Tree
<1>3. /\ u.mdl = md /\ u.pidx = px /\ u.row = t.row /\ u.parent = t.parent
      /\ t.parent \in [Item -> List \cup {None}] /\ List \subseteq Item
  BY <1>2, TreeAssumption DEF Tree
<1> HIDE DEF V, u
<1>4. \A j \in Item : u.mdl[j] = IF j \in V THEN m ELSE t.mdl[j]
  BY <1>3
<1>5. ModelsFollow(u, {i})
  <2>1. ASSUME NEW j \in Item \ {i}, t.parent[j] # None
        PROVE  u.mdl[j] = u.mdl[t.parent[j]]
    <3>1. t.mdl[j] = t.mdl[t.parent[j]] /\ t.parent[j] \in Item
      BY <1>3, <2>1 DEF ModelsFollow
    <3>2. QED
      BY <1>1, <1>4, <2>1, <3>1
  <2>2. QED
    BY <1>3, <2>1 DEF ModelsFollow
<1>6. IndexesAgree(u)
  <2>1. ASSUME NEW e \in px
        PROVE  e = [model |-> u.mdl[e.item], item |-> e.item, row |-> u.row[e.item]]
    <3>1. e.item \in Item /\ e = [model |-> t.mdl[e.item], item |-> e.item, row |-> t.row[e.item]]
      BY DEF Tree, PersistentIndex, IndexesAgree, IsIndexOf
    <3>2. u.mdl[e.item] = t.mdl[e.item]
      BY <1>4, <3>1 DEF IndexesAgree
    <3>3. QED
      BY <1>3, <3>1, <3>2
  <2>2. QED
    BY <1>3, <2>1 DEF IndexesAgree, IsIndexOf
<1>7. \A e \in t.pidx : e \in u.pidx \/ i \in Path(t, e.item)
  BY <1>1, <1>3
<1>8. QED
  BY <1>1, <1>3, <1>4, <1>5, <1>6, <1>7 DEF u

-----------------------------------------------------------------------------
(* The indexes the views store.                                            *)

(* changePersistentIndex moves the stored indexes of the model of p.       *)
Moved(t, u, p) ==
  u.pidx = {IF e.model = t.mdl[p] THEN [e EXCEPT !.row = u.row[e.item]] ELSE e : e \in t.pidx}

KeepsIndexes(t, u) ==
  /\ \A e \in t.pidx : \E f \in u.pidx : f.model = e.model /\ f.item = e.item
  /\ \A f \in u.pidx : \E e \in t.pidx : f.model = e.model /\ f.item = e.item

LEMMA MovedIndexes ==
  ASSUME NEW t \in Tree, NEW u \in Tree, NEW p \in List, u.mdl = t.mdl,
         IndexesAgree(t), Moved(t, u, p),
         \A e \in t.pidx : u.row[e.item] = t.row[e.item] \/ t.mdl[e.item] = t.mdl[p]
  PROVE  IndexesAgree(u) /\ KeepsIndexes(t, u)
<1> DEFINE To(e) == IF e.model = t.mdl[p] THEN [e EXCEPT !.row = u.row[e.item]] ELSE e
<1>1. ASSUME NEW e \in t.pidx
      PROVE  To(e) = [model |-> t.mdl[e.item], item |-> e.item, row |-> u.row[e.item]]
  <2>1. e = [model |-> t.mdl[e.item], item |-> e.item, row |-> t.row[e.item]]
    BY DEF IndexesAgree, IsIndexOf
  <2>2. e.model = t.mdl[e.item]
    BY <2>1
  <2>3. QED
    BY <2>1, <2>2
<1>2. u.pidx = {To(e) : e \in t.pidx}
  BY DEF Moved
<1> HIDE DEF To
<1>3. \A e \in t.pidx : To(e).model = e.model /\ To(e).item = e.item
  BY <1>1 DEF IndexesAgree, IsIndexOf
<1>4. KeepsIndexes(t, u)
  BY <1>2, <1>3 DEF KeepsIndexes
<1>5. IndexesAgree(u)
  BY <1>1, <1>2 DEF IndexesAgree, IsIndexOf
<1>6. QED
  BY <1>4, <1>5

(* An item that leaves its list, detached from its model before, takes no  *)
(* index with it, and those of the others move with their items.           *)
LEMMA RemoveChildIndexes ==
  ASSUME NEW t, Whole(t), NEW i \in Item, t.parent[i] # None,
         t.mdl[i] = None, ModelsFollow(t, {i}), IndexesAgree(t)
  PROVE  IndexesAgree(RemoveChild(t, i)) /\ KeepsIndexes(t, RemoveChild(t, i))
<1> DEFINE p == t.parent[i]
           r == t.row[i]
           t1 == RemoveName(t, p, t.name[i])
           t2 == [t1 EXCEPT !.children[p] = RemoveAt(@, r + 1)]
           t3 == ChangeIndexes(t2, p, r)
           u == RemoveChild(t, i)
           new == Renumbered(t2, p, r)
<1>1. t \in Tree /\ ListsAgree(t) /\ p \in List /\ t.name[i] \in Raw
  BY DEF Whole, Tree
<1>2. u \in Tree /\ u.mdl = t.mdl /\ ListsAgree(u) /\ u.parent = [t.parent EXCEPT ![i] = None]
  BY <1>1, RemoveChildFacts
<1>3. u = [t3 EXCEPT !.parent[i] = None, !.row[i] = -1]
  BY DEF RemoveChild
<1>4. t1 \in Tree /\ t1.pidx = t.pidx /\ t1.mdl = t.mdl /\ t1.row = t.row
  <2>1. t1 \in Tree /\ t1 = [t EXCEPT !.hash = t1.hash]
    BY <1>1, RemoveNameFacts
  <2>2. QED
    BY <1>1, <2>1 DEF Tree
<1> HIDE DEF t1, u
<1>5. t2.pidx = t.pidx /\ t2.mdl = t.mdl /\ t2.row = t.row
  BY <1>4 DEF Tree
<1>6. /\ t3.pidx = {IF Follows(t2, p, e) THEN [e EXCEPT !.row = new[e.item]] ELSE e : e \in t2.pidx}
      /\ t3.row = new
  BY <1>4 DEF ChangeIndexes, Tree
<1>7. new = [j \in Item |-> new[j]]
  BY DEF Renumbered
<1> HIDE DEF t2, new, t3
<1>8. \A j \in Item : j # i => u.row[j] = new[j]
  <2>1. u.row = [t3.row EXCEPT ![i] = -1]
    BY <1>2, <1>3 DEF Tree
  <2>2. QED
    BY <1>6, <1>7, <2>1
<1>9. u.pidx = t3.pidx
  BY <1>2, <1>3 DEF Tree
<1>10. \A e \in t.pidx : e.item \in Item /\ e.item # i /\ IsIndexOf(t, e, e.item)
  <2>1. ASSUME NEW e \in t.pidx
        PROVE  e.item \in Item /\ e.item # i /\ IsIndexOf(t, e, e.item)
    <3>1. IsIndexOf(t, e, e.item) /\ e \in PersistentIndex
      BY <1>1 DEF IndexesAgree, Tree
    <3>2. e.model = t.mdl[e.item]
      BY <3>1 DEF IsIndexOf
    <3>3. QED
      BY <3>1, <3>2, TreeAssumption DEF PersistentIndex
  <2>2. QED
    BY <2>1
<1>11. Moved(t, u, p)
  <2>1. \A e \in t.pidx :
          (IF Follows(t2, p, e) THEN [e EXCEPT !.row = new[e.item]] ELSE e)
          = (IF e.model = t.mdl[p] THEN [e EXCEPT !.row = u.row[e.item]] ELSE e)
    BY <1>5, <1>8, <1>10 DEF Follows, IsIndexOf
  <2>2. u.pidx = {IF Follows(t2, p, e) THEN [e EXCEPT !.row = new[e.item]] ELSE e : e \in t.pidx}
    BY <1>5, <1>6, <1>9
  <2>3. QED
    BY <2>1, <2>2 DEF Moved
<1>12. \A e \in t.pidx : u.row[e.item] = t.row[e.item] \/ t.mdl[e.item] = t.mdl[p]
  <2>1. ASSUME NEW j \in Item, j # i, t.mdl[j] # t.mdl[p]
        PROVE  u.row[j] = t.row[j]
    <3>1. CASE t.parent[j] = None
      <4>1. u.parent[j] = None
        BY <1>1, <1>2, <2>1, <3>1 DEF Tree
      <4>2. QED
        BY <1>1, <1>2, <3>1, <4>1 DEF ListsAgree
    <3>2. CASE t.parent[j] # None
      <4>1. t.parent[j] # p
        BY <2>1, <3>2 DEF ModelsFollow
      <4>2. u.row[j] = IF t.parent[j] = t.parent[i] /\ t.row[j] > t.row[i]
                       THEN t.row[j] - 1 ELSE t.row[j]
        BY <2>1, <3>2, RemoveChildRows DEF u
      <4>3. QED
        BY <4>1, <4>2
    <3>3. QED
      BY <3>1, <3>2
  <2>2. QED
    BY <1>10, <2>1
<1>13. IndexesAgree(u) /\ KeepsIndexes(t, u)
  BY <1>1, <1>2, <1>11, <1>12, MovedIndexes
<1>14. QED
  BY <1>13 DEF u

(* One that joins a list when it is attached to the model of that list,    *)
(* and the views store no index of it yet, only moves the others.          *)
LEMMA InsertChildIndexes ==
  ASSUME NEW t, Whole(t), NEW i \in Item, t.parent[i] = None,
         NEW p \in List, NEW r \in 0 .. Len(t.children[p]),
         \A e \in t.pidx : e.item # i, ModelsFollow(t, {}), IndexesAgree(t)
  PROVE  IndexesAgree(InsertChild(t, p, i, r)) /\ KeepsIndexes(t, InsertChild(t, p, i, r))
<1> DEFINE t1 == [t EXCEPT !.children[p] = InsertAt(@, r + 1, i),
                           !.parent[i] = p, !.row[i] = r]
           u == InsertChild(t, p, i, r)
           new == Renumbered(t1, p, r + 1)
<1>1. t \in Tree /\ ListsAgree(t)
  BY DEF Whole
<1>2. u \in Tree /\ u.mdl = t.mdl /\ ListsAgree(u) /\ u.parent = [t.parent EXCEPT ![i] = p]
  BY <1>1, InsertChildFacts
<1>3. u = ChangeIndexes(t1, p, r + 1)
  BY DEF InsertChild
<1>4. t1.pidx = t.pidx /\ t1.mdl = t.mdl /\ t1.row = [t.row EXCEPT ![i] = r]
  BY <1>1 DEF Tree
<1>5. /\ u.pidx = {IF Follows(t1, p, e) THEN [e EXCEPT !.row = new[e.item]] ELSE e : e \in t1.pidx}
      /\ u.row = new
  BY <1>1, <1>3 DEF ChangeIndexes, Tree
<1> HIDE DEF t1, new, u
<1>6. \A e \in t.pidx : e.item \in Item /\ e.item # i /\ IsIndexOf(t, e, e.item)
  BY <1>1 DEF IndexesAgree, Tree, PersistentIndex
<1>7. \A e \in t.pidx : t1.row[e.item] = t.row[e.item]
  BY <1>1, <1>4, <1>6 DEF Tree
<1>8. Moved(t, u, p)
  <2>1. \A e \in t.pidx :
          (IF Follows(t1, p, e) THEN [e EXCEPT !.row = new[e.item]] ELSE e)
          = (IF e.model = t.mdl[p] THEN [e EXCEPT !.row = u.row[e.item]] ELSE e)
    BY <1>4, <1>5, <1>6, <1>7 DEF Follows, IsIndexOf
  <2>2. QED
    BY <1>4, <1>5, <2>1 DEF Moved
<1>9. \A e \in t.pidx : u.row[e.item] = t.row[e.item] \/ t.mdl[e.item] = t.mdl[p]
  <2>1. ASSUME NEW j \in Item, j # i, t.mdl[j] # t.mdl[p]
        PROVE  u.row[j] = t.row[j]
    <3>1. CASE t.parent[j] = None
      <4>1. u.parent[j] = None
        BY <1>1, <1>2, <2>1, <3>1 DEF Tree
      <4>2. QED
        BY <1>1, <1>2, <3>1, <4>1 DEF ListsAgree
    <3>2. CASE t.parent[j] # None
      <4>1. t.parent[j] # p
        BY <2>1, <3>2 DEF ModelsFollow
      <4>2. u.row[j] = IF t.parent[j] = p /\ t.row[j] >= r THEN t.row[j] + 1 ELSE t.row[j]
        BY <2>1, <3>2, InsertChildRows DEF u
      <4>3. QED
        BY <4>1, <4>2
    <3>3. QED
      BY <3>1, <3>2
  <2>2. QED
    BY <1>6, <2>1
<1>10. IndexesAgree(u) /\ KeepsIndexes(t, u)
  BY <1>1, <1>2, <1>8, <1>9, MovedIndexes
<1>11. QED
  BY <1>10 DEF u

(* Every item is attached to the model whose root, rt[m], it hangs below,  *)
(* and the stored indexes are right.                                       *)
Attached(t, rt) ==
  /\ ModelsFollow(t, {}) /\ IndexesAgree(t)
  /\ \A j \in Item : t.parent[j] = None => \A m \in Model : t.mdl[j] = m <=> rt[m] = j
  /\ \A m \in Model : rt[m] # None => rt[m] \in Item /\ t.parent[rt[m]] = None

LEMMA SameAttached ==
  ASSUME NEW t, NEW u, NEW rt, Attached(t, rt),
         u.parent = t.parent, u.row = t.row, u.mdl = t.mdl, u.pidx = t.pidx
  PROVE  Attached(u, rt) /\ \A i : IndexesKept(t, u, i)
BY DEF Attached, ModelsFollow, IndexesAgree, IsIndexOf, IndexesKept

LEMMA RemoveItemAttached ==
  ASSUME NEW t, Whole(t), NEW rt, Attached(t, rt), NEW i \in Item, t.parent[i] # None
  PROVE  LET u == RemoveItem(t, i)
         IN  Attached(u, rt) /\ u.mdl[i] = None /\ IndexesKept(t, u, i)
<1>1. PICK t1 : t1 = SetModel(t, i, None)
  OBVIOUS
<1>2. PICK u : u = RemoveChild(t1, i)
  OBVIOUS
<1>3. /\ t \in Tree /\ ListsAgree(t) /\ t.parent \in [Item -> List \cup {None}]
      /\ None \notin Item \cup Model
  BY TreeAssumption DEF Whole, Tree
<1>4. Whole(t1) /\ t1.parent = t.parent
  BY <1>1, SetModelWhole
<1>5. /\ ModelsFollow(t1, {i}) /\ IndexesAgree(t1)
      /\ t1.mdl[i] = None
      /\ \A j \in Item : j # i /\ t.parent[j] = None => t1.mdl[j] = t.mdl[j]
      /\ \A e \in t.pidx : e \in t1.pidx \/ i \in Path(t, e.item)
  <2>1. ModelsFollow(t, {i}) /\ IndexesAgree(t)
    BY DEF Attached, ModelsFollow
  <2>2. QED
    BY <1>1, <1>3, <2>1, SetModelModels
<1>6. Whole(u) /\ u.parent = [t.parent EXCEPT ![i] = None]
  BY <1>2, <1>4, RemoveChildWhole
<1>7. u.mdl = t1.mdl
  <2>1. t1 \in Tree /\ ListsAgree(t1) /\ t1.parent[i] # None
    BY <1>4 DEF Whole
  <2>2. RemoveChild(t1, i).mdl = t1.mdl
    BY <2>1, RemoveChildFacts
  <2>3. QED
    BY <1>2, <2>2
<1>8. IndexesAgree(u) /\ KeepsIndexes(t1, u)
  BY <1>2, <1>4, <1>5, RemoveChildIndexes
<1>9. \A j \in Item : u.parent[j] = IF j = i THEN None ELSE t.parent[j]
  BY <1>3, <1>6
<1>10. ModelsFollow(u, {})
  BY <1>4, <1>5, <1>7, <1>9 DEF ModelsFollow
<1>11. ASSUME NEW j \in Item, u.parent[j] = None, NEW m \in Model
       PROVE  u.mdl[j] = m <=> rt[m] = j
  <2>1. CASE j = i
    BY <1>3, <1>5, <1>7, <2>1 DEF Attached
  <2>2. CASE j # i
    BY <1>5, <1>7, <1>9, <1>11, <2>2 DEF Attached
  <2>3. QED
    BY <2>1, <2>2
<1>12. \A m \in Model : rt[m] # None => rt[m] \in Item /\ u.parent[rt[m]] = None
  BY <1>9 DEF Attached
<1>13. Attached(u, rt)
  BY <1>8, <1>10, <1>11, <1>12 DEF Attached
<1>14. IndexesKept(t, u, i)
  BY <1>5, <1>8 DEF IndexesKept, KeepsIndexes
<1>15. u = RemoveItem(t, i)
  BY <1>1, <1>2 DEF RemoveItem
<1>16. QED
  BY <1>5, <1>7, <1>13, <1>14, <1>15

LEMMA DetachAttached ==
  ASSUME NEW t, Whole(t), NEW rt, Attached(t, rt), NEW i \in Item, \A m \in Model : rt[m] # i
  PROVE  LET u == Detach(t, i)
         IN  Attached(u, rt) /\ u.mdl[i] = None /\ IndexesKept(t, u, i)
<1>1. CASE t.parent[i] = None
  <2>1. t.mdl[i] \in Model \cup {None}
    BY DEF Whole, Tree
  <2>2. t.mdl[i] = None
    BY <1>1, <2>1 DEF Attached
  <2>3. QED
    BY <1>1, <2>2, SameAttached DEF Detach
<1>2. CASE t.parent[i] # None
  BY <1>2, RemoveItemAttached DEF Detach
<1>3. QED
  BY <1>1, <1>2

LEMMA InsertedAttached ==
  ASSUME NEW t, Whole(t), NEW rt, Attached(t, rt), NEW i \in Item, \A m \in Model : rt[m] # i,
         NEW p \in List, NEW pos \in Int, NEW u, Inserted(t, p, i, pos, u)
  PROVE  Attached(u, rt) /\ IndexesKept(t, u, i)
<1>1. PICK t1 : t1 = Detach(t, i)
  OBVIOUS
<1>2. PICK t2 : t2 = SetModel(t1, i, t1.mdl[p])
  OBVIOUS
<1>3. PICK t3 : t3 = Place(t, p, i, pos)
  OBVIOUS
<1>4. /\ Whole(t1) /\ t1.parent = [t.parent EXCEPT ![i] = None] /\ t1.parent[i] = None
      /\ t1.mdl[p] \in Model \cup {None}
      /\ Whole(t2) /\ t2.parent = t1.parent /\ t2.parent[i] = None
  BY <1>1, <1>2, PlaceFacts
<1>5. Attached(t1, rt) /\ t1.mdl[i] = None /\ IndexesKept(t, t1, i)
  BY <1>1, DetachAttached
<1>6. /\ t1 \in Tree /\ ListsAgree(t1) /\ t1.parent \in [Item -> List \cup {None}]
      /\ t.parent \in [Item -> List \cup {None}] /\ t1.pidx \subseteq PersistentIndex
      /\ None \notin Item \cup Model /\ List \subseteq Item /\ None \notin List
  BY <1>4, TreeAssumption DEF Whole, Tree
<1>7. /\ ModelsFollow(t2, {i}) /\ IndexesAgree(t2)
      /\ t2.pidx \subseteq t1.pidx
      /\ t2.mdl[i] = t1.mdl[p]
      /\ \A j \in Item : t2.mdl[j] = t1.mdl[j] \/ t2.mdl[j] = t1.mdl[p]
      /\ \A j \in Item : j # i /\ t1.parent[j] = None => t2.mdl[j] = t1.mdl[j]
      /\ \A e \in t1.pidx : e \in t2.pidx \/ i \in Path(t1, e.item)
  <2>1. ModelsFollow(t1, {i}) /\ IndexesAgree(t1)
    BY <1>5 DEF Attached, ModelsFollow
  <2>2. QED
    BY <1>2, <1>4, <1>6, <2>1, SetModelModels
<1>8. ModelsFollow(t2, {})
  BY <1>4, <1>7 DEF ModelsFollow
<1>9. \A e \in t2.pidx : e.item # i
  <2>1. ASSUME NEW e \in t1.pidx
        PROVE  e.item # i
    <3>1. e.model \in Model /\ IsIndexOf(t1, e, e.item)
      BY <1>5, <1>6 DEF PersistentIndex, Attached, IndexesAgree
    <3>2. e.model = t1.mdl[e.item]
      BY <3>1 DEF IsIndexOf
    <3>3. QED
      BY <1>5, <1>6, <3>1, <3>2
  <2>2. QED
    BY <1>7, <2>1
<1>10. PICK r \in 0 .. Len(t2.children[p]) : t3 = InsertChild(t2, p, i, r)
  <2>1. PutIn(t2, p, i, t3)
    BY <1>1, <1>2, <1>3, <1>4, PlaceInserts
  <2>2. QED
    BY <2>1 DEF PutIn
<1>11. IndexesAgree(t3) /\ KeepsIndexes(t2, t3)
  BY <1>4, <1>7, <1>8, <1>9, <1>10, InsertChildIndexes
<1>12. t3 \in Tree /\ t3.parent = [t2.parent EXCEPT ![i] = p] /\ t3.mdl = t2.mdl
  <2>0. t2.parent[i] = None
    BY <1>4
  <2>1. t2 \in Tree /\ ListsAgree(t2)
    BY <1>4 DEF Whole
  <2>2. LET w == InsertChild(t2, p, i, r)
        IN  /\ w \in Tree
            /\ ListsAgree(w)
            /\ w.parent = [t2.parent EXCEPT ![i] = p]
            /\ w.hash = t2.hash /\ w.name = t2.name /\ w.counter = t2.counter /\ w.mdl = t2.mdl
            /\ \A q \in List : Len(w.children[q]) =
                 IF q = p THEN Len(t2.children[q]) + 1 ELSE Len(t2.children[q])
    BY ONLY <2>0, <2>1, p \in List, i \in Item, r \in 0 .. Len(t2.children[p]), InsertChildFacts
  <2>3. QED
    BY <1>10, <2>2
<1>13. \A j \in Item : t3.parent[j] = IF j = i THEN p ELSE t1.parent[j]
  BY <1>4, <1>6, <1>12
<1>14. Attached(t3, rt)
  <2>1. t2.mdl[p] = t1.mdl[p] /\ p \in Item
    BY <1>6, <1>7
  <2>2. ModelsFollow(t3, {})
    BY <1>4, <1>7, <1>8, <1>12, <1>13, <2>1 DEF ModelsFollow
  <2>3. ASSUME NEW j \in Item, t3.parent[j] = None, NEW m \in Model
        PROVE  t3.mdl[j] = m <=> rt[m] = j
    <3>1. j # i /\ t1.parent[j] = None
      BY <1>6, <1>13, <2>3
    <3>2. QED
      BY <1>5, <1>7, <1>12, <3>1 DEF Attached
  <2>4. \A m \in Model : rt[m] # None => rt[m] \in Item /\ t3.parent[rt[m]] = None
    BY <1>5, <1>13 DEF Attached
  <2>5. QED
    BY <1>11, <2>2, <2>3, <2>4 DEF Attached
<1>15. IndexesKept(t, t3, i)
  <2>1. ASSUME NEW e \in t.pidx, i \notin Path(t, e.item)
        PROVE  \E f \in t3.pidx : f.model = e.model /\ f.item = e.item
    <3>1. PICK f \in t1.pidx : f.model = e.model /\ f.item = e.item
      BY <1>5, <2>1 DEF IndexesKept
    <3>2. Path(t1, f.item) \subseteq Path(t, f.item)
      <4>1. f.item \in Item /\ \A k \in Item : t1.parent[k] = t.parent[k] \/ t1.parent[k] = None
        BY <1>4, <1>6 DEF PersistentIndex
      <4>2. QED
        BY <1>6, <4>1, PathShrinks
    <3>3. f \in t2.pidx
      BY <1>7, <2>1, <3>1, <3>2
    <3>4. QED
      BY <1>11, <3>1, <3>3 DEF KeepsIndexes
  <2>2. QED
    BY <2>1 DEF IndexesKept
<1>16. PICK n \in Name : u = InsertName(t3, p, i, n)
  BY <1>3 DEF Inserted
<1>17. u.parent = t3.parent /\ u.row = t3.row /\ u.mdl = t3.mdl /\ u.pidx = t3.pidx
  BY <1>12, <1>16, InsertNameOthers
<1>18. QED
  BY <1>14, <1>15, <1>17, SameAttached DEF IndexesKept

(* An item is attached to the model of every item above it,                *)
LEMMA ModelOfPath ==
  ASSUME NEW t, t \in Tree, ModelsFollow(t, {}), NEW i \in Item, NEW j \in Path(t, i)
  PROVE  t.mdl[j] = t.mdl[i]
<1> DEFINE S == {k \in List : t.mdl[k] = t.mdl[i]}
<1>1. t.parent \in [Item -> List \cup {None}] /\ List \subseteq Item
  BY TreeAssumption DEF Tree
<1>2. S \in SUBSET List /\ \A k \in S \cup {i} : t.parent[k] \in S \cup {None}
  BY <1>1 DEF ModelsFollow
<1>3. Above(t, i) \subseteq S
  BY <1>2, AboveLeast
<1>4. QED
  BY <1>3 DEF Path

(* and hangs below the root of its model.                                  *)
LEMMA RootAbove ==
  ASSUME NEW t, t \in Tree, Acyclic(t), NEW rt, Attached(t, rt),
         NEW i \in Item, t.mdl[i] \in Model
  PROVE  rt[t.mdl[i]] \in Path(t, i)
<1>1. t.parent \in [Item -> List \cup {None}] /\ List \subseteq Item
  BY TreeAssumption DEF Tree
<1>2. CASE t.parent[i] = None
  BY <1>2 DEF Attached, Path
<1>3. CASE t.parent[i] # None
  <2>1. \A k \in Above(t, i) \cup {i} : t.parent[k] \in Above(t, i) \cup {None}
    BY <1>1, AboveClosed
  <2>2. t.parent[i] \in Above(t, i) /\ Above(t, i) \in SUBSET List
    BY <1>3, <2>1 DEF Above
  <2>3. PICK p \in Above(t, i) : t.parent[p] \notin Above(t, i)
    BY <2>2 DEF Acyclic
  <2>4. t.parent[p] = None /\ p \in Item /\ p \in Path(t, i)
    BY <1>1, <2>1, <2>2, <2>3 DEF Path
  <2>5. t.mdl[p] = t.mdl[i]
    BY <2>4, ModelOfPath DEF Attached
  <2>6. QED
    BY <2>4, <2>5 DEF Attached
<1>4. QED
  BY <1>2, <1>3

-----------------------------------------------------------------------------
(* Between two items of a drop there is a list to drop in and its row      *)
(* exists.                                                                 *)
DropReady ==
  drop.items # << >> =>
    /\ drop.target \in List
    /\ drop.row \in 0 .. Len(tree.children[drop.target])

(* The inductive invariant.  The lists need the names: a child that a      *)
(* script finds by its name is removed as one that is in a list.           *)
IInv ==
  /\ Whole(tree)
  /\ root \in [Model -> List \cup {None}]
  /\ drag \in [view : View \cup {None}, items : Seq(Item)]
  /\ drop \in [target : List \cup {None}, row : Nat, items : Seq(Item), done : Seq(Item)]
  /\ fault \in BOOLEAN
  /\ last \in [by : Initiator, item : Item \cup {None}]
  /\ DropReady

LEMMA InvTypes == IInv => TypeOK
BY DEF IInv, TypeOK, Whole

LEMMA InitInv == Init => IInv
<1> SUFFICES ASSUME Init PROVE IInv
  OBVIOUS
<1>1. tree = NewTree(InitName)
  BY DEF Init
<1>2. InitName \in [Item -> Raw]
  BY UserItemAssumption
<1>3. /\ tree.children = [p \in List |-> << >>]
      /\ tree.hash = [p \in List |-> [n \in Name |-> None]]
      /\ tree.counter = [p \in List |-> 1]
      /\ tree.name = InitName
      /\ tree.parent = [i \in Item |-> None]
      /\ tree.row = [i \in Item |-> -1]
      /\ tree.mdl = [i \in Item |-> None]
      /\ tree.pidx = {}
  BY <1>1 DEF NewTree
<1>4. tree \in Tree
  <2>1. 1 \in 1 .. MaxId + 1
    BY TreeAssumption
  <2>2. QED
    BY <1>1, <1>2, <2>1 DEF NewTree, Tree
<1>5. ListsAgree(tree)
  BY <1>3, TreeAssumption DEF ListsAgree
<1>6. NamesAgree(tree) /\ ChildNamesLegal(tree)
  BY <1>3, TreeAssumption DEF NamesAgree, ChildNamesLegal
<1>7. /\ root \in [Model -> List \cup {None}]
      /\ drag \in [view : View \cup {None}, items : Seq(Item)]
      /\ drop \in [target : List \cup {None}, row : Nat, items : Seq(Item), done : Seq(Item)]
      /\ fault \in BOOLEAN
      /\ last \in [by : Initiator, item : Item \cup {None}]
      /\ drop.items = << >>
  <2>1. root \in [Model -> List \cup {None}]
    BY DEF Init
  <2>2. << >> \in Seq(Item) /\ 0 \in Nat
    OBVIOUS
  <2>3. drag \in [view : View \cup {None}, items : Seq(Item)]
    BY <2>2 DEF Init, NoDrag
  <2>4. /\ drop \in [target : List \cup {None}, row : Nat, items : Seq(Item), done : Seq(Item)]
        /\ drop.items = << >>
    BY <2>2 DEF Init, NoDrop
  <2>5. fault \in BOOLEAN /\ last \in [by : Initiator, item : Item \cup {None}]
    BY DEF Init, Initiator
  <2>6. QED
    BY <2>1, <2>3, <2>4, <2>5
<1>8. QED
  BY <1>4, <1>5, <1>6, <1>7 DEF IInv, Whole, DropReady

-----------------------------------------------------------------------------
(* Steps outside of a drop.                                                *)

LEMMA IdleStep ==
  ASSUME IInv, drop = NoDrop, Whole(tree'), root' \in [Model -> List \cup {None}],
         drag' = drag, drop' = drop, fault' = fault,
         last' \in [by : Initiator, item : Item \cup {None}]
  PROVE  IInv'
BY DEF IInv, DropReady, NoDrop

LEMMA AssignNilStep ==
  ASSUME IInv, drop = NoDrop, NEW old \in Item, tree.parent[old] # None, AssignNil(old)
  PROVE  IInv'
<1>1. Whole(tree')
  <2>1. Whole(tree) /\ Whole(RemoveItem(tree, old))
    BY RemoveItemWhole DEF IInv
  <2>2. tree' = tree \/ tree' = RemoveItem(tree, old)
    BY DEF AssignNil, Deny
  <2>3. QED
    BY <2>1, <2>2
<1>2. last' \in [by : Initiator, item : Item \cup {None}]
  BY DEF AssignNil, Deny, Did, Initiator
<1>3. QED
  BY <1>1, <1>2, IdleStep DEF AssignNil, IInv

LEMMA AssignItemStep ==
  ASSUME IInv, drop = NoDrop, NEW p \in List, NEW i \in Item, NEW old \in Item \cup {None},
         old # None => tree.parent[old] # None,
         NEW key \in Raw \cup {None}, NEW pos \in Int,
         AssignItem(p, i, old, key, pos)
  PROVE  IInv'
<1> DEFINE t  == IF old = None THEN tree ELSE RemoveItem(tree, old)
           t1 == Detach(t, i)
           t2 == IF key = None THEN t1 ELSE WithName(t1, i, key)
<1>1. Whole(tree)
  BY DEF IInv
<1>2. Whole(t)
  BY <1>1, RemoveItemWhole
<1> HIDE DEF t
<1>3. Whole(t1) /\ t1.parent = [t.parent EXCEPT ![i] = None]
  BY <1>2, DetachWhole
<1>4. t \in Tree
  BY <1>2 DEF Whole
<1> HIDE DEF t1
<1>5. Whole(t2)
  <2>1. CASE key = None
    BY <1>3, <2>1
  <2>2. CASE key # None
    <3>1. key \in Raw /\ t1.parent[i] = None
      BY <2>2, <1>3, <1>4 DEF Tree
    <3>2. Renamed(t1, i, key, WithName(t1, i, key))
      BY <3>1 DEF Renamed
    <3>3. QED
      BY <2>2, <1>3, <3>1, <3>2, RenamedWhole
  <2>3. QED
    BY <2>1, <2>2
<1> HIDE DEF t2
<1>6. \/ tree' = tree
      \/ tree' = t
      \/ key # None /\ Renamed(t, i, key, tree')
      \/ Inserted(t2, p, i, pos, tree')
  BY DEF AssignItem, Deny, t, t1, t2
<1>7. Whole(tree')
  <2>1. CASE key # None /\ Renamed(t, i, key, tree')
    BY <2>1, <1>2, RenamedWhole
  <2>2. CASE Inserted(t2, p, i, pos, tree')
    BY <2>2, <1>5, InsertedWhole
  <2>3. QED
    BY <1>1, <1>2, <1>6, <2>1, <2>2
<1>8. last' \in [by : Initiator, item : Item \cup {None}]
  BY DEF AssignItem, Deny, Did, Initiator
<1>9. QED
  BY <1>7, <1>8, IdleStep DEF AssignItem, IInv

(* What a script finds under a name or a number is in the list.            *)
LEMMA FoundIsChild ==
  ASSUME IInv, NEW p \in List
  PROVE  /\ \A key \in Typed :
              LET old == Lookup(tree, p, key)
              IN  old # None => old \in Item /\ tree.parent[old] = p
         /\ \A c \in Int :
              LET old == ChildAt(p, c)
              IN  old # None => old \in Item /\ tree.parent[old] = p
<1>1. tree \in Tree /\ NamesAgree(tree) /\ ListsAgree(tree) /\ Typed \subseteq Raw
  BY UserItemAssumption DEF IInv, Whole
<1>2. ASSUME NEW key \in Typed, Lookup(tree, p, key) # None
      PROVE  Lookup(tree, p, key) \in Item /\ tree.parent[Lookup(tree, p, key)] = p
  <2>1. key \in Name /\ Lookup(tree, p, key) = tree.hash[p][key]
    BY <1>1, <1>2 DEF Lookup, Raw
  <2>2. tree.hash[p][key] \in Item
    BY <1>1, <1>2, <2>1 DEF Tree
  <2>3. QED
    BY <1>1, <2>1, <2>2 DEF NamesAgree
<1>3. ASSUME NEW c \in Int, ChildAt(p, c) # None
      PROVE  ChildAt(p, c) \in Item /\ tree.parent[ChildAt(p, c)] = p
  <2>1. c \in 1 .. Len(tree.children[p]) /\ ChildAt(p, c) = tree.children[p][c]
    BY <1>3 DEF ChildAt
  <2>2. tree.children[p] \in Seq(Item)
    BY <1>1 DEF Tree
  <2>3. QED
    BY <1>1, <2>1, <2>2 DEF ListsAgree
<1>4. QED
  BY <1>2, <1>3

(* Every edit keeps the inductive invariant: one step per action.          *)
LEMMA EditStep ==
  ASSUME IInv, Idle, Edit
  PROVE  IInv'
<1>0. drop = NoDrop
  BY DEF Idle
<1>1. Whole(tree) /\ tree \in Tree /\ root \in [Model -> List \cup {None}]
  BY DEF IInv, Whole
<1>2. None \notin Item \cup Model /\ List \subseteq Item /\ Typed \subseteq Raw
  BY TreeAssumption, UserItemAssumption
<1>3. ASSUME NEW i \in Item, NEW p \in List, NEW pos \in -1 .. Len(tree.children[p]),
             Insert(i, p, pos)
      PROVE  IInv'
  <2>1. pos \in Int
    OBVIOUS
  <2>2. Whole(tree')
    BY <1>1, <1>3, <2>1, InsertedWhole DEF Insert
  <2>3. QED
    BY <1>0, <1>1, <1>3, <2>2, IdleStep DEF Insert, Did, Initiator
<1>4. ASSUME NEW i \in Item, RemoveFromParent(i)
      PROVE  IInv'
  <2>1. Whole(tree')
    BY <1>1, <1>4, RemoveItemWhole DEF RemoveFromParent
  <2>2. QED
    BY <1>0, <1>1, <1>4, <2>1, IdleStep DEF RemoveFromParent, Did, Initiator
<1>5. ASSUME NEW i \in Item, NEW raw \in Typed, SetName(i, raw)
      PROVE  IInv'
  <2>1. Whole(tree')
    BY <1>1, <1>2, <1>5, RenamedWhole DEF SetName
  <2>2. QED
    BY <1>0, <1>1, <1>5, <2>1, IdleStep DEF SetName, Did, Initiator
<1>6. ASSUME NEW m \in Model, NEW r \in List, CreateModel(m, r)
      PROVE  IInv'
  <2>1. Whole(tree')
    BY <1>1, <1>2, <1>6, SetModelWhole DEF CreateModel
  <2>2. root' \in [Model -> List \cup {None}]
    BY <1>1, <1>6 DEF CreateModel
  <2>3. QED
    BY <1>0, <1>6, <2>1, <2>2, IdleStep DEF CreateModel, Did, Initiator
<1>7. ASSUME NEW m \in Model, DestroyModel(m)
      PROVE  IInv'
  <2> DEFINE t == SetModel(tree, root[m], None)
             px == {e \in t.pidx : e.model # m}
  <2>1. root[m] \in Item
    BY <1>1, <1>2, <1>7 DEF DestroyModel
  <2>2. Whole(t)
    BY <1>1, <2>1, SetModelWhole
  <2>3. tree' = [t EXCEPT !.pidx = px]
    BY <1>7 DEF DestroyModel, Tree
  <2> HIDE DEF t
  <2>4. t \in Tree
    BY <2>2 DEF Whole
  <2>5. /\ tree' \in Tree /\ tree'.children = t.children /\ tree'.hash = t.hash
        /\ tree'.name = t.name /\ tree'.parent = t.parent /\ tree'.row = t.row
    BY <2>3, <2>4 DEF Tree
  <2>6. Whole(tree')
    BY <2>2, <2>5, SameLinks
  <2>7. root' \in [Model -> List \cup {None}]
    BY <1>1, <1>7 DEF DestroyModel
  <2>8. QED
    BY <1>0, <1>7, <2>6, <2>7, IdleStep DEF DestroyModel, Did, Initiator
<1>8. ASSUME NEW p \in List, ScriptRemove(p)
      PROVE  IInv'
  <2>1. PICK old \in Item : tree.parent[old] = p /\ AssignNil(old)
    <3>1. CASE \E key \in Typed :
                 Lookup(tree, p, key) # None /\ AssignNil(Lookup(tree, p, key))
      BY <3>1, FoundIsChild
    <3>2. CASE \E c \in 1 .. Len(tree.children[p]) : AssignNil(ChildAt(p, c))
      <4>1. PICK c \in 1 .. Len(tree.children[p]) : AssignNil(ChildAt(p, c))
        BY <3>2
      <4>2. ChildAt(p, c) # None
        BY <1>1, <1>2 DEF ChildAt, Tree
      <4>3. QED
        BY <4>1, <4>2, FoundIsChild
    <3>3. QED
      BY <1>8, <3>1, <3>2 DEF ScriptRemove
  <2>2. QED
    BY <1>0, <1>2, <2>1, AssignNilStep
<1>9. ASSUME NEW p \in List, NEW i \in Item, ScriptAssign(p, i)
      PROVE  IInv'
  <2>1. ASSUME NEW key \in Typed, AssignItem(p, i, Lookup(tree, p, key), key, -1)
        PROVE  IInv'
    <3>1. PICK old \in Item \cup {None} : /\ old = Lookup(tree, p, key)
                                          /\ old # None => tree.parent[old] # None
      BY <1>2, FoundIsChild
    <3>2. key \in Raw \cup {None}
      BY <1>2
    <3>3. QED
      BY <1>0, <2>1, <3>1, <3>2, AssignItemStep
  <2>2. ASSUME NEW c \in 0 .. Len(tree.children[p]) + 1,
               AssignItem(p, i, ChildAt(p, c), None, c - 1)
        PROVE  IInv'
    <3>1. PICK old \in Item \cup {None} : /\ old = ChildAt(p, c)
                                          /\ old # None => tree.parent[old] # None
      BY <1>2, FoundIsChild
    <3>2. c - 1 \in Int
      OBVIOUS
    <3>3. QED
      BY <1>0, <2>2, <3>1, <3>2, AssignItemStep
  <2>3. QED
    BY <1>9, <2>1, <2>2 DEF ScriptAssign
<1>10. ASSUME NEW v \in View, NEW i \in Item, NEW raw \in Typed, EditName(v, i, raw)
       PROVE  IInv'
  <2>1. Whole(tree')
    BY <1>1, <1>2, <1>10, RenamedWhole DEF EditName
  <2>2. QED
    BY <1>0, <1>1, <1>10, <2>1, IdleStep DEF EditName, Did, Initiator
<1>11. ASSUME NEW v \in View, NEW i \in Item, StoreIndex(v, i)
       PROVE  IInv'
  <2> DEFINE e == [model |-> Shows[v], item |-> i, row |-> tree.row[i]]
  <2>1. i # root[Shows[v]] /\ InParentPath(tree, i, root[Shows[v]])
    BY <1>11 DEF StoreIndex, Shown
  <2>2. tree.row[i] \in Nat
    <3>1. tree.parent[i] # None
      <4>1. ASSUME tree.parent[i] = None
            PROVE  Above(tree, i) = {}
        <5>1. \A k \in {} \cup {i} : tree.parent[k] \in {} \cup {None}
          BY <4>1
        <5>2. {} \in SUBSET List
          OBVIOUS
        <5>3. ASSUME NEW q \in Above(tree, i)
              PROVE  FALSE
          <6>1. \A S \in SUBSET List :
                  (\A k \in S \cup {i} : tree.parent[k] \in S \cup {None}) => q \in S
            BY DEF Above
          <6>2. QED
            BY <5>1, <5>2, <6>1
        <5>4. QED
          BY <5>3
      <4>2. QED
        BY <2>1, <4>1 DEF InParentPath, Path
    <3>2. QED
      BY <1>1, <3>1 DEF Whole, ListsAgree, Tree
  <2>3. e \in PersistentIndex
    BY <2>2, UserItemAssumption DEF PersistentIndex
  <2>4. tree' = [tree EXCEPT !.pidx = tree.pidx \cup {e}]
    BY <1>11 DEF StoreIndex, Tree
  <2> HIDE DEF e
  <2>5. /\ tree' \in Tree /\ tree'.children = tree.children /\ tree'.hash = tree.hash
        /\ tree'.name = tree.name /\ tree'.parent = tree.parent /\ tree'.row = tree.row
    BY <1>1, <2>3, <2>4 DEF Tree
  <2>6. Whole(tree')
    BY <1>1, <2>5, SameLinks
  <2>7. last' \in [by : Initiator, item : Item \cup {None}]
    BY <1>11 DEF StoreIndex, IInv
  <2>8. QED
    BY <1>0, <1>1, <1>11, <2>6, <2>7, IdleStep DEF StoreIndex
<1>12. QED
  BY <1>3, <1>4, <1>5, <1>6, <1>7, <1>8, <1>9, <1>10, <1>11 DEF Edit

-----------------------------------------------------------------------------
(* Drags and drops.                                                        *)

LEMMA DragStep ==
  ASSUME IInv, Idle, DragAndDrop
  PROVE  IInv'
<1>0. drop = NoDrop
  BY DEF Idle
<1>1. Whole(tree) /\ tree \in Tree
  BY DEF IInv, Whole
<1>2. ASSUME NEW v \in View, NEW s \in Selections, StartDrag(v, s)
      PROVE  IInv'
  <2>1. s \in Seq(Item)
    <3>1. ASSUME NEW i \in Item, NEW j \in Item
          PROVE  <<i>> \in Seq(Item) /\ <<i, j>> \in Seq(Item)
      OBVIOUS
    <3>2. (\E i \in Item : s = <<i>>) \/ (\E i, j \in Item : s = <<i, j>>)
      BY DEF Selections
    <3>3. QED
      BY <3>1, <3>2
  <2>2. drag' \in [view : View \cup {None}, items : Seq(Item)]
    BY <1>2, <2>1 DEF StartDrag
  <2>3. QED
    BY <1>2, <2>2 DEF StartDrag, IInv, DropReady
<1>3. ASSUME CancelDrag
      PROVE  IInv'
  <2>1. << >> \in Seq(Item)
    OBVIOUS
  <2>2. QED
    BY <1>3, <2>1 DEF CancelDrag, IInv, DropReady, NoDrag
<1>4. ASSUME NEW v \in View, NEW p \in List, NEW row \in -1 .. Len(tree.children[p]),
             Drop(v, p, row)
      PROVE  IInv'
  <2> DEFINE r == IF row < 0 THEN 0 ELSE row
  <2>1. Len(tree.children[p]) \in Nat
    BY <1>1 DEF Tree
  <2>2. r \in 0 .. Len(tree.children[p]) /\ r \in Nat
    BY <2>1
  <2>3. drop' = [target |-> p, row |-> r, items |-> drag.items, done |-> << >>]
    BY <1>4 DEF Drop
  <2> HIDE DEF r
  <2>4. drag.items \in Seq(Item) /\ << >> \in Seq(Item)
    BY DEF IInv
  <2>5. drop' \in [target : List \cup {None}, row : Nat, items : Seq(Item), done : Seq(Item)]
    BY <2>2, <2>3, <2>4
  <2>6. DropReady'
    BY <1>4, <2>2, <2>3 DEF DropReady, Drop
  <2>7. drag' \in [view : View \cup {None}, items : Seq(Item)]
    BY <1>4, <2>4 DEF Drop, NoDrag
  <2>8. QED
    BY <1>4, <2>5, <2>6, <2>7 DEF IInv, Drop
<1>5. ASSUME NEW v \in View, NEW p \in List, NEW i \in Item,
             NEW row \in -1 .. Len(tree.children[p]), DropExternal(v, p, row, i)
      PROVE  IInv'
  <2> DEFINE r == IF row < 0 THEN 0 ELSE row
  <2>1. r \in Int /\ Inserted(tree, p, i, r, tree')
    BY <1>5 DEF DropExternal
  <2> HIDE DEF r
  <2>2. Whole(tree')
    BY <1>1, <2>1, InsertedWhole
  <2>3. root \in [Model -> List \cup {None}]
    BY DEF IInv
  <2>4. QED
    BY <1>0, <1>5, <2>2, <2>3, IdleStep DEF DropExternal, Did, Initiator
<1>6. QED
  BY <1>2, <1>3, <1>4, <1>5 DEF DragAndDrop

(* The corrected row is one of the target, once the item has left.         *)
LEMMA DropRowFits ==
  ASSUME IInv, drop.items # << >>, NEW i, i = Head(drop.items), tree.parent[i] # None,
         NEW t1, t1 = RemoveChild(tree, i)
  PROVE  i \in Item /\ DropRow(i) \in 0 .. Len(t1.children[drop.target])
<1> DEFINE p == tree.parent[i]
           target == drop.target
           row == DropRow(i)
<1>1. /\ Whole(tree) /\ tree \in Tree /\ drop.items \in Seq(Item)
      /\ target \in List /\ drop.row \in 0 .. Len(tree.children[target])
  BY DEF IInv, Whole, DropReady
<1>2. i \in Item
  BY <1>1
<1>3. /\ Whole(t1)
      /\ \A q \in List : Len(t1.children[q]) =
           IF q = p THEN Len(tree.children[q]) - 1 ELSE Len(tree.children[q])
  <2>1. LET u == RemoveChild(tree, i)
        IN  /\ Whole(u)
            /\ u.parent = [tree.parent EXCEPT ![i] = None]
            /\ \A q \in List : Len(u.children[q]) =
                 IF q = tree.parent[i]
                 THEN Len(tree.children[q]) - 1 ELSE Len(tree.children[q])
    BY <1>1, <1>2, RemoveChildWhole
  <2>2. QED
    BY <2>1
<1>4. row \in 0 .. Len(t1.children[target])
  <2>1. /\ Len(tree.children[target]) \in Nat /\ drop.row \in Nat
        /\ drop.row <= Len(tree.children[target])
        /\ Len(t1.children[target]) =
             IF target = p THEN Len(tree.children[target]) - 1 ELSE Len(tree.children[target])
    BY <1>1, <1>3 DEF Tree
  <2>2. CASE p = target
    <3>1. tree.row[i] + 1 \in 1 .. Len(tree.children[target]) /\ tree.row[i] \in Nat \cup {-1}
      BY <1>1, <1>2, <2>2 DEF Whole, ListsAgree, Tree
    <3>2. tree.row[i] \in Nat /\ tree.row[i] <= Len(tree.children[target]) - 1
      BY <2>1, <3>1
    <3>3. row = IF drop.row > tree.row[i] THEN drop.row - 1 ELSE drop.row
      BY <2>2 DEF DropRow
    <3>i. drop.row <= tree.row[i] \/ drop.row > tree.row[i]
      BY <2>1, <3>2
    <3>4. Len(t1.children[target]) = Len(tree.children[target]) - 1
      BY <2>1, <2>2
    <3> HIDE DEF row, target
    <3>5. CASE drop.row > tree.row[i]
      <4>1. row = drop.row - 1 /\ drop.row >= 1
        BY <2>1, <3>2, <3>3, <3>5
      <4>2. QED
        BY <2>1, <3>4, <4>1
    <3>6. CASE drop.row <= tree.row[i]
      <4>1. row = drop.row
        BY <2>1, <3>2, <3>3, <3>6
      <4>2. QED
        BY <2>1, <3>2, <3>4, <3>6, <4>1
    <3>7. QED
      BY <3>i, <3>5, <3>6
  <2>3. CASE p # target
    <3>1. row = drop.row /\ Len(t1.children[target]) = Len(tree.children[target])
      BY <2>1, <2>3 DEF DropRow
    <3> HIDE DEF row, target
    <3>2. QED
      BY <2>1, <3>1
  <2>4. QED
    BY <2>2, <2>3
<1>5. QED
  BY <1>2, <1>4

(* One item of a drop: it leaves its list, which may be the target, before *)
(* it is put in the target at the corrected row.                           *)
LEMMA DropItemStep ==
  ASSUME IInv, DropItem
  PROVE  IInv'
<1> DEFINE i == Head(drop.items)
           p == tree.parent[i]
           target == drop.target
           row == DropRow(i)
           t1 == RemoveChild(tree, i)
           t == InsertChild(t1, target, i, row)
<1>1. /\ Whole(tree) /\ tree \in Tree
      /\ drop.items \in Seq(Item) /\ drop.items # << >>
      /\ drop \in [target : List \cup {None}, row : Nat, items : Seq(Item), done : Seq(Item)]
      /\ target \in List /\ drop.row \in 0 .. Len(tree.children[target])
      /\ root \in [Model -> List \cup {None}]
      /\ drag \in [view : View \cup {None}, items : Seq(Item)]
  BY DEF IInv, Whole, DropItem, DropReady
<1>2. i \in Item /\ Tail(drop.items) \in Seq(Item)
  BY <1>1
<1>3. root' = root /\ drag' = drag
  BY DEF DropItem
<1>4. CASE /\ drop' = [drop EXCEPT !.items = Tail(drop.items)]
           /\ UNCHANGED <<tree, fault, last>>
  <2>1. /\ drop'.target = drop.target /\ drop'.row = drop.row
        /\ drop' \in [target : List \cup {None}, row : Nat, items : Seq(Item), done : Seq(Item)]
    BY <1>1, <1>2, <1>4
  <2>2. DropReady'
    BY <1>1, <1>4, <2>1 DEF DropReady
  <2>3. QED
    BY <1>3, <1>4, <2>1, <2>2 DEF IInv
<1>5. CASE fault' = TRUE /\ UNCHANGED <<tree, drop, last>>
  BY <1>3, <1>5 DEF IInv, DropReady
<1>6. CASE /\ p # None
           /\ \E n \in Name : ChosenName(t, target, i, n) /\ tree' = InsertName(t, target, i, n)
           /\ drop' = [drop EXCEPT !.items = Tail(drop.items), !.row = row + 1,
                                   !.done = Append(drop.done, i)]
           /\ Did("drop", i)
           /\ UNCHANGED fault
  <2>1. /\ Whole(t1)
        /\ \A q \in List : Len(t1.children[q]) =
             IF q = p THEN Len(tree.children[q]) - 1 ELSE Len(tree.children[q])
    BY <1>1, <1>2, <1>6, RemoveChildWhole
  <2>2. row \in 0 .. Len(t1.children[target])
    BY <1>1, <1>6, DropRowFits
  <2>3. PICK n \in Name : ChosenName(t, target, i, n) /\ tree' = InsertName(t, target, i, n)
    BY <1>6
  <2>4. Whole(tree') /\ Len(tree'.children[target]) = Len(t1.children[target]) + 1
    <3>1. /\ Whole(tree) /\ i \in Item /\ tree.parent[i] # None /\ target \in List
          /\ t1 = RemoveChild(tree, i) /\ row \in 0 .. Len(t1.children[target])
          /\ t = InsertChild(t1, target, i, row) /\ ChosenName(t, target, i, n)
          /\ tree' = InsertName(t, target, i, n)
      BY <1>1, <1>2, <1>6, <2>2, <2>3
    <3> HIDE DEF i, target, row, t1, t
    <3>2. QED
      BY <3>1, MovedWhole
  <2> HIDE DEF t1, row
  <2>5. Len(t1.children[target]) \in Nat
    BY <1>1, <2>1 DEF Whole, Tree
  <2>6. row + 1 \in 0 .. Len(tree'.children[target]) /\ row + 1 \in Nat
    BY <2>2, <2>4, <2>5
  <2>7. Append(drop.done, i) \in Seq(Item)
    BY <1>1, <1>2
  <2>8. /\ drop'.target = target /\ drop'.row = row + 1
        /\ drop' \in [target : List \cup {None}, row : Nat, items : Seq(Item), done : Seq(Item)]
    BY <1>1, <1>2, <1>6, <2>6, <2>7
  <2>9. DropReady'
    BY <1>1, <2>6, <2>8 DEF DropReady
  <2>10. last' \in [by : Initiator, item : Item \cup {None}]
    BY <1>2, <1>6 DEF Did, Initiator
  <2>11. QED
    BY <1>3, <1>6, <2>4, <2>8, <2>9, <2>10 DEF IInv
<1>7. QED
  BY <1>4, <1>5, <1>6 DEF DropItem

LEMMA DropEndStep ==
  ASSUME IInv, DropEnd
  PROVE  IInv'
<1>1. << >> \in Seq(Item) /\ 0 \in Nat
  OBVIOUS
<1>2. drop' \in [target : List \cup {None}, row : Nat, items : Seq(Item), done : Seq(Item)]
  BY <1>1 DEF DropEnd, NoDrop
<1>3. QED
  BY <1>2 DEF DropEnd, IInv, DropReady, NoDrop

-----------------------------------------------------------------------------
LEMMA InvStep == IInv /\ [Next \/ EditNext]_vars => IInv'
<1> SUFFICES ASSUME IInv, [Next \/ EditNext]_vars
             PROVE  IInv'
  OBVIOUS
<1>1. CASE Idle /\ Edit
  BY <1>1, EditStep
<1>2. CASE Idle /\ DragAndDrop
  BY <1>2, DragStep
<1>3. CASE DropItem
  BY <1>3, DropItemStep
<1>4. CASE DropEnd
  BY <1>4, DropEndStep
<1>5. CASE UNCHANGED vars
  BY <1>5 DEF vars, IInv, DropReady
<1>6. QED
  BY <1>1, <1>2, <1>3, <1>4, <1>5 DEF Next, EditNext

THEOREM Invariance == Spec => []IInv
<1>1. IInv /\ [Next]_vars => IInv'
  BY InvStep
<1>2. QED
  BY InitInv, <1>1, PTL DEF Spec

(* Every value the program computes is of its type: insert and DropItem    *)
(* compute rows that exist, and views only store rows of items in a list.  *)
THEOREM TypeCorrect == Spec => []TypeOK
BY Invariance, InvTypes, PTL

(* The parent and row pointers agree with the child lists in every state,  *)
(* between two items of a drop too: remove_child and the views may use row *)
(* as an index.                                                            *)
THEOREM ListsStayConsistent == Spec => []ListsConsistent
<1>1. IInv => ListsConsistent
  BY DEF IInv, Whole, ListsConsistent
<1>2. QED
  BY Invariance, <1>1, PTL

(* Two children of a list never have one name, and the index of a list     *)
(* never leads a script to an item that has left it: for any number of     *)
(* items, and also if items are dragged in the meantime.                   *)
THEOREM NamesStayConsistent == Spec => []NamesConsistent
<1>1. IInv => NamesConsistent
  BY DEF IInv, Whole, NamesConsistent
<1>2. QED
  BY Invariance, <1>1, PTL

-----------------------------------------------------------------------------
(***************************************************************************)
(* What the handlers leave alone: the names, the order and the stored      *)
(* indexes of the items they are not called for, what may not be moved,    *)
(* the trees being trees, the place of a drop, the models of the items.    *)
(***************************************************************************)
-----------------------------------------------------------------------------
(* The cases of Edit.                                                      *)

(* What scripts are asked for, by what they find under the key.            *)
Found(old) == old # None => tree.parent[old] # None

LEMMA EditCases ==
  ASSUME IInv, Edit
  PROVE  \/ \E i \in Item, p \in List, pos \in Int : Insert(i, p, pos)
         \/ \E i \in Item : RemoveFromParent(i)
         \/ \E i \in Item, raw \in Raw : SetName(i, raw)
         \/ \E m \in Model, r \in List : CreateModel(m, r)
         \/ \E m \in Model : DestroyModel(m)
         \/ \E old \in Item : tree.parent[old] # None /\ AssignNil(old)
         \/ \E p \in List, i \in Item, old \in Item \cup {None}, key \in Raw \cup {None}, pos \in Int :
              Found(old) /\ AssignItem(p, i, old, key, pos)
         \/ \E v \in View, i \in Item, raw \in Raw : EditName(v, i, raw)
         \/ \E v \in View, i \in Item : StoreIndex(v, i)
<1>1. None \notin Item \cup Model /\ List \subseteq Item /\ Typed \subseteq Raw
  BY TreeAssumption, UserItemAssumption
<1>2. ASSUME NEW p \in List, ScriptRemove(p)
      PROVE  \E old \in Item : tree.parent[old] # None /\ AssignNil(old)
  <2>1. CASE \E key \in Typed :
               Lookup(tree, p, key) # None /\ AssignNil(Lookup(tree, p, key))
    BY <2>1, <1>1, FoundIsChild
  <2>2. CASE \E c \in 1 .. Len(tree.children[p]) : AssignNil(ChildAt(p, c))
    <3>1. PICK c \in 1 .. Len(tree.children[p]) : AssignNil(ChildAt(p, c))
      BY <2>2
    <3>2. ChildAt(p, c) # None
      BY <1>1 DEF ChildAt, IInv, Whole, Tree
    <3>3. QED
      BY <3>1, <3>2, <1>1, FoundIsChild
  <2>3. QED
    BY <1>2, <2>1, <2>2 DEF ScriptRemove
<1>3. ASSUME NEW p \in List, NEW i \in Item, ScriptAssign(p, i)
      PROVE  \E old \in Item \cup {None}, key \in Raw \cup {None}, pos \in Int :
               Found(old) /\ AssignItem(p, i, old, key, pos)
  <2>1. ASSUME NEW key \in Typed, AssignItem(p, i, Lookup(tree, p, key), key, -1)
        PROVE  \E old \in Item \cup {None}, k \in Raw \cup {None}, pos \in Int :
                 Found(old) /\ AssignItem(p, i, old, k, pos)
    <3>1. PICK old \in Item \cup {None} : old = Lookup(tree, p, key) /\ Found(old)
      BY <1>1, FoundIsChild DEF Found
    <3>2. key \in Raw \cup {None} /\ -1 \in Int
      BY <1>1
    <3>3. QED
      BY <2>1, <3>1, <3>2
  <2>2. ASSUME NEW c \in 0 .. Len(tree.children[p]) + 1,
               AssignItem(p, i, ChildAt(p, c), None, c - 1)
        PROVE  \E old \in Item \cup {None}, k \in Raw \cup {None}, pos \in Int :
                 Found(old) /\ AssignItem(p, i, old, k, pos)
    <3>1. PICK old \in Item \cup {None} : old = ChildAt(p, c) /\ Found(old)
      BY <1>1, FoundIsChild DEF Found
    <3>2. None \in Raw \cup {None} /\ c - 1 \in Int
      OBVIOUS
    <3>3. QED
      BY <2>2, <3>1, <3>2
  <2>3. QED
    BY <1>3, <2>1, <2>2 DEF ScriptAssign
<1>4. ASSUME NEW p \in List, NEW k \in -1 .. Len(tree.children[p])
      PROVE  k \in Int
  OBVIOUS
<1>5. CASE \E i \in Item, p \in List : \E pos \in -1 .. Len(tree.children[p]) : Insert(i, p, pos)
  BY <1>4, <1>5
<1>6. CASE \E i \in Item, raw \in Typed : SetName(i, raw)
  BY <1>1, <1>6
<1>7. CASE \E v \in View, i \in Item, raw \in Typed : EditName(v, i, raw)
  BY <1>1, <1>7
<1>8. CASE \E p \in List : ScriptRemove(p)
  BY <1>2, <1>8
<1>9. CASE \E p \in List, i \in Item : ScriptAssign(p, i)
  BY <1>3, <1>9
<1>10. QED
  BY <1>5, <1>6, <1>7, <1>8, <1>9 DEF Edit

(* The destructor of a model touches the models and the indexes only.      *)
LEMMA DestroyFacts ==
  ASSUME IInv, NEW m \in Model, DestroyModel(m)
  PROVE  LET t == SetModel(tree, root[m], None)
         IN  /\ root[m] \in List /\ t \in Tree
             /\ tree'.children = tree.children /\ tree'.name = tree.name
             /\ tree'.parent = tree.parent /\ tree'.row = tree.row
             /\ tree'.mdl = t.mdl /\ tree'.pidx = {e \in t.pidx : e.model # m}
<1> DEFINE t == SetModel(tree, root[m], None)
           px == {e \in t.pidx : e.model # m}
<1>1. root[m] \in List /\ root[m] \in Item /\ tree \in Tree
  BY TreeAssumption DEF DestroyModel, IInv, Whole
<1>2. /\ t \in Tree /\ t.children = tree.children
      /\ t.name = tree.name /\ t.parent = tree.parent /\ t.row = tree.row
  BY <1>1, SetModelFacts
<1>3. tree' = [t EXCEPT !.pidx = px]
  BY <1>2 DEF DestroyModel, Tree
<1> HIDE DEF t
<1>4. /\ tree'.children = t.children /\ tree'.name = t.name
      /\ tree'.parent = t.parent /\ tree'.row = t.row
      /\ tree'.mdl = t.mdl /\ tree'.pidx = px
  BY <1>2, <1>3 DEF Tree
<1>5. QED
  BY <1>1, <1>2, <1>4 DEF t

(* The outcomes of p[key] = i: t is the tree without the child in the way, *)
(* t2 that one without i, renamed if the key is a string.                  *)
AssignOutcome(p, i, old, key, pos, t, t1, t2) ==
  /\ i \in Movable /\ Whole(t) /\ Whole(t1) /\ Whole(t2)
  /\ t.parent = IF old = None THEN tree.parent ELSE [tree.parent EXCEPT ![old] = None]
  /\ t1.parent = [t.parent EXCEPT ![i] = None]
  /\ /\ t2.children = t1.children /\ t2.parent = t1.parent /\ t2.row = t1.row
     /\ t2.mdl = t1.mdl /\ t2.pidx = t1.pidx /\ OthersKeptNamed(t1, t2, i)
  /\ last'.item = i
  /\ \/ last'.by = "denied" /\ tree' = tree
     \/ /\ old \notin NoReplace /\ ~ InParentPath(tree, p, i)
        /\ \/ last'.by = "denied" /\ tree' = t
           \/ last'.by = "assign" /\ key \in Raw /\ Renamed(t, i, key, tree')
           \/ /\ last'.by = "assign" /\ Inserted(t2, p, i, pos, tree')
              /\ t.parent[i] = p \/ ~ MoveDenied(p, i)

LEMMA AssignCases ==
  ASSUME IInv, NEW p \in List, NEW i \in Item, NEW old \in Item \cup {None}, Found(old),
         NEW key \in Raw \cup {None}, NEW pos \in Int,
         AssignItem(p, i, old, key, pos),
         NEW t, t = IF old = None THEN tree ELSE RemoveItem(tree, old),
         NEW t1, t1 = Detach(t, i),
         NEW t2, t2 = IF key = None THEN t1 ELSE WithName(t1, i, key)
  PROVE  AssignOutcome(p, i, old, key, pos, t, t1, t2)
<1>1. Whole(tree)
  BY DEF IInv
<1>2. Whole(t) /\ t.parent = IF old = None THEN tree.parent ELSE [tree.parent EXCEPT ![old] = None]
  BY <1>1, RemoveItemWhole DEF Found
<1>3. Whole(t1) /\ t1.parent = [t.parent EXCEPT ![i] = None]
  BY <1>2, DetachWhole
<1>4. /\ Whole(t2)
      /\ t2.children = t1.children /\ t2.parent = t1.parent /\ t2.row = t1.row
      /\ t2.mdl = t1.mdl /\ t2.pidx = t1.pidx /\ OthersKeptNamed(t1, t2, i)
  <2>1. CASE key = None
    BY <1>3, <2>1 DEF OthersKeptNamed
  <2>2. CASE key # None
    <3>1. key \in Raw /\ t1.parent[i] = None
      BY <2>2, <1>2, <1>3 DEF Whole, Tree
    <3>2. t2 = WithName(t1, i, key) /\ Renamed(t1, i, key, t2)
      BY <2>2, <3>1 DEF Renamed
    <3>3. QED
      BY <1>3, <3>1, <3>2, RenamedWhole, RenamedOthers
  <2>3. QED
    BY <2>1, <2>2
<1>5. /\ i \in Movable /\ last'.item = i
      /\ \/ last'.by = "denied" /\ tree' = tree
         \/ /\ old \notin NoReplace /\ ~ InParentPath(tree, p, i)
            /\ \/ last'.by = "denied" /\ tree' = t
               \/ last'.by = "assign" /\ key \in Raw /\ Renamed(t, i, key, tree')
               \/ /\ last'.by = "assign" /\ Inserted(t2, p, i, pos, tree')
                  /\ t.parent[i] = p \/ ~ MoveDenied(p, i)
  BY DEF AssignItem, Deny, Did
<1>6. QED
  BY <1>2, <1>3, <1>4, <1>5 DEF AssignOutcome

-----------------------------------------------------------------------------
(* Names and order.                                                        *)

NamesStep == \A i \in Item : tree'.name[i] # tree.name[i] => last'.item = i

OrderStep ==
  \A i, j \in Item \ {last'.item} :
    /\ tree.parent[i] # None /\ tree.parent[i] = tree.parent[j]
    /\ tree'.parent[i] = tree.parent[i] /\ tree'.parent[j] = tree.parent[j]
    => (tree.row[i] < tree.row[j] <=> tree'.row[i] < tree'.row[j])

(* Enough for a handler called for i.                                      *)
LEMMA OthersUntouched ==
  ASSUME NEW i \in Item, last'.item = i,
         OthersStay(tree, tree', {i}), OthersKeptNamed(tree, tree', i)
  PROVE  NamesStep /\ OrderStep
BY DEF NamesStep, OrderStep, OthersStay, OthersKeptNamed

LEMMA NothingMoves ==
  ASSUME tree'.name = tree.name, tree'.parent = tree.parent, tree'.row = tree.row
  PROVE  NamesStep /\ OrderStep
BY DEF NamesStep, OrderStep

LEMMA AssignOthers ==
  ASSUME IInv, NEW p \in List, NEW i \in Item, NEW old \in Item \cup {None}, Found(old),
         NEW key \in Raw \cup {None}, NEW pos \in Int,
         AssignItem(p, i, old, key, pos)
  PROVE  NamesStep /\ OrderStep
<1>1. PICK t : t = IF old = None THEN tree ELSE RemoveItem(tree, old)
  OBVIOUS
<1>2. PICK t1 : t1 = Detach(t, i)
  OBVIOUS
<1>3. PICK t2 : t2 = IF key = None THEN t1 ELSE WithName(t1, i, key)
  OBVIOUS
<1>4. /\ Whole(t) /\ Whole(t2)
      /\ t.parent = IF old = None THEN tree.parent ELSE [tree.parent EXCEPT ![old] = None]
      /\ t1.parent = [t.parent EXCEPT ![i] = None]
      /\ t2.parent = t1.parent /\ t2.row = t1.row /\ OthersKeptNamed(t1, t2, i)
      /\ last'.item = i
      /\ \/ tree' = tree
         \/ tree' = t
         \/ key \in Raw /\ Renamed(t, i, key, tree')
         \/ Inserted(t2, p, i, pos, tree')
  <2>1. AssignOutcome(p, i, old, key, pos, t, t1, t2)
    BY <1>1, <1>2, <1>3, AssignCases
  <2>2. QED
    BY <2>1 DEF AssignOutcome
<1>5. Whole(tree) /\ tree.parent \in [Item -> List \cup {None}]
  BY DEF IInv, Whole, Tree
<1> DEFINE X == {i, old}
<1>6. OthersStay(tree, t, X) /\ t.name = tree.name
  <2>1. CASE old = None
    BY <1>1, <2>1, SameStay
  <2>2. CASE old # None
    <3>1. OthersStay(tree, t, {old}) /\ t.name = tree.name
      BY <1>1, <1>5, <2>2, RemoveItemOthers DEF Found
    <3>2. QED
      BY <3>1, OthersStayMore
  <2>3. QED
    BY <2>1, <2>2
<1>7. \/ OthersStay(t, tree', X) /\ OthersKeptNamed(t, tree', i)
      \/ tree' = tree
  <2>1. CASE tree' = t
    BY <2>1, SameStay DEF OthersKeptNamed
  <2>2. CASE key \in Raw /\ Renamed(t, i, key, tree')
    BY <1>4, <2>2, RenamedOthers, SameStay
  <2>3. CASE Inserted(t2, p, i, pos, tree')
    <3>1. OthersStay(t, t1, {i}) /\ t1.name = t.name
      BY <1>2, <1>4, DetachOthers
    <3>2. OthersStay(t1, t2, {i})
      BY <1>4, SameStay
    <3>3. OthersStay(t2, tree', {i}) /\ OthersKeptNamed(t2, tree', i)
      BY <1>4, <2>3, InsertedOthers
    <3>4. OthersStay(t, tree', {i})
      BY <3>1, <3>2, <3>3, OthersStayOn
    <3>5. OthersStay(t, tree', X)
      BY <3>4, OthersStayMore
    <3>6. OthersKeptNamed(t, tree', i)
      BY <1>4, <3>1, <3>3 DEF OthersKeptNamed
    <3>7. QED
      BY <3>5, <3>6
  <2>4. QED
    BY <1>4, <2>1, <2>2, <2>3
<1>8. CASE tree' = tree
  BY <1>8, NothingMoves
<1>9. CASE tree' # tree
  <2>1. OthersStay(tree, tree', X) /\ OthersKeptNamed(tree, tree', i)
    BY <1>6, <1>7, <1>9, OthersStayOn DEF OthersKeptNamed
  <2>2. CASE old = None \/ old = i
    <3>1. OthersStay(tree, tree', {i})
      BY <2>1, <2>2, TreeAssumption DEF OthersStay
    <3>2. QED
      BY <1>4, <2>1, <3>1, OthersUntouched
  <2>3. CASE old # None /\ old # i
    <3>1. tree'.parent[old] = None
      <4>1. t.parent[old] = None /\ t1.parent[old] = None
        BY <1>4, <1>5, <2>3
      <4>2. CASE tree' = t
        BY <4>1, <4>2
      <4>3. CASE key \in Raw /\ Renamed(t, i, key, tree')
        BY <1>4, <4>1, <4>3, RenamedOthers
      <4>4. CASE Inserted(t2, p, i, pos, tree')
        <5>1. tree'.parent = [t2.parent EXCEPT ![i] = p]
          BY <1>4, <4>4, InsertedWhole
        <5>2. t2.parent \in [Item -> List \cup {None}]
          BY <1>4 DEF Whole, Tree
        <5>3. QED
          BY <1>4, <2>3, <4>1, <5>1, <5>2
      <4>5. QED
        BY <1>4, <1>9, <4>2, <4>3, <4>4
    <3>2. QED
      BY <1>4, <2>1, <2>3, <3>1 DEF NamesStep, OrderStep, OthersStay, OthersKeptNamed
  <2>4. QED
    BY <2>2, <2>3
<1>10. QED
  BY <1>8, <1>9

(* The loop of a drop has come to i and moves it.                          *)
DropMoves(i) ==
  /\ drop.items # << >> /\ i = Head(drop.items)
  /\ ~ MoveDenied(drop.target, i) /\ tree.parent[i] # None

LEMMA DropItemCases ==
  ASSUME IInv, DropItem
  PROVE  \/ \E i \in Item : DropMoves(i)
         \/ tree' = tree /\ last' = last
<1>1. drop.items \in Seq(Item)
  BY DEF IInv
<1>2. drop.items # << >> => Head(drop.items) \in Item
  BY <1>1
<1>3. QED
  BY <1>2 DEF DropItem, DropMoves

(* t1 is the tree without it, t2 the one with it in its new place, where   *)
(* insert_name names it.                                                   *)
DropOutcome(i, t1, t2) ==
  /\ drop.target \in List
  /\ Whole(tree) /\ Whole(t1)
  /\ DropRow(i) \in 0 .. Len(t1.children[drop.target])
  /\ tree.parent[i] # None /\ t1.parent[i] = None
  /\ t1.name = tree.name /\ t1.mdl = tree.mdl
  /\ t2 \in Tree /\ t2.name = t1.name
  /\ tree'.parent = [tree.parent EXCEPT ![i] = drop.target]
  /\ tree'.children = t2.children /\ tree'.row = t2.row /\ tree'.parent = t2.parent
  /\ OthersKeptNamed(t2, tree', i)
  /\ last' = [by |-> "drop", item |-> i]
  /\ drop' = [drop EXCEPT !.items = Tail(@), !.row = DropRow(i) + 1,
                          !.done = Append(@, i)]

LEMMA DropMoved ==
  ASSUME IInv, DropItem, NEW i \in Item, DropMoves(i),
         NEW t1, t1 = RemoveChild(tree, i),
         NEW t2, t2 = InsertChild(t1, drop.target, i, DropRow(i))
  PROVE  DropOutcome(i, t1, t2)
<1>1. drop.target \in List /\ Whole(tree) /\ tree.parent[i] # None
  BY DEF IInv, DropReady, DropMoves
<1>2. Whole(t1) /\ t1.parent = [tree.parent EXCEPT ![i] = None]
  <2>1. LET u == RemoveChild(tree, i)
        IN  /\ Whole(u)
            /\ u.parent = [tree.parent EXCEPT ![i] = None]
            /\ \A q \in List : Len(u.children[q]) =
                 IF q = tree.parent[i]
                 THEN Len(tree.children[q]) - 1 ELSE Len(tree.children[q])
    BY <1>1, RemoveChildWhole
  <2>2. QED
    BY <2>1
<1>3. t1.name = tree.name /\ t1.mdl = tree.mdl
  <2>1. tree \in Tree /\ ListsAgree(tree)
    BY <1>1 DEF Whole
  <2>2. QED
    BY <1>1, <2>1, RemoveChildFacts
<1>4. DropRow(i) \in 0 .. Len(t1.children[drop.target])
  BY <1>1, DropRowFits DEF DropMoves
<1>5. tree.parent \in [Item -> List \cup {None}] /\ t1.parent[i] = None
  BY <1>1, <1>2 DEF Whole, Tree
<1> DEFINE row == DropRow(i)
           target == drop.target
<1>6. row \in 0 .. Len(t1.children[target]) /\ target \in List
  BY <1>1, <1>4
<1>7. t2 = InsertChild(t1, target, i, row)
  OBVIOUS
<1>8. /\ \E n \in Name : ChosenName(t2, target, i, n) /\ tree' = InsertName(t2, target, i, n)
      /\ drop' = [drop EXCEPT !.items = Tail(@), !.row = row + 1, !.done = Append(@, i)]
      /\ last' = [by |-> "drop", item |-> i]
  BY <1>1 DEF DropItem, DropMoves, Did
<1> HIDE DEF row, target
<1>9. t2 \in Tree /\ t2.parent = [t1.parent EXCEPT ![i] = target] /\ t2.name = t1.name
  <2>1. LET u == InsertChild(t1, target, i, row)
        IN  /\ u \in Tree /\ ListsAgree(u) /\ NamedBut(u, i)
            /\ u.parent = [t1.parent EXCEPT ![i] = target] /\ u.name = t1.name
            /\ \A q \in List : Len(u.children[q]) =
                 IF q = target THEN Len(t1.children[q]) + 1 ELSE Len(t1.children[q])
    BY <1>2, <1>5, <1>6, InsertChildNamed
  <2>2. QED
    BY <1>7, <2>1
<1>10. /\ tree'.children = t2.children /\ tree'.row = t2.row /\ tree'.parent = t2.parent
       /\ OthersKeptNamed(t2, tree', i)
  BY <1>6, <1>8, <1>9, InsertNameOthers
<1>11. tree'.parent = [tree.parent EXCEPT ![i] = target]
  BY <1>2, <1>5, <1>9, <1>10
<1>12. QED
  BY <1>1, <1>2, <1>3, <1>4, <1>5, <1>8, <1>9, <1>10, <1>11 DEF row, target, DropOutcome

LEMMA EditOthers ==
  ASSUME IInv, Edit
  PROVE  NamesStep /\ OrderStep
<1>1. Whole(tree) /\ tree \in Tree /\ TypeOK
  BY InvTypes DEF IInv, Whole
<1>2. ASSUME NEW i \in Item, NEW p \in List, NEW pos \in Int, Insert(i, p, pos)
      PROVE  NamesStep /\ OrderStep
  BY <1>1, <1>2, InsertedOthers, OthersUntouched DEF Insert, Did
<1>3. ASSUME NEW i \in Item, RemoveFromParent(i)
      PROVE  NamesStep /\ OrderStep
  BY <1>1, <1>3, RemoveItemOthers, OthersUntouched DEF RemoveFromParent, Did, OthersKeptNamed
<1>4. ASSUME NEW i \in Item, NEW raw \in Raw, SetName(i, raw)
      PROVE  NamesStep /\ OrderStep
  BY <1>1, <1>4, RenamedOthers, SameStay, OthersUntouched DEF SetName, Did
<1>5. ASSUME NEW m \in Model, NEW r \in List, CreateModel(m, r)
      PROVE  NamesStep /\ OrderStep
  <2>1. r \in Item /\ m \in Model \cup {None} /\ tree' = SetModel(tree, r, m)
    BY <1>5, TreeAssumption DEF CreateModel
  <2>2. tree'.name = tree.name /\ tree'.parent = tree.parent /\ tree'.row = tree.row
    BY <1>1, <2>1, SetModelFacts
  <2>3. QED
    BY <2>2, NothingMoves
<1>6. ASSUME NEW m \in Model, DestroyModel(m)
      PROVE  NamesStep /\ OrderStep
  BY <1>6, DestroyFacts, NothingMoves
<1>7. ASSUME NEW old \in Item, tree.parent[old] # None, AssignNil(old)
      PROVE  NamesStep /\ OrderStep
  <2>1. CASE tree' = tree
    BY <2>1, NothingMoves
  <2>2. CASE tree' = RemoveItem(tree, old) /\ last'.item = old
    BY <1>1, <1>7, <2>2, RemoveItemOthers, OthersUntouched DEF OthersKeptNamed
  <2>3. QED
    BY <1>7, <2>1, <2>2 DEF AssignNil, Deny, Did
<1>8. ASSUME NEW v \in View, NEW i \in Item, NEW raw \in Raw, EditName(v, i, raw)
      PROVE  NamesStep /\ OrderStep
  <2>1. Renamed(tree, i, raw, tree') /\ last'.item = i
    BY <1>8 DEF EditName, Did
  <2>2. /\ OthersKeptNamed(tree, tree', i)
        /\ tree'.parent = tree.parent /\ tree'.row = tree.row
    BY <1>1, <2>1, RenamedOthers
  <2>3. OthersStay(tree, tree', {i})
    BY <2>2, SameStay
  <2>4. QED
    BY <2>1, <2>2, <2>3, OthersUntouched
<1>9. ASSUME NEW v \in View, NEW i \in Item, StoreIndex(v, i)
      PROVE  NamesStep /\ OrderStep
  BY <1>1, <1>9, NothingMoves DEF StoreIndex, Tree
<1>10. QED
  BY EditCases, AssignOthers, <1>2, <1>3, <1>4, <1>5, <1>6, <1>7, <1>8, <1>9

LEMMA DropItemOthers ==
  ASSUME IInv, DropItem, NEW i \in Item, DropMoves(i)
  PROVE  NamesStep /\ OrderStep
<1>1. PICK t1 : t1 = RemoveChild(tree, i)
  OBVIOUS
<1>2. PICK t2 : t2 = InsertChild(t1, drop.target, i, DropRow(i))
  OBVIOUS
<1>3. /\ drop.target \in List /\ Whole(tree) /\ Whole(t1)
      /\ DropRow(i) \in 0 .. Len(t1.children[drop.target])
      /\ tree.parent[i] # None /\ t1.parent[i] = None
      /\ t1.name = tree.name /\ t2.name = t1.name
      /\ tree'.row = t2.row /\ tree'.parent = t2.parent
      /\ OthersKeptNamed(t2, tree', i) /\ last'.item = i
  <2>1. DropOutcome(i, t1, t2)
    BY <1>1, <1>2, DropMoved
  <2>2. QED
    BY <2>1 DEF DropOutcome
<1>4. OthersStay(tree, t1, {i})
  BY <1>1, <1>3, RemoveChildStay
<1>5. OthersStay(t1, t2, {i})
  BY <1>2, <1>3, InsertChildStay
<1>6. OthersStay(t2, tree', {i})
  BY <1>3, SameStay
<1>7. OthersStay(tree, tree', {i})
  BY <1>4, <1>5, <1>6, OthersStayOn
<1>8. OthersKeptNamed(tree, tree', i)
  BY <1>3 DEF OthersKeptNamed
<1>9. QED
  BY <1>3, <1>7, <1>8, OthersUntouched

LEMMA StepOthers ==
  ASSUME IInv, [Next \/ EditNext]_vars
  PROVE  NamesStep /\ OrderStep
<1>1. CASE Edit
  BY <1>1, EditOthers
<1>2. CASE Idle /\ DragAndDrop
  <2>1. CASE UNCHANGED tree
    BY <2>1, NothingMoves
  <2>2. ASSUME NEW v \in View, NEW p \in List, NEW i \in Item,
               NEW row \in -1 .. Len(tree.children[p]), DropExternal(v, p, row, i)
        PROVE  NamesStep /\ OrderStep
    <3> DEFINE r == IF row < 0 THEN 0 ELSE row
    <3>1. r \in Int /\ Inserted(tree, p, i, r, tree') /\ last'.item = i
      BY <2>2 DEF DropExternal, Did
    <3> HIDE DEF r
    <3>2. QED
      BY <3>1, InsertedOthers, OthersUntouched DEF IInv
  <2>3. QED
    BY <1>2, <2>1, <2>2 DEF DragAndDrop, StartDrag, CancelDrag, Drop
<1>3. CASE DropItem
  BY <1>3, DropItemCases, DropItemOthers, NothingMoves
<1>4. CASE DropEnd
  BY <1>4, NothingMoves DEF DropEnd
<1>5. CASE UNCHANGED vars
  BY <1>5, NothingMoves DEF vars
<1>6. QED
  BY <1>1, <1>2, <1>3, <1>4, <1>5 DEF Next, EditNext

-----------------------------------------------------------------------------
(* No handler renames an item but the one it is called for, not even when  *)
(* the names of a whole list collide: any number of items and names.       *)
THEOREM OthersNeverRenamed == Spec => OthersKeepName
<1>1. IInv /\ [Next]_vars => [\A i \in Item : tree'.name[i] # tree.name[i] => last'.item = i]_vars
  BY StepOthers DEF NamesStep
<1>2. QED
  BY Invariance, <1>1, PTL DEF Spec, OthersKeepName

(* An item that moves, by a script, by C++ code or by a drop, leaves the   *)
(* order of the others in their lists as it was.                           *)
THEOREM OthersNeverReordered == Spec => OthersKeepOrder
<1>1. IInv /\ [Next]_vars =>
        [\A i, j \in Item \ {last'.item} :
           /\ tree.parent[i] # None /\ tree.parent[i] = tree.parent[j]
           /\ tree'.parent[i] = tree.parent[i] /\ tree'.parent[j] = tree.parent[j]
           => (tree.row[i] < tree.row[j] <=> tree'.row[i] < tree'.row[j])]_vars
  BY StepOthers DEF OrderStep
<1>2. QED
  BY Invariance, <1>1, PTL DEF Spec, OthersKeepOrder

-----------------------------------------------------------------------------
(* Permissions and cycles.                                                 *)

PermissionsStep ==
  \A i \in Item : tree'.parent[i] # tree.parent[i] =>
    /\ last'.by = "remove" => i \notin NoRemove
    /\ last'.by = "assign" /\ tree'.parent[i] = None => i \notin NoReplace
    /\ last'.by \in {"assign", "drop"} /\ tree'.parent[i] # None =>
         \/ i \notin NoMove /\ <<tree'.parent[i], i>> \in Accepts

(* What the cyclelessness of the tree needs of a step.                     *)
CycleStep == Acyclic(tree) => Acyclic(tree')

LEMMA SameParents ==
  ASSUME tree'.parent = tree.parent
  PROVE  PermissionsStep /\ CycleStep
BY DEF PermissionsStep, CycleStep, Acyclic

LEMMA OthersMayDoIt ==
  ASSUME last'.by \in {"app", "view", "external", "denied"}
  PROVE  PermissionsStep
BY DEF PermissionsStep

LEMMA AssignPermitted ==
  ASSUME IInv, NEW p \in List, NEW i \in Item, NEW old \in Item \cup {None}, Found(old),
         NEW key \in Raw \cup {None}, NEW pos \in Int,
         AssignItem(p, i, old, key, pos)
  PROVE  PermissionsStep /\ CycleStep
<1>1. PICK t : t = IF old = None THEN tree ELSE RemoveItem(tree, old)
  OBVIOUS
<1>2. PICK t1 : t1 = Detach(t, i)
  OBVIOUS
<1>3. PICK t2 : t2 = IF key = None THEN t1 ELSE WithName(t1, i, key)
  OBVIOUS
<1>4. AssignOutcome(p, i, old, key, pos, t, t1, t2)
  BY <1>1, <1>2, <1>3, AssignCases
<1>5. /\ Whole(t) /\ Whole(t2)
      /\ t.parent = IF old = None THEN tree.parent ELSE [tree.parent EXCEPT ![old] = None]
      /\ t2.parent = [t.parent EXCEPT ![i] = None]
  BY <1>4 DEF AssignOutcome
<1>6. /\ tree.parent \in [Item -> List \cup {None}]
      /\ t.parent \in [Item -> List \cup {None}] /\ t2.parent \in [Item -> List \cup {None}]
      /\ p \in Item /\ None \notin List /\ None \notin Item
  BY <1>5, TreeAssumption DEF IInv, Whole, Tree
<1>7. /\ \A j \in Item : t.parent[j] = IF j = old THEN None ELSE tree.parent[j]
      /\ \A j \in Item : t2.parent[j] = IF j = i THEN None ELSE t.parent[j]
  BY <1>5, <1>6
<1>8. CASE tree' = tree
  BY <1>8, SameParents
<1>9. CASE tree' # tree
  <2>1. /\ old \notin NoReplace /\ i \notin Path(tree, p)
        /\ \/ last'.by = "denied" /\ tree' = t
           \/ last'.by = "assign" /\ key \in Raw /\ Renamed(t, i, key, tree')
           \/ /\ last'.by = "assign" /\ Inserted(t2, p, i, pos, tree')
              /\ t.parent[i] = p \/ ~ MoveDenied(p, i)
    BY <1>4, <1>9 DEF AssignOutcome, InParentPath
  <2>2. CASE tree'.parent = t.parent /\ last'.by \in {"denied", "assign"}
    <3>1. PermissionsStep
      BY <1>6, <1>7, <2>1, <2>2 DEF PermissionsStep
    <3>2. Acyclic(tree) => Acyclic(tree')
      BY <1>6, <1>7, <2>2, AcyclicFewer
    <3>3. QED
      BY <3>1, <3>2 DEF CycleStep
  <2>3. CASE /\ last'.by = "assign" /\ Inserted(t2, p, i, pos, tree')
             /\ t.parent[i] = p \/ ~ MoveDenied(p, i)
    <3>1. tree'.parent = [t2.parent EXCEPT ![i] = p]
      BY <1>5, <2>3, InsertedWhole
    <3>2. \A j \in Item : tree'.parent[j] = IF j = i THEN p ELSE t.parent[j]
      BY <1>6, <1>7, <3>1
    <3>3. ASSUME NEW j \in Item, tree'.parent[j] # tree.parent[j]
          PROVE  /\ tree'.parent[j] = None => j \notin NoReplace
                 /\ tree'.parent[j] # None =>
                      j \notin NoMove /\ <<tree'.parent[j], j>> \in Accepts
      <4>1. CASE j = i
        <5>1. tree'.parent[j] = p /\ p # None
          BY <1>6, <3>2, <4>1
        <5>2. t.parent[i] # p
          BY <1>6, <1>7, <3>3, <4>1, <5>1
        <5>3. QED
          BY <2>3, <4>1, <5>1, <5>2 DEF MoveDenied
      <4>2. CASE j # i
        <5>1. j = old /\ tree'.parent[j] = None
          BY <1>7, <3>2, <3>3, <4>2
        <5>2. QED
          BY <2>1, <5>1
      <4>3. QED
        BY <4>1, <4>2
    <3>4. PermissionsStep
      BY <2>3, <3>3 DEF PermissionsStep
    <3>5. ASSUME Acyclic(tree)
          PROVE  Acyclic(tree')
      <4>1. \A j \in Item : t2.parent[j] = tree.parent[j] \/ t2.parent[j] = None
        BY <1>7
      <4>2. Acyclic(t2)
        BY <1>6, <3>5, <4>1, AcyclicFewer
      <4>3. Path(t2, p) \subseteq Path(tree, p)
        BY <1>6, <4>1, PathShrinks
      <4>4. i \notin Path(t2, p)
        BY <2>1, <4>3
      <4>5. QED
        BY <1>6, <3>1, <4>2, <4>4, AcyclicAfter
    <3>6. QED
      BY <3>4, <3>5 DEF CycleStep
  <2>4. QED
    BY <1>5, <2>1, <2>2, <2>3, RenamedOthers
<1>10. QED
  BY <1>8, <1>9

LEMMA EditPermitted ==
  ASSUME IInv, Edit
  PROVE  PermissionsStep /\ CycleStep
<1>1. /\ Whole(tree) /\ tree \in Tree /\ tree.parent \in [Item -> List \cup {None}]
      /\ None \notin List
  BY TreeAssumption DEF IInv, Whole, Tree
<1>2. ASSUME NEW i \in Item, NEW p \in List, NEW pos \in Int, Insert(i, p, pos)
      PROVE  PermissionsStep /\ CycleStep
  <2>1. /\ i \notin Path(tree, p) /\ Inserted(tree, p, i, pos, tree')
        /\ last'.by = "app"
    BY <1>2 DEF Insert, InParentPath, Did
  <2>2. tree'.parent = [tree.parent EXCEPT ![i] = p]
    BY <1>1, <2>1, InsertedWhole
  <2>3. Acyclic(tree) => Acyclic(tree')
    BY <1>1, <2>1, <2>2, AcyclicAfter
  <2>4. QED
    BY <2>1, <2>3, OthersMayDoIt DEF CycleStep
<1>3. ASSUME NEW i \in Item, RemoveFromParent(i)
      PROVE  PermissionsStep /\ CycleStep
  <2>1. tree' = RemoveItem(tree, i) /\ tree.parent[i] # None /\ last'.by = "app"
    BY <1>3 DEF RemoveFromParent, Did
  <2>2. tree'.parent = [tree.parent EXCEPT ![i] = None]
    BY <1>1, <2>1, RemoveItemWhole
  <2>3. \A k \in Item : tree'.parent[k] = tree.parent[k] \/ tree'.parent[k] = None
    BY <1>1, <2>2
  <2>4. Acyclic(tree) => Acyclic(tree')
    BY <1>1, <2>3, AcyclicFewer
  <2>5. QED
    BY <2>1, <2>4, OthersMayDoIt DEF CycleStep
<1>4. ASSUME NEW i \in Item, NEW raw \in Raw, SetName(i, raw)
      PROVE  PermissionsStep /\ CycleStep
  <2>1. tree'.parent = tree.parent
    BY <1>1, <1>4, RenamedWhole DEF SetName
  <2>2. QED
    BY <2>1, SameParents
<1>5. ASSUME NEW m \in Model, NEW r \in List, CreateModel(m, r)
      PROVE  PermissionsStep /\ CycleStep
  <2>1. r \in Item /\ m \in Model \cup {None} /\ tree' = SetModel(tree, r, m)
    BY <1>5, TreeAssumption DEF CreateModel
  <2>2. tree'.parent = tree.parent
    BY <1>1, <2>1, SetModelFacts
  <2>3. QED
    BY <2>2, SameParents
<1>6. ASSUME NEW m \in Model, DestroyModel(m)
      PROVE  PermissionsStep /\ CycleStep
  BY <1>6, DestroyFacts, SameParents
<1>7. ASSUME NEW old \in Item, tree.parent[old] # None, AssignNil(old)
      PROVE  PermissionsStep /\ CycleStep
  <2>1. CASE tree' = tree
    BY <2>1, SameParents
  <2>2. CASE tree' = RemoveItem(tree, old) /\ old \notin NoRemove /\ last'.by = "remove"
    <3>1. tree'.parent = [tree.parent EXCEPT ![old] = None]
      BY <1>1, <1>7, <2>2, RemoveItemWhole
    <3>2. \A k \in Item : k # old => tree'.parent[k] = tree.parent[k]
      BY <1>1, <3>1
    <3>3. tree'.parent[old] = None
      BY <1>1, <3>1
    <3>4. Acyclic(tree) => Acyclic(tree')
      BY <1>1, <3>2, <3>3, AcyclicFewer
    <3>5. PermissionsStep
      BY <2>2, <3>2 DEF PermissionsStep
    <3>6. QED
      BY <3>4, <3>5 DEF CycleStep
  <2>3. QED
    BY <1>7, <2>1, <2>2 DEF AssignNil, Deny, Did
<1>8. ASSUME NEW v \in View, NEW i \in Item, NEW raw \in Raw, EditName(v, i, raw)
      PROVE  PermissionsStep /\ CycleStep
  <2>1. Renamed(tree, i, raw, tree')
    BY <1>8 DEF EditName
  <2>2. tree'.parent = tree.parent
    BY <1>1, <2>1, RenamedWhole
  <2>3. QED
    BY <2>2, SameParents
<1>9. ASSUME NEW v \in View, NEW i \in Item, StoreIndex(v, i)
      PROVE  PermissionsStep /\ CycleStep
  BY <1>1, <1>9, SameParents DEF StoreIndex, Tree
<1>10. QED
  BY EditCases, AssignPermitted, <1>2, <1>3, <1>4, <1>5, <1>6, <1>7, <1>8, <1>9

LEMMA ExternalPermitted ==
  ASSUME IInv, NEW v \in View, NEW p \in List, NEW i \in Item,
         NEW row \in -1 .. Len(tree.children[p]), DropExternal(v, p, row, i)
  PROVE  PermissionsStep /\ CycleStep
<1> DEFINE r == IF row < 0 THEN 0 ELSE row
<1>1. /\ r \in Int /\ Inserted(tree, p, i, r, tree') /\ last'.by = "external"
      /\ i \notin List
  BY DEF DropExternal, Did
<1> HIDE DEF r
<1>2. Whole(tree) /\ tree.parent \in [Item -> List \cup {None}]
  BY DEF IInv, Whole, Tree
<1>3. tree'.parent = [tree.parent EXCEPT ![i] = p]
  BY <1>1, <1>2, InsertedWhole
<1>4. i \notin Path(tree, p)
  BY <1>1 DEF Path, Above
<1>5. Acyclic(tree) => Acyclic(tree')
  BY <1>2, <1>3, <1>4, AcyclicAfter
<1>6. QED
  BY <1>1, <1>5, OthersMayDoIt DEF CycleStep

LEMMA DropItemPermitted ==
  ASSUME IInv, DropItem, NEW i \in Item, DropMoves(i)
  PROVE  /\ PermissionsStep
         /\ tree'.parent = [tree.parent EXCEPT ![i] = drop.target]
         /\ i \notin Path(tree, drop.target) => CycleStep
<1>1. PICK t1 : t1 = RemoveChild(tree, i)
  OBVIOUS
<1>2. PICK t2 : t2 = InsertChild(t1, drop.target, i, DropRow(i))
  OBVIOUS
<1>3. DropOutcome(i, t1, t2)
  BY <1>1, <1>2, DropMoved
<1>4. /\ drop.target \in List /\ Whole(tree)
      /\ tree'.parent = [tree.parent EXCEPT ![i] = drop.target]
      /\ ~ MoveDenied(drop.target, i)
  BY <1>3 DEF DropOutcome, DropMoves
<1>5. tree.parent \in [Item -> List \cup {None}]
  BY <1>4 DEF Whole, Tree
<1>6. PermissionsStep
  <2>1. last'.by = "drop"
    BY <1>3 DEF DropOutcome
  <2>2. \A j \in Item : j # i => tree'.parent[j] = tree.parent[j]
    BY <1>4, <1>5
  <2>3. tree'.parent[i] = drop.target
    BY <1>4, <1>5
  <2>4. QED
    BY <1>4, <2>1, <2>2, <2>3 DEF PermissionsStep, MoveDenied
<1>7. i \notin Path(tree, drop.target) => (Acyclic(tree) => Acyclic(tree'))
  BY <1>4, <1>5, AcyclicAfter
<1>8. QED
  BY <1>4, <1>6, <1>7 DEF CycleStep

LEMMA StepPermitted ==
  ASSUME IInv, [Next \/ EditNext]_vars
  PROVE  PermissionsStep
<1>1. CASE Edit
  BY <1>1, EditPermitted
<1>2. CASE Idle /\ DragAndDrop
  BY <1>2, ExternalPermitted, SameParents DEF DragAndDrop, StartDrag, CancelDrag, Drop
<1>3. CASE DropItem
  BY <1>3, DropItemCases, DropItemPermitted, SameParents
<1>4. CASE DropEnd
  BY <1>4, SameParents DEF DropEnd
<1>5. CASE UNCHANGED vars
  BY <1>5, SameParents DEF vars
<1>6. QED
  BY <1>1, <1>2, <1>3, <1>4, <1>5 DEF Next, EditNext

(* No script takes an item out that may not be removed or replaced, and    *)
(* neither scripts nor drags put one where it may not go, however long the *)
(* sequence of edits that led there.                                       *)
THEOREM PermissionsAlwaysKept == Spec => PermissionsKept
<1>1. IInv /\ [Next]_vars =>
        [\A i \in Item : tree'.parent[i] # tree.parent[i] =>
           /\ last'.by = "remove" => i \notin NoRemove
           /\ last'.by = "assign" /\ tree'.parent[i] = None => i \notin NoReplace
           /\ last'.by \in {"assign", "drop"} /\ tree'.parent[i] # None =>
                \/ i \notin NoMove /\ <<tree'.parent[i], i>> \in Accepts]_vars
  BY StepPermitted DEF PermissionsStep
<1>2. QED
  BY Invariance, <1>1, PTL DEF Spec, PermissionsKept

(* The drag that is on keeps the view it began in, and what is left of a   *)
(* drop to do is not above its target.                                     *)
DropsBelow ==
  /\ drag # NoDrag => drag.view \in View
  /\ \A k \in 1 .. Len(drop.items) : drop.items[k] \notin Path(tree, drop.target)

LEMMA NoCycleStep ==
  ASSUME \A v, w \in View : v = w, IInv, Acyclic(tree), DropsBelow, [Next]_vars
  PROVE  Acyclic(tree') /\ DropsBelow'
<1>1. tree.parent \in [Item -> List \cup {None}] /\ drop.items \in Seq(Item)
  BY DEF IInv, Whole, Tree
<1>2. CASE Idle /\ Edit
  <2>1. drop' = drop /\ drag' = drag /\ drop.items = << >>
    BY <1>2, EditCases DEF Idle, NoDrop, Insert, RemoveFromParent, SetName, CreateModel,
       DestroyModel, AssignNil, AssignItem, EditName, StoreIndex
  <2>2. QED
    BY <1>2, <2>1, EditPermitted DEF CycleStep, DropsBelow
<1>3. CASE Idle /\ DragAndDrop
  <2>1. drop.items = << >>
    BY <1>3 DEF Idle, NoDrop
  <2>2. ASSUME NEW v \in View, NEW p \in List, NEW i \in Item,
               NEW row \in -1 .. Len(tree.children[p]), DropExternal(v, p, row, i)
        PROVE  Acyclic(tree') /\ DropsBelow'
    BY <2>1, <2>2, ExternalPermitted DEF CycleStep, DropsBelow, DropExternal
  <2>3. ASSUME NEW v \in View, NEW s \in Selections, StartDrag(v, s)
        PROVE  Acyclic(tree') /\ DropsBelow'
    BY <2>1, <2>3 DEF StartDrag, DropsBelow
  <2>4. ASSUME CancelDrag
        PROVE  Acyclic(tree') /\ DropsBelow'
    BY <2>1, <2>4 DEF CancelDrag, DropsBelow
  <2>5. ASSUME NEW v \in View, NEW p \in List, NEW row \in -1 .. Len(tree.children[p]),
               Drop(v, p, row)
        PROVE  Acyclic(tree') /\ DropsBelow'
    <3>1. /\ v = drag.view /\ drop'.target = p /\ drop'.items = drag.items
          /\ drag' = NoDrag /\ tree' = tree
      BY <2>5 DEF Drop, DropsBelow
    <3>2. Path(tree, p) \cap ToSet(drag.items) = {}
      BY <2>5, <3>1 DEF Drop
    <3>3. \A k \in 1 .. Len(drag.items) : drag.items[k] \notin Path(tree, p)
      BY <3>2 DEF ToSet
    <3>4. QED
      BY <3>1, <3>3 DEF DropsBelow
  <2>6. QED
    BY <1>3, <2>2, <2>3, <2>4, <2>5 DEF DragAndDrop
<1>4. CASE DropItem
  <2>1. drop.items # << >> /\ drag' = drag
    BY <1>4 DEF DropItem
  <2>2. /\ Len(Tail(drop.items)) = Len(drop.items) - 1
        /\ \A k \in 1 .. Len(drop.items) - 1 : Tail(drop.items)[k] = drop.items[k + 1]
        /\ Head(drop.items) = drop.items[1] /\ Len(drop.items) \in Nat /\ Len(drop.items) # 0
    BY <1>1, <2>1
  <2>3. \A k \in 1 .. Len(Tail(drop.items)) : Tail(drop.items)[k] \notin Path(tree, drop.target)
    BY <2>2 DEF DropsBelow
  <2>4. /\ drop'.target = drop.target
        /\ drop'.items = drop.items \/ drop'.items = Tail(drop.items)
    BY <1>4 DEF DropItem, IInv
  <2>5. ASSUME NEW i \in Item, DropMoves(i)
        PROVE  Acyclic(tree') /\ Path(tree', drop.target) = Path(tree, drop.target)
    <3>1. i \notin Path(tree, drop.target)
      BY <2>2, <2>5 DEF DropsBelow, DropMoves
    <3>2. tree'.parent = [tree.parent EXCEPT ![i] = drop.target] /\ CycleStep
      BY <1>4, <2>5, <3>1, DropItemPermitted
    <3>3. drop.target \in List /\ drop.target \in Item
      BY <2>1, TreeAssumption DEF IInv, DropReady
    <3>4. /\ tree'.parent \in [Item -> List \cup {None}]
          /\ \A k \in Item : k # i => tree'.parent[k] = tree.parent[k]
      BY <1>1, <3>2, <3>3
    <3>5. Path(tree, drop.target) \subseteq Item
      BY <3>3, TreeAssumption DEF Path, Above
    <3>6. Path(tree', drop.target) = Path(tree, drop.target)
      BY <1>1, <3>1, <3>3, <3>4, <3>5, PathStays
    <3>7. QED
      BY <3>2, <3>6 DEF CycleStep
  <2>6. Acyclic(tree') /\ Path(tree', drop.target) = Path(tree, drop.target)
    BY <1>4, <2>5, DropItemCases
  <2>7. QED
    BY <2>1, <2>3, <2>4, <2>6 DEF DropsBelow
<1>5. CASE DropEnd
  BY <1>5 DEF DropEnd, DropsBelow, NoDrop
<1>6. CASE UNCHANGED vars
  BY <1>6 DEF vars, DropsBelow
<1>7. QED
  BY <1>2, <1>3, <1>4, <1>5, <1>6 DEF Next

LEMMA InitNoCycle == Init => Acyclic(tree) /\ DropsBelow
<1> SUFFICES ASSUME Init
             PROVE  Acyclic(tree) /\ DropsBelow
  OBVIOUS
<1>1. \A i \in Item : tree.parent[i] = None
  BY DEF Init, NewTree
<1>2. None \notin List /\ List \subseteq Item
  BY TreeAssumption
<1>3. Acyclic(tree)
  BY <1>1, <1>2 DEF Acyclic
<1>4. DropsBelow
  BY DEF Init, DropsBelow, NoDrag, NoDrop
<1>5. QED
  BY <1>3, <1>4

(* With one view, no sequence of edits, drags and drops puts an item below *)
(* itself: walking up the parents ends.  The view that drags is asked for  *)
(* the path of the target, and the items it drops leave that path alone.   *)
THEOREM TreesStayTrees ==
  ASSUME \A v, w \in View : v = w
  PROVE  Spec => []NoCycle
<1> DEFINE CInv == IInv /\ Acyclic(tree) /\ DropsBelow
<1>1. Init => CInv
  BY InitInv, InitNoCycle
<1>2. CInv /\ [Next]_vars => CInv'
  BY InvStep, NoCycleStep
<1>3. CInv => NoCycle
  BY DEF NoCycle
<1> HIDE DEF CInv
<1>4. QED
  BY <1>1, <1>2, <1>3, PTL DEF Spec

(* Without drags that needs no assumption: insert is called for items that *)
(* are not above the list, and scripts are refused the others.             *)
LEMMA EditInvariance == EditSpec => [](IInv /\ Acyclic(tree))
<1>1. Init => IInv /\ Acyclic(tree)
  BY InitInv, InitNoCycle
<1>2. ASSUME IInv, Acyclic(tree), [EditNext]_vars
      PROVE  IInv' /\ Acyclic(tree)'
  <2>1. IInv'
    BY <1>2, InvStep
  <2>2. CASE EditNext
    BY <1>2, <2>1, <2>2, EditPermitted DEF EditNext, CycleStep
  <2>3. CASE UNCHANGED vars
    BY <1>2, <2>1, <2>3 DEF vars
  <2>4. QED
    BY <1>2, <2>1, <2>2, <2>3
<1>3. IInv /\ Acyclic(tree) /\ [EditNext]_vars => (IInv /\ Acyclic(tree))'
  BY <1>2
<1>4. QED
  BY <1>1, <1>3, PTL DEF EditSpec

-----------------------------------------------------------------------------
(* Where the items of a drop end.                                          *)

(* The selections have no item twice.                                      *)
LEMMA SelectionsAreSets ==
  ASSUME NEW s \in Selections
  PROVE  \A k, m \in 1 .. Len(s) : s[k] = s[m] => k = m
<1>1. ASSUME NEW i \in Item, s = <<i>>
      PROVE  \A k, m \in 1 .. Len(s) : s[k] = s[m] => k = m
  BY <1>1
<1>2. ASSUME NEW i \in Item, NEW j \in Item, i # j, s = <<i, j>>
      PROVE  \A k, m \in 1 .. Len(s) : s[k] = s[m] => k = m
  BY <1>2
<1>3. \/ \E i \in Item : s = <<i>>
      \/ \E i, j \in Item : i # j /\ s = <<i, j>>
  BY DEF Selections
<1>4. QED
  BY <1>1, <1>2, <1>3

(* No item is dropped twice, and those that have been dropped stand, in    *)
(* their order, right before the row of the next.                          *)
DropInOrder ==
  /\ \A k, m \in 1 .. Len(drag.items) : drag.items[k] = drag.items[m] => k = m
  /\ \A k, m \in 1 .. Len(drop.items) : drop.items[k] = drop.items[m] => k = m
  /\ \A k \in 1 .. Len(drop.done) : \A m \in 1 .. Len(drop.items) : drop.done[k] # drop.items[m]
  /\ Len(drop.done) <= drop.row
  /\ DroppedTogether

(* The place of the items dropped, after the next has left its list.       *)
LEMMA DoneStay ==
  ASSUME NEW s \in Seq(Item), NEW d \in Seq(Item), NEW R \in Nat,
         R <= Len(s), Len(d) <= R, \A k \in 1 .. Len(d) : s[R - Len(d) + k] = d[k],
         NEW r \in Nat, r < Len(s), \A k \in 1 .. Len(d) : d[k] # s[r + 1]
  PROVE  LET u == RemoveAt(s, r + 1)
             row == IF R > r THEN R - 1 ELSE R
         IN  Len(d) <= row /\ \A k \in 1 .. Len(d) : u[row - Len(d) + k] = d[k]
<1> DEFINE u == RemoveAt(s, r + 1)
           row == IF R > r THEN R - 1 ELSE R
<1>1. Len(s) \in Nat /\ Len(d) \in Nat /\ row \in Int
  OBVIOUS
<1>2. \A j \in 1 .. Len(s) - 1 : u[j] = IF j < r + 1 THEN s[j] ELSE s[j + 1]
  <2>1. PICK f \in 1 .. Len(s) : f = r + 1
    BY <1>1
  <2>2. \A j \in 1 .. Len(s) - 1 : RemoveAt(s, f)[j] = IF j < f THEN s[j] ELSE s[j + 1]
    BY RemoveAtFacts
  <2>3. QED
    BY <2>1, <2>2
<1> SUFFICES Len(d) <= row /\ \A k \in 1 .. Len(d) : u[row - Len(d) + k] = d[k]
  OBVIOUS
<1>0. row = IF R > r THEN R - 1 ELSE R
  OBVIOUS
<1> HIDE DEF u, row
<1> DEFINE D == Len(d)
<1>3. \A k \in 1 .. D : R - D + k # r + 1
  OBVIOUS
<1> HIDE DEF D
<1>4. D \in Nat /\ D <= R
  BY <1>1 DEF D
<1>5. CASE R > r
  <2>1. r + 1 <= R - D
    <3>1. ASSUME r + 1 > R - D
          PROVE  FALSE
      <4>1. (r + 1) - (R - D) \in 1 .. D /\ R - D + ((r + 1) - (R - D)) = r + 1
        BY <1>4, <1>5, <3>1
      <4>2. QED
        BY <1>3, <4>1
    <3>2. QED
      BY <1>4, <3>1
  <2>2. row = R - 1 /\ D <= row
    BY <1>0, <1>4, <1>5, <2>1
  <2>3. ASSUME NEW k \in 1 .. D
        PROVE  u[row - D + k] = s[R - D + k]
    <3>1. row - D + k \in 1 .. Len(s) - 1 /\ ~ (row - D + k < r + 1) /\ (row - D + k) + 1 = R - D + k
      BY <1>1, <1>4, <2>1, <2>2
    <3>2. QED
      BY <1>2, <3>1
  <2>4. QED
    BY <2>2, <2>3 DEF D
<1>6. CASE ~ (R > r)
  <2>1. row = R
    BY <1>0, <1>6
  <2>2. ASSUME NEW k \in 1 .. D
        PROVE  u[row - D + k] = s[R - D + k]
    <3>1. row - D + k \in 1 .. Len(s) - 1 /\ row - D + k < r + 1
      BY <1>1, <1>4, <1>6, <2>1
    <3>2. QED
      BY <1>2, <2>1, <3>1
  <2>3. QED
    BY <1>4, <2>1, <2>2 DEF D
<1>7. QED
  BY <1>5, <1>6

LEMMA DropItemInOrder ==
  ASSUME IInv, DropInOrder, DropItem, NEW i \in Item, DropMoves(i)
  PROVE  DropInOrder'
<1>1. PICK t1 : t1 = RemoveChild(tree, i)
  OBVIOUS
<1>2. PICK t2 : t2 = InsertChild(t1, drop.target, i, DropRow(i))
  OBVIOUS
<1>3. DropOutcome(i, t1, t2)
  BY <1>1, <1>2, DropMoved
<1> DEFINE T == drop.target
           R == drop.row
           d == drop.done
           s == tree.children[T]
           s1 == t1.children[T]
           s2 == tree'.children[T]
           r == tree.row[i]
           row == DropRow(i)
<1>4. /\ T \in List /\ Whole(tree) /\ Whole(t1) /\ row \in 0 .. Len(s1)
      /\ tree.parent[i] # None /\ tree'.children = t2.children
      /\ drop' = [drop EXCEPT !.items = Tail(@), !.row = row + 1, !.done = Append(@, i)]
  BY <1>3 DEF DropOutcome
<1>5. /\ tree \in Tree /\ ListsAgree(tree) /\ t1 \in Tree
      /\ drop.items \in Seq(Item) /\ drop.items # << >> /\ i = Head(drop.items)
      /\ d \in Seq(Item) /\ R \in Nat /\ R <= Len(s) /\ s \in Seq(Item) /\ s1 \in Seq(Item)
  <2>1. tree \in Tree /\ ListsAgree(tree) /\ t1 \in Tree
    BY <1>4 DEF Whole
  <2>2. drop.items \in Seq(Item) /\ drop.items # << >> /\ i = Head(drop.items) /\ d \in Seq(Item)
    BY DEF IInv, DropMoves
  <2>3. R \in Nat /\ R <= Len(s) /\ s \in Seq(Item) /\ s1 \in Seq(Item)
    BY <1>4, <2>1, <2>2 DEF IInv, DropReady, Tree
  <2>4. QED
    BY <2>1, <2>2, <2>3
<1>6. drag' = drag
  BY DEF DropItem
<1>7. /\ drop'.items = Tail(drop.items) /\ drop'.row = row + 1 /\ drop'.done = Append(d, i)
      /\ drop'.target = T
  BY <1>4 DEF IInv
<1>8. /\ Len(Tail(drop.items)) = Len(drop.items) - 1 /\ Len(drop.items) \in Nat \ {0}
      /\ \A k \in 1 .. Len(drop.items) - 1 : Tail(drop.items)[k] = drop.items[k + 1]
      /\ drop.items[1] = i
  BY <1>5
<1>9. \A k \in 1 .. Len(d) : d[k] # i
  BY <1>8 DEF DropInOrder
<1>10. Len(d) <= row /\ \A k \in 1 .. Len(d) : s1[row - Len(d) + k] = d[k]
  <2>1. Len(d) <= R /\ \A k \in 1 .. Len(d) : s[R - Len(d) + k] = d[k]
    BY DEF DropInOrder, DroppedTogether
  <2>2. t1.children = [tree.children EXCEPT ![tree.parent[i]] = RemoveAt(@, r + 1)]
    BY <1>1, <1>4, RemoveChildLists
  <2>3. CASE tree.parent[i] = T
    <3>1. r \in Nat /\ r < Len(s) /\ s[r + 1] = i
      BY <1>4, <1>5, <2>3, PlaceOfChild
    <3>2. s1 = RemoveAt(s, r + 1)
      BY <1>4, <1>5, <2>2, <2>3 DEF Tree
    <3>3. row = IF R > r THEN R - 1 ELSE R
      BY <2>3 DEF DropRow
    <3>4. s \in Seq(Item) /\ d \in Seq(Item) /\ R \in Nat /\ R <= Len(s)
      BY <1>5
    <3>5. \A k \in 1 .. Len(d) : d[k] # s[r + 1]
      BY <1>9, <3>1
    <3> HIDE DEF T, R, d, s, s1, r, row
    <3>6. QED
      <4>1. LET u == RemoveAt(s, r + 1)
                w == IF R > r THEN R - 1 ELSE R
            IN  Len(d) <= w /\ \A k \in 1 .. Len(d) : u[w - Len(d) + k] = d[k]
        BY ONLY <2>1, <3>1, <3>4, <3>5, DoneStay
      <4>2. QED
        BY <3>2, <3>3, <4>1
  <2>4. CASE tree.parent[i] # T
    BY <1>4, <1>5, <2>1, <2>2, <2>4 DEF Tree, DropRow
  <2>5. QED
    BY <2>3, <2>4
<1>11. /\ Len(s2) = Len(s1) + 1
       /\ \A j \in 1 .. Len(s1) + 1 :
            s2[j] = IF j < row + 1 THEN s1[j] ELSE IF j = row + 1 THEN i ELSE s1[j - 1]
  <2>1. t2.children = [t1.children EXCEPT ![T] = InsertAt(@, row + 1, i)]
    <3>1. InsertChild(t1, T, i, row).children = [t1.children EXCEPT ![T] = InsertAt(@, row + 1, i)]
      BY <1>4, InsertChildLists
    <3>2. QED
      BY <1>2, <3>1
  <2>2. s2 = InsertAt(s1, row + 1, i)
    BY <1>4, <1>5, <2>1 DEF Tree
  <2> HIDE DEF s1, s2, row
  <2>3. Len(s1) \in Nat
    BY <1>5
  <2>4. PICK f \in 1 .. Len(s1) + 1 : f = row + 1
    BY <1>4, <2>3
  <2>5. /\ InsertAt(s1, f, i) \in Seq(Item)
        /\ Len(InsertAt(s1, f, i)) = Len(s1) + 1
        /\ \A j \in 1 .. Len(s1) + 1 :
             InsertAt(s1, f, i)[j] = IF j < f THEN s1[j] ELSE IF j = f THEN i ELSE s1[j - 1]
    <3>1. s1 \in Seq(Item)
      BY <1>5
    <3>2. QED
      BY ONLY <3>1, i \in Item, f \in 1 .. Len(s1) + 1, InsertAtFacts
  <2>6. QED
    BY <2>2, <2>4, <2>5
<1> HIDE DEF T, R, s, s1, s2, r, row
<1>12. /\ Append(d, i) \in Seq(Item) /\ Len(Append(d, i)) = Len(d) + 1 /\ Len(d) \in Nat
       /\ \A k \in 1 .. Len(d) : Append(d, i)[k] = d[k]
       /\ Append(d, i)[Len(d) + 1] = i
  BY <1>5
<1> DEFINE D == Len(d)
           e == Append(d, i)
<1>13. /\ D \in Nat /\ row \in Nat /\ Len(s1) \in Nat /\ row <= Len(s1) /\ D <= row
       /\ e[D + 1] = i
       /\ \A k \in 1 .. D : e[k] = d[k] /\ s1[row - D + k] = d[k]
  BY <1>4, <1>5, <1>10, <1>12
<1> HIDE DEF D, e
<1>14. ASSUME NEW k \in 1 .. D + 1
       PROVE  row + 1 <= Len(s2) /\ s2[(row + 1) - (D + 1) + k] = e[k]
  <2>1. (row + 1) - (D + 1) + k = row - D + k /\ row - D + k \in 1 .. Len(s1) + 1
    BY <1>13
  <2>2. CASE k = D + 1
    <3>1. row - D + k = row + 1
      BY <1>13, <2>2
    <3>2. QED
      BY <1>11, <1>13, <2>1, <2>2, <3>1
  <2>3. CASE k # D + 1
    <3>1. k \in 1 .. D /\ row - D + k < row + 1
      BY <1>13, <2>3
    <3>2. QED
      BY <1>11, <1>13, <2>1, <3>1
  <2>4. QED
    BY <2>2, <2>3
<1>15. DroppedTogether'
  <2>1. \A k \in 1 .. D + 1 : row + 1 <= Len(s2) /\ s2[(row + 1) - (D + 1) + k] = e[k]
    BY <1>14
  <2>2. Len(drop'.done) = D + 1
    BY <1>7, <1>12 DEF D
  <2>3. QED
    BY <1>7, <2>1, <2>2 DEF DroppedTogether, s2, e
<1>16. Len(drop'.done) <= drop'.row
  BY <1>7, <1>12, <1>13 DEF D
<1>17. /\ \A k, m \in 1 .. Len(drop'.items) : drop'.items[k] = drop'.items[m] => k = m
       /\ \A k \in 1 .. Len(drop'.done) : \A m \in 1 .. Len(drop'.items) :
            drop'.done[k] # drop'.items[m]
  <2>1. \A k \in 1 .. Len(drop'.items) :
          /\ k + 1 \in 1 .. Len(drop.items) /\ k + 1 # 1
          /\ drop'.items[k] = drop.items[k + 1] /\ drop'.items[k] # i
    BY <1>7, <1>8 DEF DropInOrder
  <2>2. \A k \in 1 .. Len(drop'.done) :
          drop'.done[k] = i \/ (k \in 1 .. Len(d) /\ drop'.done[k] = d[k])
    BY <1>7, <1>12
  <2>3. \A k, m \in 1 .. Len(drop'.items) : drop'.items[k] = drop'.items[m] => k = m
    <3>1. \A k, m \in 1 .. Len(drop.items) : drop.items[k] = drop.items[m] => k = m
      BY DEF DropInOrder
    <3>2. ASSUME NEW k \in 1 .. Len(drop'.items), NEW m \in 1 .. Len(drop'.items),
                 drop'.items[k] = drop'.items[m]
          PROVE  k = m
      <4>1. k + 1 = m + 1
        BY <2>1, <3>1, <3>2
      <4>2. QED
        BY <4>1
    <3>3. QED
      BY <3>2
  <2>4. ASSUME NEW k \in 1 .. Len(drop'.done), NEW m \in 1 .. Len(drop'.items)
        PROVE  drop'.done[k] # drop'.items[m]
    <3>1. drop'.items[m] = drop.items[m + 1] /\ m + 1 \in 1 .. Len(drop.items) /\ drop'.items[m] # i
      BY <2>1
    <3>2. QED
      BY <2>2, <3>1 DEF DropInOrder
  <2>5. QED
    BY <2>3, <2>4
<1>18. QED
  BY <1>6, <1>15, <1>16, <1>17 DEF DropInOrder

LEMMA DropInOrderStep ==
  ASSUME IInv, DropInOrder, [Next]_vars
  PROVE  DropInOrder'
<1>1. CASE Idle /\ Edit
  <2>1. drop' = drop /\ drag' = drag /\ drop = NoDrop
    BY <1>1, EditCases DEF Idle, Insert, RemoveFromParent, SetName, CreateModel,
       DestroyModel, AssignNil, AssignItem, EditName, StoreIndex
  <2>2. QED
    BY <2>1 DEF DropInOrder, DroppedTogether, NoDrop
<1>2. CASE Idle /\ DragAndDrop
  <2>1. drop = NoDrop
    BY <1>2 DEF Idle
  <2>2. ASSUME NEW v \in View, NEW s \in Selections, StartDrag(v, s)
        PROVE  DropInOrder'
    <3>1. drop' = drop /\ drag'.items = s
      BY <2>2 DEF StartDrag
    <3>2. QED
      BY <2>1, <3>1, SelectionsAreSets DEF DropInOrder, DroppedTogether, NoDrop
  <2>3. ASSUME NEW v \in View, NEW p \in List, NEW row \in -1 .. Len(tree.children[p]),
               Drop(v, p, row)
        PROVE  DropInOrder'
    <3> DEFINE r == IF row < 0 THEN 0 ELSE row
    <3>1. r \in Nat
      BY DEF IInv, Whole, Tree
    <3>2. drop' = [target |-> p, row |-> r, items |-> drag.items, done |-> << >>]
      BY <2>3 DEF Drop
    <3> HIDE DEF r
    <3>3. QED
      BY <2>3, <3>1, <3>2 DEF DropInOrder, DroppedTogether, Drop, NoDrag
  <2>4. CASE CancelDrag
    BY <2>1, <2>4 DEF CancelDrag, DropInOrder, DroppedTogether, NoDrop, NoDrag
  <2>5. CASE drop' = drop /\ drag' = drag
    BY <2>1, <2>5 DEF DropInOrder, DroppedTogether, NoDrop
  <2>6. QED
    BY <1>2, <2>2, <2>3, <2>4, <2>5 DEF DragAndDrop, DropExternal
<1>3. CASE DropItem
  <2>1. CASE \E i \in Item : DropMoves(i)
    BY <1>3, <2>1, DropItemInOrder
  <2>2. CASE tree' = tree /\ drop' = drop
    BY <1>3, <2>2 DEF DropItem, DropInOrder, DroppedTogether
  <2>3. CASE tree' = tree /\ drop' = [drop EXCEPT !.items = Tail(@)]
    <3>1. drop.items \in Seq(Item) /\ drop.items # << >> /\ drag' = drag
      BY <1>3 DEF DropItem, IInv
    <3>2. /\ drop'.items = Tail(drop.items) /\ drop'.row = drop.row
          /\ drop'.done = drop.done /\ drop'.target = drop.target
      BY <2>3 DEF IInv
    <3>3. \A k \in 1 .. Len(drop'.items) :
            k + 1 \in 1 .. Len(drop.items) /\ drop'.items[k] = drop.items[k + 1]
      BY <3>1, <3>2
    <3>4. QED
      BY <2>3, <3>1, <3>2, <3>3 DEF DropInOrder, DroppedTogether
  <2>4. \/ \E i \in Item : DropMoves(i)
        \/ tree' = tree /\ drop' = drop
        \/ tree' = tree /\ drop' = [drop EXCEPT !.items = Tail(@)]
    <3>1. drop.items # << >> => Head(drop.items) \in Item
      BY DEF IInv
    <3>2. QED
      BY <1>3, <3>1 DEF DropItem, DropMoves
  <2>5. QED
    BY <2>1, <2>2, <2>3, <2>4
<1>4. CASE DropEnd
  BY <1>4 DEF DropEnd, DropInOrder, DroppedTogether, NoDrop
<1>5. CASE UNCHANGED vars
  BY <1>5 DEF vars, DropInOrder, DroppedTogether
<1>6. QED
  BY <1>1, <1>2, <1>3, <1>4, <1>5 DEF Next

(* The items of a drop end side by side, in the order they were selected   *)
(* in, wherever each of them came from and also if some are refused.       *)
THEOREM DropsStayTogether == Spec => []DroppedTogether
<1>1. Init => DropInOrder
  BY DEF Init, DropInOrder, DroppedTogether, NoDrop, NoDrag
<1>2. IInv /\ DropInOrder /\ [Next]_vars => DropInOrder'
  BY DropInOrderStep
<1>3. DropInOrder => DroppedTogether
  BY DEF DropInOrder
<1>4. QED
  BY Invariance, <1>1, <1>2, <1>3, PTL DEF Spec

-----------------------------------------------------------------------------
(* Models and the indexes of the views.                                    *)

(* The roots of the models stay outside of every list.                     *)
Rooted ==
  /\ Attached(tree, root)
  /\ \A m \in Model : root[m] # None => root[m] \in RootList
  /\ \A r \in RootList : tree.parent[r] = None

IndexesStep ==
  \A e \in tree.pidx :
    /\ \A j \in Path(tree, e.item) :
         /\ tree'.parent[j] = tree.parent[j]
         /\ tree'.mdl[j] = tree.mdl[j]
         /\ last'.item # j
    => \E f \in tree'.pidx : f.model = e.model /\ f.item = e.item

LEMMA RootsStay ==
  ASSUME Rooted, root' = root, Attached(tree', root),
         \A r \in RootList : tree'.parent[r] = tree.parent[r]
  PROVE  Rooted'
BY DEF Rooted

(* Enough for a handler called for i.                                      *)
LEMMA IndexesStepOf ==
  ASSUME NEW i, last'.item = i, IndexesKept(tree, tree', i)
  PROVE  IndexesStep
BY DEF IndexesStep, IndexesKept

LEMMA NothingAttached ==
  ASSUME Rooted, root' = root, tree'.parent = tree.parent, tree'.row = tree.row,
         tree'.mdl = tree.mdl, tree'.pidx = tree.pidx
  PROVE  Rooted' /\ IndexesStep
<1>1. Attached(tree', root)
  BY SameAttached DEF Rooted
<1>2. QED
  BY <1>1, RootsStay DEF IndexesStep

LEMMA AssignRooted ==
  ASSUME RootList \cap Movable = {}, IInv, Rooted,
         NEW p \in List, NEW i \in Item, NEW old \in Item \cup {None}, Found(old),
         NEW key \in Raw \cup {None}, NEW pos \in Int,
         AssignItem(p, i, old, key, pos)
  PROVE  Rooted' /\ IndexesStep
<1>1. PICK t : t = IF old = None THEN tree ELSE RemoveItem(tree, old)
  OBVIOUS
<1>2. PICK t1 : t1 = Detach(t, i)
  OBVIOUS
<1>3. PICK t2 : t2 = IF key = None THEN t1 ELSE WithName(t1, i, key)
  OBVIOUS
<1>4. AssignOutcome(p, i, old, key, pos, t, t1, t2)
  BY <1>1, <1>2, <1>3, AssignCases
<1>5. /\ i \in Movable /\ Whole(tree) /\ Whole(t) /\ Whole(t1) /\ Whole(t2)
      /\ t.parent = IF old = None THEN tree.parent ELSE [tree.parent EXCEPT ![old] = None]
      /\ t1.parent = [t.parent EXCEPT ![i] = None]
      /\ t2.parent = t1.parent /\ t2.row = t1.row /\ t2.mdl = t1.mdl /\ t2.pidx = t1.pidx
      /\ last'.item = i /\ root' = root
  BY <1>4 DEF AssignOutcome, AssignItem, IInv
<1>6. /\ tree.parent \in [Item -> List \cup {None}] /\ t.parent \in [Item -> List \cup {None}]
      /\ t1.parent \in [Item -> List \cup {None}]
      /\ tree.pidx \subseteq PersistentIndex /\ t.pidx \subseteq PersistentIndex
      /\ t1.pidx \subseteq PersistentIndex
      /\ None \notin Item /\ List \subseteq Item /\ RootList \subseteq Item
  BY <1>5, TreeAssumption, UserItemAssumption DEF Whole, Tree
<1>7. /\ \A j \in Item : t.parent[j] = IF j = old THEN None ELSE tree.parent[j]
      /\ \A j \in Item : t1.parent[j] = IF j = i THEN None ELSE t.parent[j]
  BY <1>5, <1>6
<1>8. i \notin RootList /\ \A m \in Model : root[m] # i
  BY <1>5, <1>6 DEF Rooted
<1>9. Attached(t, root) /\ (old # None => IndexesKept(tree, t, old))
  BY <1>1, <1>5, RemoveItemAttached DEF Rooted, Found
<1>10. Attached(t1, root) /\ IndexesKept(t, t1, i)
  BY <1>2, <1>5, <1>8, <1>9, DetachAttached
<1>11. Attached(t2, root)
  BY <1>5, <1>10, SameAttached
<1>12. \A r \in RootList : t.parent[r] = None
  BY <1>6, <1>7 DEF Rooted
<1>13. CASE tree' = tree
  BY <1>5, <1>13, NothingAttached
<1>14. CASE tree' # tree
  <2>1. \/ tree' = t
        \/ key \in Raw /\ Renamed(t, i, key, tree')
        \/ Inserted(t2, p, i, pos, tree')
    BY <1>4, <1>14 DEF AssignOutcome
  <2>2. ASSUME NEW e \in tree.pidx, old = None \/ old \notin Path(tree, e.item)
        PROVE  \E f \in t.pidx : f.model = e.model /\ f.item = e.item
    BY <1>1, <1>9, <2>2 DEF IndexesKept
  <2>3. CASE Attached(tree', root) /\ tree'.pidx = t.pidx /\ tree'.parent = t.parent
    <3>1. ASSUME NEW e \in tree.pidx,
                 \A j \in Path(tree, e.item) : tree'.parent[j] = tree.parent[j]
          PROVE  old = None \/ old \notin Path(tree, e.item)
      BY <1>7, <2>3, <3>1 DEF Found
    <3>2. IndexesStep
      BY <2>2, <2>3, <3>1 DEF IndexesStep
    <3>3. Rooted'
      BY <1>5, <1>12, <2>3, RootsStay DEF Rooted
    <3>4. QED
      BY <3>2, <3>3
  <2>4. CASE Inserted(t2, p, i, pos, tree')
    <3>1. Attached(tree', root) /\ IndexesKept(t2, tree', i)
      BY <1>5, <1>8, <1>11, <2>4, InsertedAttached
    <3>2. tree'.parent = [t2.parent EXCEPT ![i] = p]
      BY <1>5, <2>4, InsertedWhole
    <3>3. \A j \in Item : j # i => tree'.parent[j] = t.parent[j]
      BY <1>5, <1>6, <1>7, <3>2
    <3>4. Rooted'
      BY <1>5, <1>6, <1>8, <1>12, <3>1, <3>3, RootsStay DEF Rooted
    <3>5. ASSUME NEW e \in tree.pidx,
                 \A j \in Path(tree, e.item) :
                   tree'.parent[j] = tree.parent[j] /\ last'.item # j
          PROVE  \E f \in tree'.pidx : f.model = e.model /\ f.item = e.item
      <4>1. old = None \/ old \notin Path(tree, e.item)
        BY <1>5, <1>7, <3>3, <3>5 DEF Found
      <4>2. PICK f \in t.pidx : f.model = e.model /\ f.item = e.item
        BY <2>2, <4>1
      <4>3. f.item \in Item /\ i \notin Path(tree, f.item)
        BY <1>5, <1>6, <3>5, <4>2 DEF PersistentIndex
      <4>4. Path(t, f.item) \subseteq Path(tree, f.item)
        BY <1>6, <1>7, <4>3, PathShrinks
      <4>5. PICK g \in t1.pidx : g.model = f.model /\ g.item = f.item
        BY <1>10, <4>3, <4>4 DEF IndexesKept
      <4>6. Path(t2, f.item) \subseteq Path(t, f.item)
        BY <1>5, <1>6, <1>7, <4>3, PathShrinks
      <4>7. \E h \in tree'.pidx : h.model = g.model /\ h.item = g.item
        BY <1>5, <3>1, <4>3, <4>4, <4>5, <4>6 DEF IndexesKept
      <4>8. QED
        BY <4>2, <4>5, <4>7
    <3>6. QED
      BY <3>4, <3>5 DEF IndexesStep
  <2>5. CASE key \in Raw /\ Renamed(t, i, key, tree')
    <3>1. /\ tree'.parent = t.parent /\ tree'.row = t.row
          /\ tree'.mdl = t.mdl /\ tree'.pidx = t.pidx
      BY <1>5, <2>5, RenamedOthers
    <3>2. Attached(tree', root)
      BY <1>9, <3>1, SameAttached
    <3>3. QED
      BY <2>3, <3>1, <3>2
  <2>6. QED
    BY <1>9, <2>1, <2>3, <2>4, <2>5
<1>15. QED
  BY <1>13, <1>14

LEMMA CreateRooted ==
  ASSUME IInv, Rooted, NEW m \in Model, NEW r \in List, CreateModel(m, r)
  PROVE  Rooted' /\ IndexesStep
<1>1. /\ root[m] = None /\ r \in RootList /\ tree.mdl[r] = None /\ tree.parent[r] = None
      /\ root' = [root EXCEPT ![m] = r] /\ tree' = SetModel(tree, r, m)
  BY DEF CreateModel, Rooted
<1>2. /\ tree \in Tree /\ ListsAgree(tree) /\ r \in Item /\ None \notin Model /\ m # None
      /\ root \in [Model -> List \cup {None}]
  BY TreeAssumption DEF IInv, Whole
<1>3. tree'.parent = tree.parent
  BY <1>1, <1>2, SetModelFacts
<1>4. /\ ModelsFollow(tree', {r}) /\ IndexesAgree(tree')
      /\ tree'.mdl[r] = m
      /\ \A j \in Item : j # r /\ tree.parent[j] = None => tree'.mdl[j] = tree.mdl[j]
      /\ \A e \in tree.pidx : e \in tree'.pidx \/ r \in Path(tree, e.item)
  <2>1. ModelsFollow(tree, {r}) /\ IndexesAgree(tree) /\ m \in Model \cup {None}
    BY DEF Rooted, Attached, ModelsFollow
  <2>2. LET u == SetModel(tree, r, m)
        IN  /\ ModelsFollow(u, {r}) /\ IndexesAgree(u)
            /\ u.pidx \subseteq tree.pidx
            /\ u.mdl[r] = m
            /\ \A j \in Item : u.mdl[j] = tree.mdl[j] \/ u.mdl[j] = m
            /\ \A j \in Item : j # r /\ tree.parent[j] = None => u.mdl[j] = tree.mdl[j]
            /\ \A e \in tree.pidx : e \in u.pidx \/ r \in Path(tree, e.item)
    BY <1>2, <2>1, SetModelModels
  <2>3. QED
    BY <1>1, <2>2
<1>5. ModelsFollow(tree', {})
  BY <1>1, <1>3, <1>4 DEF ModelsFollow
<1>6. \A k \in Model : root'[k] = IF k = m THEN r ELSE root[k]
  BY <1>1, <1>2
<1>7. ASSUME NEW j \in Item, tree'.parent[j] = None, NEW k \in Model
      PROVE  tree'.mdl[j] = k <=> root'[k] = j
  <2>1. tree.mdl[j] = k <=> root[k] = j
    BY <1>3, <1>7 DEF Rooted, Attached
  <2>2. CASE j = r
    BY <1>1, <1>2, <1>4, <1>6, <2>1, <2>2
  <2>3. CASE j # r
    <3>1. tree'.mdl[j] = tree.mdl[j]
      BY <1>3, <1>4, <1>7, <2>3
    <3>2. k = m => root[k] # j
      BY <1>1, <1>2, TreeAssumption
    <3>3. QED
      BY <1>6, <2>1, <2>3, <3>1, <3>2
  <2>4. QED
    BY <2>2, <2>3
<1>8. \A k \in Model : root'[k] # None => root'[k] \in Item /\ tree'.parent[root'[k]] = None
  BY <1>1, <1>2, <1>3, <1>6 DEF Rooted, Attached
<1>9. Attached(tree', root')
  BY <1>4, <1>5, <1>7, <1>8 DEF Attached
<1>10. Rooted'
  BY <1>1, <1>3, <1>6, <1>9 DEF Rooted
<1>11. IndexesStep
  BY <1>1, <1>2, <1>4 DEF IndexesStep
<1>12. QED
  BY <1>10, <1>11

(* With the model go the indexes of its items, and only these: they are    *)
(* the items below its root.                                               *)
LEMMA DestroyRooted ==
  ASSUME IInv, Acyclic(tree), Rooted, NEW m \in Model, DestroyModel(m)
  PROVE  Rooted' /\ IndexesStep
<1>1. PICK r : r = root[m]
  OBVIOUS
<1>2. PICK t : t = SetModel(tree, r, None)
  OBVIOUS
<1>3. /\ r \in List /\ t \in Tree
      /\ tree'.parent = tree.parent /\ tree'.row = tree.row
      /\ tree'.mdl = t.mdl /\ tree'.pidx = {e \in t.pidx : e.model # m}
  <2>1. LET w == SetModel(tree, root[m], None)
        IN  /\ root[m] \in List /\ w \in Tree
            /\ tree'.children = tree.children /\ tree'.name = tree.name
            /\ tree'.parent = tree.parent /\ tree'.row = tree.row
            /\ tree'.mdl = w.mdl /\ tree'.pidx = {e \in w.pidx : e.model # m}
    BY DestroyFacts
  <2>2. QED
    BY <1>1, <1>2, <2>1
<1>4. /\ tree \in Tree /\ ListsAgree(tree) /\ r \in Item /\ None \notin Model /\ r # None
      /\ root \in [Model -> List \cup {None}] /\ root' = [root EXCEPT ![m] = None]
  BY <1>1, <1>3, TreeAssumption DEF IInv, Whole, DestroyModel
<1>5. t.parent = tree.parent /\ t.row = tree.row
  BY <1>2, <1>4, SetModelFacts
<1>6. /\ ModelsFollow(t, {r}) /\ IndexesAgree(t)
      /\ t.mdl[r] = None
      /\ \A j \in Item : j # r /\ tree.parent[j] = None => t.mdl[j] = tree.mdl[j]
      /\ \A e \in tree.pidx : e \in t.pidx \/ r \in Path(tree, e.item)
  <2>1. ModelsFollow(tree, {r}) /\ IndexesAgree(tree)
    BY DEF Rooted, Attached, ModelsFollow
  <2>2. QED
    BY <1>2, <1>4, <2>1, SetModelModels
<1>7. tree.parent[r] = None /\ tree.mdl[r] = m
  BY <1>1, <1>4 DEF Rooted, Attached
<1>8. ModelsFollow(tree', {}) /\ IndexesAgree(tree')
  BY <1>3, <1>5, <1>6, <1>7 DEF ModelsFollow, IndexesAgree, IsIndexOf
<1>9. \A k \in Model : root'[k] = IF k = m THEN None ELSE root[k]
  BY <1>4
<1>10. ASSUME NEW j \in Item, tree'.parent[j] = None, NEW k \in Model
       PROVE  tree'.mdl[j] = k <=> root'[k] = j
  <2>1. tree.mdl[j] = k <=> root[k] = j
    BY <1>3, <1>10 DEF Rooted, Attached
  <2>2. CASE j = r
    BY <1>1, <1>3, <1>4, <1>6, <1>7, <1>9, <2>1, <2>2
  <2>3. CASE j # r
    <3>1. tree'.mdl[j] = tree.mdl[j]
      BY <1>3, <1>6, <1>10, <2>3
    <3>2. k = m => root[k] # j /\ root'[k] # j
      BY <1>1, <1>9, <2>3, TreeAssumption
    <3>3. QED
      BY <1>9, <2>1, <3>1, <3>2
  <2>4. QED
    BY <2>2, <2>3
<1>11. \A k \in Model : root'[k] # None => root'[k] \in Item /\ tree'.parent[root'[k]] = None
  BY <1>3, <1>9 DEF Rooted, Attached
<1>12. Attached(tree', root')
  BY <1>8, <1>10, <1>11 DEF Attached
<1>13. Rooted'
  BY <1>3, <1>9, <1>12 DEF Rooted
<1>14. ASSUME NEW e \in tree.pidx, \A j \in Path(tree, e.item) : tree'.mdl[j] = tree.mdl[j]
       PROVE  \E f \in tree'.pidx : f.model = e.model /\ f.item = e.item
  <2>1. r \notin Path(tree, e.item)
    BY <1>3, <1>4, <1>6, <1>7, <1>14
  <2>2. e \in t.pidx
    BY <1>6, <2>1
  <2>3. e.model # m
    <3>1. e \in PersistentIndex /\ IsIndexOf(tree, e, e.item)
      BY <1>4 DEF Rooted, Attached, IndexesAgree, Tree
    <3>2. e.item \in Item /\ e.model = tree.mdl[e.item] /\ e.model \in Model
      BY <3>1 DEF PersistentIndex, IsIndexOf
    <3>3. root[e.model] \in Path(tree, e.item)
      BY <1>4, <3>2, RootAbove DEF Rooted
    <3>4. QED
      BY <1>1, <2>1, <3>3
  <2>4. QED
    BY <1>3, <2>2, <2>3
<1>15. QED
  BY <1>13, <1>14 DEF IndexesStep

LEMMA StoreRooted ==
  ASSUME IInv, Rooted, NEW v \in View, NEW i \in Item, StoreIndex(v, i)
  PROVE  Rooted' /\ IndexesStep
<1> DEFINE m == Shows[v]
           new == [model |-> m, item |-> i, row |-> tree.row[i]]
<1>1. m \in Model /\ tree \in Tree
  BY UserItemAssumption DEF IInv, Whole
<1>2. /\ tree' = [tree EXCEPT !.pidx = tree.pidx \cup {new}] /\ root' = root
      /\ root[m] # None /\ root[m] \in Path(tree, i)
  BY DEF StoreIndex, Shown, InParentPath
<1>3. /\ tree'.parent = tree.parent /\ tree'.row = tree.row /\ tree'.mdl = tree.mdl
      /\ tree'.pidx = tree.pidx \cup {new}
  BY <1>1, <1>2 DEF Tree
<1>4. tree.mdl[i] = m
  <2>1. tree.mdl[root[m]] = m
    BY <1>1, <1>2 DEF Rooted, Attached
  <2>2. tree.mdl[root[m]] = tree.mdl[i]
    BY <1>1, <1>2, ModelOfPath DEF Rooted, Attached
  <2>3. QED
    BY <2>1, <2>2
<1> HIDE DEF m
<1>5. IndexesAgree(tree')
  <2>1. new = [model |-> tree.mdl[new.item], item |-> new.item, row |-> tree.row[new.item]]
    BY <1>4
  <2>2. \A e \in tree.pidx : e = [model |-> tree.mdl[e.item], item |-> e.item, row |-> tree.row[e.item]]
    BY DEF Rooted, Attached, IndexesAgree, IsIndexOf
  <2> HIDE DEF new
  <2>3. QED
    BY <1>3, <2>1, <2>2 DEF IndexesAgree, IsIndexOf
<1>6. Attached(tree', root)
  BY <1>3, <1>5 DEF Rooted, Attached, ModelsFollow
<1>7. QED
  BY <1>2, <1>3, <1>6, RootsStay DEF IndexesStep

LEMMA EditRooted ==
  ASSUME RootList \cap Movable = {}, IInv, Acyclic(tree), Rooted, Edit
  PROVE  Rooted' /\ IndexesStep
<1>1. Whole(tree) /\ tree.parent \in [Item -> List \cup {None}] /\ RootList \subseteq List
  BY UserItemAssumption DEF IInv, Whole, Tree
<1>2. ASSUME NEW i \in Item, NEW p \in List, NEW pos \in Int, Insert(i, p, pos)
      PROVE  Rooted' /\ IndexesStep
  <2>1. Inserted(tree, p, i, pos, tree') /\ last'.item = i /\ root' = root /\ i \notin RootList
    BY <1>2 DEF Insert, Did
  <2>2. \A m \in Model : root[m] # i
    BY <2>1, TreeAssumption DEF Rooted
  <2>3. Attached(tree', root) /\ IndexesKept(tree, tree', i)
    BY <1>1, <2>1, <2>2, InsertedAttached DEF Rooted
  <2>4. tree'.parent = [tree.parent EXCEPT ![i] = p]
    BY <1>1, <2>1, InsertedWhole
  <2>5. \A r \in RootList : tree'.parent[r] = tree.parent[r]
    BY <1>1, <2>1, <2>4
  <2>6. QED
    BY <2>1, <2>3, <2>5, RootsStay, IndexesStepOf
<1>3. ASSUME NEW i \in Item, tree.parent[i] # None, tree' = RemoveItem(tree, i),
             last'.item = i, root' = root
      PROVE  Rooted' /\ IndexesStep
  <2>1. Attached(tree', root) /\ IndexesKept(tree, tree', i)
    BY <1>1, <1>3, RemoveItemAttached DEF Rooted
  <2>2. tree'.parent = [tree.parent EXCEPT ![i] = None]
    BY <1>1, <1>3, RemoveItemWhole
  <2>3. \A r \in RootList : tree'.parent[r] = tree.parent[r]
    BY <1>1, <1>3, <2>2 DEF Rooted
  <2>4. QED
    BY <1>3, <2>1, <2>3, RootsStay, IndexesStepOf
<1>4. ASSUME NEW i \in Item, RemoveFromParent(i)
      PROVE  Rooted' /\ IndexesStep
  BY <1>3, <1>4 DEF RemoveFromParent, Did
<1>5. ASSUME NEW i \in Item, NEW raw \in Raw, Renamed(tree, i, raw, tree'), root' = root
      PROVE  Rooted' /\ IndexesStep
  <2>1. /\ tree'.parent = tree.parent /\ tree'.row = tree.row
        /\ tree'.mdl = tree.mdl /\ tree'.pidx = tree.pidx
    BY <1>1, <1>5, RenamedOthers
  <2>2. QED
    BY <1>5, <2>1, NothingAttached
<1>6. ASSUME NEW i \in Item, NEW raw \in Raw, SetName(i, raw)
      PROVE  Rooted' /\ IndexesStep
  BY <1>5, <1>6 DEF SetName
<1>7. ASSUME NEW v \in View, NEW i \in Item, NEW raw \in Raw, EditName(v, i, raw)
      PROVE  Rooted' /\ IndexesStep
  BY <1>5, <1>7 DEF EditName
<1>8. ASSUME NEW old \in Item, tree.parent[old] # None, AssignNil(old)
      PROVE  Rooted' /\ IndexesStep
  <2>1. CASE tree' = tree
    BY <1>8, <2>1, NothingAttached DEF AssignNil
  <2>2. CASE tree' = RemoveItem(tree, old) /\ last'.item = old
    BY <1>3, <1>8, <2>2 DEF AssignNil
  <2>3. QED
    BY <1>8, <2>1, <2>2 DEF AssignNil, Deny, Did
<1>9. QED
  BY EditCases, AssignRooted, CreateRooted, DestroyRooted, StoreRooted,
     <1>2, <1>4, <1>6, <1>7, <1>8

LEMMA EditRootedInvariance ==
  ASSUME RootList \cap Movable = {}
  PROVE  EditSpec => [](IInv /\ Acyclic(tree) /\ Rooted)
<1>1. Init => Rooted
  <2> SUFFICES ASSUME Init
               PROVE  Rooted
    OBVIOUS
  <2>1. /\ tree.parent = [i \in Item |-> None] /\ tree.mdl = [i \in Item |-> None]
        /\ tree.pidx = {} /\ root = [m \in Model |-> None]
    BY DEF Init, NewTree
  <2>2. RootList \subseteq Item /\ None \notin Item \cup Model
    BY TreeAssumption, UserItemAssumption
  <2>3. QED
    BY <2>1, <2>2 DEF Rooted, Attached, ModelsFollow, IndexesAgree
<1>2. ASSUME IInv, Acyclic(tree), Rooted, [EditNext]_vars
      PROVE  Rooted'
  <2>1. CASE EditNext
    BY <1>2, <2>1, EditRooted DEF EditNext
  <2>2. CASE UNCHANGED vars
    BY <1>2, <2>2, NothingAttached DEF vars
  <2>3. QED
    BY <1>2, <2>1, <2>2
<1>3. QED
  BY EditInvariance, <1>1, <1>2, PTL DEF EditSpec

(* As long as nothing is dragged: every item is attached to the model it   *)
(* is shown by and to no other, and every index a view has stored denotes  *)
(* its item.  No root of a model is ever put in a list.  (A drop moves an  *)
(* item without set_model and breaks this between the trees of two models, *)
(* which is why the theorem is about EditSpec.)                            *)
THEOREM ModelsStayConsistent ==
  ASSUME RootList \cap Movable = {}
  PROVE  EditSpec => []ModelsConsistent
<1>1. Rooted => ModelsConsistent
  BY DEF Rooted, Attached, ModelsFollow, ModelsConsistent
<1>2. QED
  BY EditRootedInvariance, <1>1, PTL

(* A view loses an index it has stored only if its item or one above it    *)
(* moves or leaves the model: however many items a handler touches, the    *)
(* indexes of all others follow them.                                      *)
THEOREM IndexesAlwaysFollow ==
  ASSUME RootList \cap Movable = {}
  PROVE  EditSpec => IndexesFollow
<1>1. ASSUME IInv, Acyclic(tree), Rooted, [EditNext]_vars
      PROVE  [\A e \in tree.pidx :
                /\ \A j \in Path(tree, e.item) :
                     /\ tree'.parent[j] = tree.parent[j]
                     /\ tree'.mdl[j] = tree.mdl[j]
                     /\ last'.item # j
                => \E f \in tree'.pidx : f.model = e.model /\ f.item = e.item]_vars
  BY <1>1, EditRooted DEF EditNext, IndexesStep
<1>2. QED
  BY EditRootedInvariance, <1>1, PTL DEF IndexesFollow, EditSpec
=============================================================================
