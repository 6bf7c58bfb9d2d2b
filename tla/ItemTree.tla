------------------------------ MODULE ItemTree ------------------------------
(***************************************************************************)
(* The data structure shared by the UserItem, UserListItem and             *)
(* UserItemModel classes: items that hang in the child lists of list       *)
(* items, the name index each list keeps of its children, the model each   *)
(* item is attached to, and the persistent indexes the views of a model    *)
(* hold on its items.                                                      *)
(*                                                                         *)
(* A tree is a record t:                                                   *)
(*   t.children[p]  UserListItem::_child_list                              *)
(*   t.hash[p][n]   UserListItem::_child_hash, None where it has no entry  *)
(*   t.counter[p]   UserListItem::_id_counter                              *)
(*   t.name[i]      UserItem::_name                                        *)
(*   t.parent[i]    UserItem::_parent, None for the null pointer           *)
(*   t.row[i]       UserItem::_row, -1 outside of any list                 *)
(*   t.mdl[i]       UserItem::_model, None for the null pointer            *)
(*   t.pidx         the valid QPersistentModelIndexes of the attached      *)
(*                  views, as records [model, item, row]                   *)
(* and every member function that changes it is an operator from trees to  *)
(* trees.  The state machine over trees is in module UserItem.             *)
(***************************************************************************)
EXTENDS Integers, Sequences, SequencesExt

CONSTANTS
  Item,      \* the UserItem objects of the program
  List,      \* those of them that are UserListItems
  Model,     \* the UserItemModel objects
  Base,      \* identifiers without a numeric suffix
  MaxId,     \* bound: the largest suffix _id_counter hands out
  Illegal,   \* strings insert_name changes: not an identifier, or empty
  Mangle,    \* Mangle[s]: the identifier it makes of such a string
  None       \* the null pointer

(* The name <<b, 0>> is the identifier b, <<b, k>> is b followed by _k.    *)
Name == Base \X (0 .. MaxId)
Raw == Name \cup Illegal

ASSUME TreeAssumption ==
  /\ List \subseteq Item
  /\ MaxId \in Nat
  /\ Mangle \in [Illegal -> Name]
  /\ Illegal \cap Name = {}
  /\ None \notin Item \cup Model

PersistentIndex == [model : Model, item : Item, row : Nat]

Tree == [children : [List -> Seq(Item)],
         hash     : [List -> [Name -> Item \cup {None}]],
         counter  : [List -> 1 .. MaxId + 1],
         name     : [Item -> Raw],
         parent   : [Item -> List \cup {None}],
         row      : [Item -> Nat \cup {-1}],
         mdl      : [Item -> Model \cup {None}],
         pidx     : SUBSET PersistentIndex]

(* Freshly constructed items: in no list, attached to no model.            *)
NewTree(names) ==
  [children |-> [p \in List |-> << >>],
   hash     |-> [p \in List |-> [n \in Name |-> None]],
   counter  |-> [p \in List |-> 1],
   name     |-> names,
   parent   |-> [i \in Item |-> None],
   row      |-> [i \in Item |-> -1],
   mdl      |-> [i \in Item |-> None],
   pidx     |-> {}]

-----------------------------------------------------------------------------
(* The lists above i, found by following the parents: the least set of     *)
(* lists that holds the parents of i and of its members.                   *)
Above(t, i) ==
  {p \in List : \A S \in SUBSET List :
     (\A k \in S \cup {i} : t.parent[k] \in S \cup {None}) => p \in S}

Path(t, i) == {i} \cup Above(t, i)

(* Mutant of InParentPath: the list itself is not looked at.               *)
InParentPathAboveOnly(t, p, i) == i \in Above(t, p)

InParentPath(t, p, i) == i \in Path(t, p)

(* UserItem::get_model_index() is the index (row, 0, item) of the model    *)
(* the item is attached to; this entry of the view is that index.          *)
IsIndexOf(t, e, i) == e = [model |-> t.mdl[i], item |-> i, row |-> t.row[i]]

(* UserListItem::set_model(m) called on i calls set_model(m) on its        *)
(* children, unless the list is attached to m already: these are the lists *)
(* whose children are visited, the least set that holds i, if it is such a *)
(* list, and those of the children of its members that are.                *)
Entered(t, i, m) ==
  LET open == {p \in List : t.mdl[p] # m}
  IN  {p \in open : \A S \in SUBSET open :
         (/\ i \in open => i \in S
          /\ \A k \in S : ToSet(t.children[k]) \cap open \subseteq S) => p \in S}

(* Mutant of SetModelVisits: the children are forgotten.                   *)
SetModelVisitsSelfOnly(t, i, m) == {i}

SetModelVisits(t, i, m) ==
  {i} \cup UNION {ToSet(t.children[p]) : p \in Entered(t, i, m)}

(* Every item visited leaves its former model, if that was another one,    *)
(* whose index of it becomes invalid.                                      *)
SetModel(t, i, m) ==
  LET visited == SetModelVisits(t, i, m)
  IN  [t EXCEPT
        !.mdl  = [j \in Item |-> IF j \in visited THEN m ELSE @[j]],
        !.pidx = {e \in @ : ~ (/\ e.item \in visited
                               /\ t.mdl[e.item] # m
                               /\ IsIndexOf(t, e, e.item))}]

(* The rows after the children of p have been renumbered from first on.    *)
Renumbered(t, p, first) ==
  LET list == t.children[p]
  IN  [j \in Item |->
        IF \E k \in first + 1 .. Len(list) : list[k] = j
        THEN (CHOOSE k \in first + 1 .. Len(list) : list[k] = j) - 1
        ELSE t.row[j]]

(* The stored indexes the model of p moves along with the children of p.   *)
Follows(t, p, e) == e.model = t.mdl[p] /\ IsIndexOf(t, e, e.item)

(* Mutants of ChangeIndexes: the rows are not updated; the stored indexes  *)
(* are dropped.                                                            *)
ChangeIndexesNothing(t, p, first) == t
ChangeIndexesDropping(t, p, first) ==
  [t EXCEPT !.row = Renumbered(t, p, first),
            !.pidx = {e \in @ : Follows(t, p, e) => Renumbered(t, p, first)[e.item] = e.row}]

ChangeIndexes(t, p, first) ==
  LET newrow == Renumbered(t, p, first)
  IN  [t EXCEPT
        !.row  = newrow,
        !.pidx = {IF Follows(t, p, e) THEN [e EXCEPT !.row = newrow[e.item]] ELSE e : e \in @}]

(* Mutant of RemoveName: the entry stays in the index.                     *)
RemoveNameNothing(t, p, n) == t

RemoveName(t, p, n) ==
  IF n \in Illegal THEN t ELSE [t EXCEPT !.hash[p][n] = None]

(* Mutant of RemoveChild: the last child fills the gap.                    *)
RemoveChildSwapping(t, i) ==
  LET p  == t.parent[i]
      t1 == RemoveName(t, p, t.name[i])
      list == t.children[p]
      t2 == [t1 EXCEPT !.children[p] = Front([list EXCEPT ![t.row[i] + 1] = Last(list)])]
      t3 == ChangeIndexes(t2, p, t.row[i])
  IN  [t3 EXCEPT !.parent[i] = None, !.row[i] = -1]

RemoveChild(t, i) ==
  LET p  == t.parent[i]
      t1 == RemoveName(t, p, t.name[i])
      t2 == [t1 EXCEPT !.children[p] = RemoveAt(@, t.row[i] + 1)]
      t3 == ChangeIndexes(t2, p, t.row[i])
  IN  [t3 EXCEPT !.parent[i] = None, !.row[i] = -1]

InsertChild(t, p, i, row) ==
  LET t1 == [t EXCEPT !.children[p] = InsertAt(@, row + 1, i),
                      !.parent[i] = p,
                      !.row[i] = row]
  IN  ChangeIndexes(t1, p, row + 1)

-----------------------------------------------------------------------------
(* Naming.  insert_name makes an identifier of the name the item carries;  *)
(* if the list has a child of that name, the suffix is replaced by the     *)
(* counter, which advances until the result is new.                        *)
Clean(raw) == IF raw \in Illegal THEN Mangle[raw] ELSE raw

Lookup(t, p, raw) == IF raw \in Illegal THEN None ELSE t.hash[p][raw]

ChosenName(t, p, i, n) ==
  LET wanted == Clean(t.name[i])
      base   == wanted[1]
  IN  IF t.hash[p][wanted] = None
      THEN n = wanted
      ELSE \E k \in t.counter[p] .. MaxId :
             /\ n = <<base, k>>
             /\ t.hash[p][<<base, k>>] = None
             /\ \A j \in t.counter[p] .. k - 1 : t.hash[p][<<base, j>>] # None

(* Mutant of InsertName: the child that has the name gives it up.          *)
InsertNameEvicting(t, p, i, n) ==
  LET wanted == Clean(t.name[i])
      other  == t.hash[p][wanted]
  IN  IF other = None
      THEN [t EXCEPT !.hash[p][n] = i, !.name[i] = n]
      ELSE [t EXCEPT !.hash[p] = [@ EXCEPT ![wanted] = i, ![n] = other],
                     !.name = [@ EXCEPT ![i] = wanted, ![other] = n],
                     !.counter[p] = n[2] + 1]

(* insert_name, n being the ChosenName of i in p.                          *)
InsertName(t, p, i, n) ==
  [t EXCEPT !.hash[p][n] = i,
            !.name[i] = n,
            !.counter[p] = IF n = Clean(t.name[i]) THEN @ ELSE n[2] + 1]

-----------------------------------------------------------------------------
(* The operations of UserItem.                                             *)

RemoveItem(t, i) == RemoveChild(SetModel(t, i, None), i)

Detach(t, i) == IF t.parent[i] = None THEN t ELSE RemoveItem(t, i)

(* insert up to the call of insert_name: leave the present list, join the  *)
(* model of p, take the place pos of p, or the last one.                   *)
Place(t, p, i, pos) ==
  LET t1  == Detach(t, i)
      t2  == SetModel(t1, i, t1.mdl[p])
      n   == Len(t2.children[p])
      row == IF pos < 0 \/ pos > n THEN n ELSE pos
  IN  InsertChild(t2, p, i, row)

(* u is the result of a call of insert.                                    *)
Inserted(t, p, i, pos, u) ==
  LET t1 == Place(t, p, i, pos)
  IN  \E n \in Name : ChosenName(t1, p, i, n) /\ u = InsertName(t1, p, i, n)

WithName(t, i, raw) == [t EXCEPT !.name[i] = raw]

(* u is the result of a call of set_name.                                  *)
Renamed(t, i, raw, u) ==
  LET p == t.parent[i]
  IN  IF p = None
      THEN u = WithName(t, i, raw)
      ELSE LET t1 == WithName(RemoveName(t, p, t.name[i]), i, raw)
           IN  \E n \in Name : ChosenName(t1, p, i, n) /\ u = InsertName(t1, p, i, n)

-----------------------------------------------------------------------------
(* What the code relies on wherever it follows one of these links.         *)

(* The parent and row of an item say where it is in which child list.      *)
ListsAgree(t) ==
  /\ \A p \in List : \A k \in 1 .. Len(t.children[p]) :
       LET i == t.children[p][k] IN t.parent[i] = p /\ t.row[i] = k - 1
  /\ \A i \in Item :
       IF t.parent[i] = None
       THEN t.row[i] = -1
       ELSE /\ t.row[i] + 1 \in 1 .. Len(t.children[t.parent[i]])
            /\ t.children[t.parent[i]][t.row[i] + 1] = i

(* A list finds a child by a name exactly if the child has that name.      *)
NamesAgree(t) ==
  \A p \in List : \A n \in Name : \A i \in Item :
    t.hash[p][n] = i <=> t.parent[i] = p /\ t.name[i] = n

(* The names of children are identifiers: scripts can write p.name.        *)
ChildNamesLegal(t) == \A i \in Item : t.parent[i] # None => t.name[i] \in Name

(* Nothing hangs below itself: every set of lists has a topmost member.    *)
Acyclic(t) ==
  \A S \in SUBSET List : S # {} => \E p \in S : t.parent[p] \notin S

(* The persistent indexes denote the place where their item is.            *)
IndexesAgree(t) == \A e \in t.pidx : IsIndexOf(t, e, e.item)
=============================================================================
