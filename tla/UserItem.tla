------------------------------ MODULE UserItem ------------------------------
(***************************************************************************)
(* Lua scripts, C++ code and Qt views edit the same item trees.            *)
(*                                                                         *)
(* All of it runs in the GUI thread, so a handler is one step, with two    *)
(* exceptions: a drag spans a nested event loop between the mousepress and *)
(* the drop, in which timers and scripts may run; and the loop of          *)
(* dropMimeData over the dragged items is modelled item by item, nothing   *)
(* else running until it ends.                                             *)
(***************************************************************************)
EXTENDS ItemTree

CONSTANTS
  View,         \* the item views
  Shows,        \* Shows[v]: the model v is set to
  InitName,     \* InitName[i]: the name i is constructed with
  Typed,        \* the strings scripts and users give as names and keys
  Movable,      \* the items anybody ever inserts in a list
  RootList,     \* the lists models are made of
  NoRename, NoMove, NoRemove, NoReplace, \* the items whose is_..._allowed() is false
  Tracked,      \* bound: the items whose index a view ever stores
  Accepts,      \* the <<list, item>> for which accept_child is true
  EditsWhileDragging  \* whether scripts run in the event loop of a drag

ASSUME UserItemAssumption ==
  /\ Shows \in [View -> Model]
  /\ InitName \in [Item -> Raw]
  /\ Typed \subseteq Raw
  /\ Movable \subseteq Item /\ RootList \subseteq List /\ Tracked \subseteq Item
  /\ EditsWhileDragging \in BOOLEAN

VARIABLES
  tree,   \* see module ItemTree
  root,   \* root[m]: UserItemModel::_root, None while m does not exist
  drag,   \* the drag in progress: the view it started in and its _itemlist
  drop,   \* the dropMimeData call in progress
  fault,  \* TRUE once the null pointer has been dereferenced
  last    \* observer: who ran the last handler, and on which item

vars == <<tree, root, drag, drop, fault, last>>

NoDrag == [view |-> None, items |-> << >>]
NoDrop == [target |-> None, row |-> 0, items |-> << >>, done |-> << >>]

Initiator == {"app", "remove", "assign", "denied", "view", "drop", "external"}

Did(who, i) == last' = [by |-> who, item |-> i]

Init ==
  /\ tree = NewTree(InitName)
  /\ root = [m \in Model |-> None]
  /\ drag = NoDrag
  /\ drop = NoDrop
  /\ fault = FALSE
  /\ last = [by |-> "app", item |-> None]

-----------------------------------------------------------------------------
(* C++ code.                                                               *)

(* UserItem::insert.  It does not look for cycles: that i is not above p   *)
(* is up to its caller.                                                    *)
Insert(i, p, pos) ==
  /\ i \in Movable
  /\ ~ InParentPath(tree, p, i)
  /\ Inserted(tree, p, i, pos, tree')
  /\ Did("app", i)
  /\ UNCHANGED <<root, drag, drop, fault>>

(* UserItem::remove, which asserts that there is a parent.                 *)
RemoveFromParent(i) ==
  /\ tree.parent[i] # None
  /\ tree' = RemoveItem(tree, i)
  /\ Did("app", i)
  /\ UNCHANGED <<root, drag, drop, fault>>

SetName(i, raw) ==
  /\ Renamed(tree, i, raw, tree')
  /\ Did("app", i)
  /\ UNCHANGED <<root, drag, drop, fault>>

(* The constructor of UserItemModel asserts that the root is free.         *)
CreateModel(m, r) ==
  /\ root[m] = None
  /\ r \in RootList
  /\ tree.mdl[r] = None
  /\ root' = [root EXCEPT ![m] = r]
  /\ tree' = SetModel(tree, r, m)
  /\ Did("app", None)
  /\ UNCHANGED <<drag, drop, fault>>

(* The destructor detaches the tree; QAbstractItemModel's then invalidates *)
(* what indexes are left.  A view that is dragging keeps its model.        *)
DestroyModel(m) ==
  /\ root[m] # None
  /\ drag.view # None => Shows[drag.view] # m
  /\ LET t == SetModel(tree, root[m], None)
     IN  tree' = [t EXCEPT !.pidx = {e \in @ : e.model # m}]
  /\ root' = [root EXCEPT ![m] = None]
  /\ Did("app", None)
  /\ UNCHANGED <<drag, drop, fault>>

-----------------------------------------------------------------------------
(* Lua scripts: UserListItem::meta_newindex.                               *)

Deny(i, t) == Did("denied", i) /\ tree' = t

(* p[key] = nil, old being the child found under key.                      *)
AssignNil(old) ==
  /\ IF old \in NoRemove
     THEN Deny(old, tree)
     ELSE Did("remove", old) /\ tree' = RemoveItem(tree, old)
  /\ UNCHANGED <<root, drag, drop, fault>>

(* Mutant of MoveDenied: accept_child is not asked.                        *)
MoveDeniedByItem(p, i) == i \in NoMove

MoveDenied(p, i) == i \in NoMove \/ <<p, i>> \notin Accepts

(* p[key] = i, old being the child found under key, or None: the child in  *)
(* the way goes first, then the item is checked and moved.  A string key   *)
(* renames the item; a number gives its position.                          *)
AssignItem(p, i, old, key, pos) ==
  LET t == IF old = None THEN tree ELSE RemoveItem(tree, old)
      rename == t.parent[i] = p /\ key # None
  IN
  /\ i \in Movable
  /\ \/ /\ InParentPath(tree, p, i) \/ old \in NoReplace
        /\ Deny(i, tree)
     \/ /\ ~ InParentPath(tree, p, i)
        /\ old \notin NoReplace
        /\ \/ /\ rename
              /\ IF i \in NoRename
                 THEN Deny(i, t)
                 ELSE Did("assign", i) /\ Renamed(t, i, key, tree')
           \/ /\ ~ rename
              /\ IF t.parent[i] # p /\ MoveDenied(p, i)
                 THEN Deny(i, t)
                 ELSE LET t1 == Detach(t, i)
                          t2 == IF key = None THEN t1 ELSE WithName(t1, i, key)
                      IN  Did("assign", i) /\ Inserted(t2, p, i, pos, tree')
  /\ UNCHANGED <<root, drag, drop, fault>>

(* key is a string, or a number of which the code sees the unsigned value. *)
ChildAt(p, c) ==
  IF c \in 1 .. Len(tree.children[p]) THEN tree.children[p][c] ELSE None

ScriptRemove(p) ==
  \/ \E key \in Typed :
       Lookup(tree, p, key) # None /\ AssignNil(Lookup(tree, p, key))
  \/ \E c \in 1 .. Len(tree.children[p]) : AssignNil(ChildAt(p, c))

ScriptAssign(p, i) ==
  \/ \E key \in Typed : AssignItem(p, i, Lookup(tree, p, key), key, -1)
  \/ \E c \in 0 .. Len(tree.children[p]) + 1 : AssignItem(p, i, ChildAt(p, c), None, c - 1)

-----------------------------------------------------------------------------
(* Qt views.  What a view shows of its model is reached from the root.     *)

Shown(m) == {i \in Item : root[m] # None /\ InParentPath(tree, i, root[m])}

(* setData with EditRole: delegates edit items whose flags say editable.   *)
EditName(v, i, raw) ==
  /\ i \in Shown(Shows[v]) \ ({root[Shows[v]]} \cup NoRename)
  /\ Renamed(tree, i, raw, tree')
  /\ Did("view", i)
  /\ UNCHANGED <<root, drag, drop, fault>>

(* A view stores the index of an item: the current one, an expanded one.   *)
StoreIndex(v, i) ==
  /\ i \in (Tracked \cap Shown(Shows[v])) \ {root[Shows[v]]}
  /\ tree' = [tree EXCEPT !.pidx =
       @ \cup {[model |-> Shows[v], item |-> i, row |-> tree.row[i]]}]
  /\ UNCHANGED <<root, drag, drop, fault, last>>

(* mimeData: the selected items whose flags say draggable.                 *)
StartDrag(v, items) ==
  /\ drag = NoDrag
  /\ ToSet(items) \subseteq Shown(Shows[v]) \ ({root[Shows[v]]} \cup NoMove)
  /\ drag' = [view |-> v, items |-> items]
  /\ UNCHANGED <<tree, root, drop, fault, last>>

CancelDrag ==
  /\ drag # NoDrag
  /\ drag' = NoDrag
  /\ UNCHANGED <<tree, root, drop, fault, last>>

(* Qt calls dropMimeData with row -1 for a drop on p itself; the view the  *)
(* drag started in refuses a drop on or in one of the dragged items.       *)
Drop(v, p, row) ==
  /\ drag # NoDrag
  /\ p \in List \cap Shown(Shows[v])
  /\ row \in -1 .. Len(tree.children[p])
  /\ v = drag.view => Path(tree, p) \cap ToSet(drag.items) = {}
  /\ drop' = [target |-> p, row |-> IF row < 0 THEN 0 ELSE row,
              items |-> drag.items, done |-> << >>]
  /\ drag' = NoDrag
  /\ UNCHANGED <<tree, root, fault, last>>

(* Mutant of DropRow: the gap the item leaves is not accounted for, but at *)
(* the end of the list.                                                    *)
DropRowPlain(i) ==
  IF tree.parent[i] = drop.target /\ drop.row = Len(tree.children[drop.target])
  THEN drop.row - 1 ELSE drop.row

(* The row to drop i at, once it has left its list.                        *)
DropRow(i) ==
  IF tree.parent[i] = drop.target /\ drop.row > tree.row[i] THEN drop.row - 1 ELSE drop.row

(* The body of the loop.  It takes the item from its list and puts it in   *)
(* the target with the private functions, without set_model.               *)
DropItem ==
  LET i == Head(drop.items)
      p == tree.parent[i]
      target == drop.target
      row == DropRow(i)
      skip == MoveDenied(target, i)
      t == InsertChild(RemoveChild(tree, i), target, i, row)
  IN
  /\ drop.items # << >>
  /\ \/ /\ skip
        /\ drop' = [drop EXCEPT !.items = Tail(@)]
        /\ UNCHANGED <<tree, fault, last>>
     \/ /\ ~ skip /\ p = None
        /\ fault' = TRUE
        /\ UNCHANGED <<tree, drop, last>>
     \/ /\ ~ skip /\ p # None
        /\ \E n \in Name : ChosenName(t, target, i, n) /\ tree' = InsertName(t, target, i, n)
        /\ drop' = [drop EXCEPT !.items = Tail(@), !.row = row + 1, !.done = Append(@, i)]
        /\ Did("drop", i)
        /\ UNCHANGED fault
  /\ UNCHANGED <<root, drag>>

DropEnd ==
  /\ drop # NoDrop
  /\ drop.items = << >>
  /\ drop' = NoDrop
  /\ UNCHANGED <<tree, root, drag, fault, last>>

(* A drop from another program: from_mimedata makes a new item of it.      *)
DropExternal(v, p, row, i) ==
  /\ p \in List \cap Shown(Shows[v])
  /\ row \in -1 .. Len(tree.children[p])
  /\ i \in Movable \ List
  /\ tree.parent[i] = None /\ tree.mdl[i] = None
  /\ Inserted(tree, p, i, IF row < 0 THEN 0 ELSE row, tree')
  /\ Did("external", i)
  /\ UNCHANGED <<root, drag, drop, fault>>

-----------------------------------------------------------------------------
Selections == {<<i>> : i \in Item} \cup ((Item \X Item) \ {<<i, i>> : i \in Item})

Edit ==
  \/ \E i \in Item, p \in List : \E pos \in -1 .. Len(tree.children[p]) : Insert(i, p, pos)
  \/ \E i \in Item : RemoveFromParent(i)
  \/ \E i \in Item, raw \in Typed : SetName(i, raw)
  \/ \E m \in Model, r \in List : CreateModel(m, r)
  \/ \E m \in Model : DestroyModel(m)
  \/ \E p \in List : ScriptRemove(p)
  \/ \E p \in List, i \in Item : ScriptAssign(p, i)
  \/ \E v \in View, i \in Item, raw \in Typed : EditName(v, i, raw)
  \/ \E v \in View, i \in Item : StoreIndex(v, i)

DragAndDrop ==
  \/ \E v \in View : \E s \in Selections : StartDrag(v, s)
  \/ CancelDrag
  \/ \E v \in View, p \in List : \E row \in -1 .. Len(tree.children[p]) : Drop(v, p, row)
  \/ \E v \in View, p \in List, i \in Item : \E row \in -1 .. Len(tree.children[p]) :
       DropExternal(v, p, row, i)

Idle == drop = NoDrop /\ ~ fault

(* Everything but the drags: what scripts, C++ code and delegates do.      *)
EditNext == Idle /\ Edit

Next ==
  \/ Idle /\ (drag = NoDrag \/ EditsWhileDragging) /\ Edit
  \/ Idle /\ DragAndDrop
  \/ ~ fault /\ DropItem
  \/ DropEnd

EditSpec == Init /\ [][EditNext]_vars
Spec == Init /\ [][Next]_vars

-----------------------------------------------------------------------------
TypeOK ==
  /\ tree \in Tree
  /\ root \in [Model -> List \cup {None}]
  /\ drag \in [view : View \cup {None}, items : Seq(Item)]
  /\ drop \in [target : List \cup {None}, row : Nat, items : Seq(Item), done : Seq(Item)]
  /\ fault \in BOOLEAN
  /\ last \in [by : Initiator, item : Item \cup {None}]

(* The parent and row pointers of the items and the child lists agree,     *)
(* whoever edits the tree and also between two items of a drop:            *)
(* remove_child and the views use row as an index without checking it.     *)
ListsConsistent == ListsAgree(tree)

(* The name index finds exactly the children, by exactly their names: no   *)
(* two children share a name and no entry outlives its item, which the     *)
(* index does not keep alive.                                              *)
NamesConsistent == NamesAgree(tree) /\ ChildNamesLegal(tree)

(* No edit puts an item below itself: in_parent_path, set_model and the    *)
(* views would never return.                                               *)
NoCycle == Acyclic(tree)

(* An item is attached to a model exactly if it is in the tree of the      *)
(* root of that model: its changes are signalled to the views that show    *)
(* it, and ~UserItem and ~UserListItem find no model to detach from.  The  *)
(* indexes views store stay those of their items: changePersistentIndex is *)
(* called for every item whose row or model changes.                       *)
ModelsConsistent ==
  /\ \A i \in Item :
       IF tree.parent[i] # None
       THEN tree.mdl[i] = tree.mdl[tree.parent[i]]
       ELSE \A m \in Model : tree.mdl[i] = m <=> root[m] = i
  /\ IndexesAgree(tree)

(* The items of a drop end side by side at the place of the drop, in the   *)
(* order of the selection, also if some came from before that place in the *)
(* same list: the row is corrected for each.                               *)
DroppedTogether ==
  \A k \in 1 .. Len(drop.done) :
    /\ drop.row <= Len(tree.children[drop.target])
    /\ tree.children[drop.target][drop.row - Len(drop.done) + k] = drop.done[k]

(* dropMimeData never follows the null parent of an item that has been     *)
(* removed since the drag began.                                           *)
NoNullParent == ~ fault

(* A handler renames no item but the one it is called for: a name that is  *)
(* taken makes the newcomer change, never the child a script knows by it.  *)
OthersKeepName ==
  [][\A i \in Item : tree'.name[i] # tree.name[i] => last'.item = i]_vars

(* Moving an item, in or out or by a drop, never changes the order of the  *)
(* other items of a list.                                                  *)
OthersKeepOrder ==
  [][\A i, j \in Item \ {last'.item} :
       /\ tree.parent[i] # None /\ tree.parent[i] = tree.parent[j]
       /\ tree'.parent[i] = tree.parent[i] /\ tree'.parent[j] = tree.parent[j]
       => (tree.row[i] < tree.row[j] <=> tree'.row[i] < tree'.row[j])]_vars

(* A stored index survives the edits of the other items: a view loses the  *)
(* index of an item only if the item, or one above it, leaves its place or *)
(* the model goes away.                                                    *)
IndexesFollow ==
  [][\A e \in tree.pidx :
       /\ \A j \in Path(tree, e.item) :
            /\ tree'.parent[j] = tree.parent[j]
            /\ tree'.mdl[j] = tree.mdl[j]
            /\ last'.item # j
       => \E f \in tree'.pidx : f.model = e.model /\ f.item = e.item]_vars

(* A script takes an item out of a list only by p[k] = nil and with its    *)
(* is_remove_allowed, or by replacing it and with its is_replace_allowed;  *)
(* a script or a drag puts one in another list only with its               *)
(* is_move_allowed and the accept_child of the list.                       *)
PermissionsKept ==
  [][\A i \in Item : tree'.parent[i] # tree.parent[i] =>
       /\ last'.by = "remove" => i \notin NoRemove
       /\ last'.by = "assign" /\ tree'.parent[i] = None => i \notin NoReplace
       /\ last'.by \in {"assign", "drop"} /\ tree'.parent[i] # None =>
            \/ i \notin NoMove /\ <<tree'.parent[i], i>> \in Accepts]_vars
=============================================================================
