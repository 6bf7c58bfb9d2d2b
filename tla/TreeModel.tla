------------------------------ MODULE TreeModel -----------------------------
(***************************************************************************)
(* TableTreeModel: tables of Lua shown as a tree.  A TableTreeKeys is made *)
(* of each table that the view looks into and keeps the list of its keys,  *)
(* fetched once.                                                           *)
(***************************************************************************)
EXTENDS Integers, FiniteSets, Sequences

CONSTANTS
  Scalars, Nil,
  Top,        \* the table that the model shows
  Nested,     \* tables that may be values
  Keys,       \* integers, for their order
  NestedKeys, \* bound: those that the tables below may have
  MaxNodes,   \* bound: TableTreeKeys alive
  MaxEntries, \* bound: rows of all of them
  Attributes, \* what is shown and may be edited: HideKey, HideValue, HideType, Editable,
              \* EditKey, EditInsert and EditRemove
  Avoided     \* what users and programs keep clear of

Values == Scalars \cup Nested
Tables == Nested \cup {Top}
KeysIn(f) == IF f = Top THEN Keys ELSE NestedKeys
Ids == 1 .. MaxNodes
NoNode == 0
Root == 1

TreeAssumption ==
  /\ Nil \notin Values \cup Keys /\ Scalars \cap Tables = {}
  /\ Keys \subseteq Nat \ {0} /\ IsFiniteSet(Keys) /\ NestedKeys \subseteq Keys /\ MaxNodes \in Nat \ {0} /\ MaxEntries \in Nat

VARIABLES
  content,  \* of each table and key the value
  nodes     \* of each TableTreeKeys alive its _value, _parent, _row and _entries
vars == <<content, nodes>>

Entry(k) == [key |-> k, table |-> NoNode, chk |-> FALSE]

Rows(t) == DOMAIN nodes[t].entries
RowCount(ns) == Cardinality(UNION {{t} \X DOMAIN ns[t].entries : t \in DOMAIN ns})
Key(t, n) == nodes[t].entries[n].key
Child(t, n) == nodes[t].entries[n].table

\* get_value, with the tables as in c.
ValueIn(c, t, n) == IF Key(t, n) = Nil THEN Nil ELSE c[nodes[t].value][Key(t, n)]

\* The columns that are not hidden; they count from 0.
ColumnIds ==
  LET Unless(attribute, id) == IF attribute \in Attributes THEN <<>> ELSE <<id>>
  IN Unless("HideKey", "key") \o Unless("HideValue", "value") \o Unless("HideType", "type")
columnCount == Len(ColumnIds)
get_column_id(col) == IF col < columnCount THEN ColumnIds[col + 1] ELSE "none"

get_value(t, n, col) ==
  CASE get_column_id(col) = "key" -> Key(t, n)
    [] get_column_id(col) = "value" -> ValueIn(content, t, n)
    [] OTHER -> Nil

\* flags: a table that was looked into is not edited, nor a key, unless there is none yet.
Editable(t, n, col) ==
  /\ "Editable" \in Attributes
  /\ \/ get_column_id(col) = "value" /\ Child(t, n) = NoNode
     \/ get_column_id(col) = "key" /\ ("EditKey" \in Attributes \/ Key(t, n) = Nil)

\* The column that is edited in place of another: that of the value.
buddy(col) ==
  IF get_column_id(col) \in {"value", "none"} \cup (IF "EditKey" \in Attributes THEN {"key"} ELSE {})
  THEN col
  ELSE IF "HideKey" \in Attributes THEN 0 ELSE 1

\* The tables after set_value(n, v): a key that is nil is ignored.
Stored(c, t, n, v) == IF Key(t, n) = Nil THEN c ELSE [c EXCEPT ![nodes[t].value][Key(t, n)] = v]
Unchecked(ns, t, n) == [ns EXCEPT ![t].entries[n].chk = FALSE]

\* set_table: the row gets a node when it is looked at for the first time, or again after it
\* was set.
set_table(t, n, ns) ==
  LET e == ns[t].entries[n]
      v == ValueIn(content, t, n)
      new == CHOOSE i \in Ids : i \notin DOMAIN ns
      checked == [ns EXCEPT ![t].entries[n].chk = TRUE]
  IN
  IF e.chk THEN [ns |-> ns, res |-> e.table]
  ELSE IF v \notin Nested THEN [ns |-> checked, res |-> NoNode]
  ELSE [res |-> new,
        ns |-> [i \in DOMAIN ns \cup {new} |->
                  IF i = new THEN [value |-> v, parent |-> t, row |-> n, entries |-> <<>>]
                  ELSE [checked EXCEPT ![t].entries[n].table = new][i]]]

\* The keys of the table f, in order: the n-th has n - 1 before it.
Sorted(keys, n) == CHOOSE k \in keys : Cardinality({j \in keys : j < k}) = n - 1
Fetched(f) ==
  LET keys == {k \in Keys : f[k] # Nil} IN [n \in 1 .. Cardinality(keys) |-> Entry(Sorted(keys, n))]

\* Mutant of update: the keys are fetched again whenever the view counts them.
update_always(t, ns) == [ns EXCEPT ![t].entries = Fetched(content[ns[t].value])]

\* TableTreeKeys::update: the keys are fetched when the list is empty.
update(t, ns) ==
  IF ns[t].entries # <<>> THEN ns
  ELSE [ns EXCEPT ![t].entries = Fetched(content[ns[t].value])]

\* delete: a node with the nodes of its entries, and theirs.
Below(c) ==
  LET whole == {s \in SUBSET DOMAIN nodes :
                  c \in s /\ \A t \in s : \A n \in Rows(t) : Child(t, n) \in s \cup {NoNode}}
  IN IF c = NoNode THEN {} ELSE {i \in DOMAIN nodes : \A s \in whole : i \in s}

(***************************************************************************)
(* The view.                                                               *)
(***************************************************************************)

\* hasChildren, rowCount and index of row n of t: the last two fetch the keys.
Look(t, n, fetch) ==
  /\ Cardinality(DOMAIN nodes) < MaxNodes
  /\ LET s == set_table(t, n, nodes) IN
     nodes' = IF fetch /\ s.res # NoNode THEN update(s.res, s.ns) ELSE s.ns
  /\ RowCount(nodes') <= MaxEntries
  /\ UNCHANGED content

LookAtTop == nodes' = update(Root, nodes) /\ UNCHANGED content

\* setData of the value.  A row without a key ignores it.
setData_value(t, n, v) ==
  /\ v = Nil => "EditRemove" \in Attributes
  /\ content' = Stored(content, t, n, v)
  /\ nodes' = Unchecked(nodes, t, n)

\* setData of the key: refused when the table has an entry of that key.
setData_key(t, n, k) ==
  /\ k \in KeysIn(nodes[t].value) /\ content[nodes[t].value][k] = Nil
  /\ "explored" \in Avoided => Child(t, n) = NoNode
  /\ "same" \in Avoided => \A m \in Rows(t) : Key(t, m) # k
  /\ content' = [Stored(content, t, n, Nil) EXCEPT ![nodes[t].value][k] = ValueIn(content, t, n)]
  /\ nodes' = [Unchecked(nodes, t, n) EXCEPT ![t].entries[n].key = k]

\* The user edits a cell.
Edit(t, n, col) ==
  /\ Editable(t, n, buddy(col))
  /\ \/ /\ get_column_id(buddy(col)) = "value"
        /\ \E v \in Values \cup {Nil} : setData_value(t, n, v)
     \/ /\ get_column_id(buddy(col)) = "key"
        /\ \E k \in Keys : setData_key(t, n, k)

\* Mutant of Moved: the rows after do not know.
MovedNever(ns, t, at, count) == ns

\* The nodes of the rows of t from at on, moved by count.
Moved(ns, t, at, count) ==
  LET tail == {Child(t, n) : n \in {m \in Rows(t) : m >= at}} IN
  [i \in DOMAIN ns |-> IF i \in tail THEN [ns[i] EXCEPT !.row = @ + count] ELSE ns[i]]

removeRows(t, row, count) ==
  /\ "EditRemove" \in Attributes /\ row + count - 1 \in Rows(t)
  /\ LET gone == row .. row + count - 1
         deleted == UNION {Below(Child(t, n)) : n \in gone}
         left == [i \in DOMAIN nodes \ deleted |-> Moved(nodes, t, row + count, -count)[i]]
     IN /\ content' = [content EXCEPT ![nodes[t].value] =
                          [k \in Keys |-> IF \E n \in gone : Key(t, n) = k THEN Nil ELSE @[k]]]
        /\ nodes' = [left EXCEPT ![t].entries = SubSeq(@, 1, row - 1) \o SubSeq(@, row + count, Len(@))]

insertRows(t, row, count) ==
  /\ "EditInsert" \in Attributes
  /\ row \in 1 .. Len(nodes[t].entries) + 1 /\ RowCount(nodes) + count <= MaxEntries
  /\ nodes' = [Moved(nodes, t, row, count) EXCEPT
                 ![t].entries = SubSeq(@, 1, row - 1) \o [i \in 1 .. count |-> Entry(Nil)] \o SubSeq(@, row, Len(@))]
  /\ UNCHANGED content

\* update of the model, which resets the view.
Update ==
  /\ nodes' = [i \in {Root} |-> [nodes[Root] EXCEPT !.entries = <<>>]]
  /\ UNCHANGED content

\* Lua, which the model does not notice.
LuaSet(f, k, v) ==
  /\ "lua" \notin Avoided /\ k \in KeysIn(f) /\ content[f][k] # v
  /\ content' = [content EXCEPT ![f][k] = v] /\ UNCHANGED nodes

Init ==
  /\ content \in [Tables -> [Keys -> Values \cup {Nil}]]
  /\ \A f \in Tables : \A k \in Keys \ KeysIn(f) : content[f][k] = Nil
  /\ nodes = [i \in {Root} |-> [value |-> Top, parent |-> NoNode, row |-> 0, entries |-> <<>>]]

Next ==
  \/ LookAtTop \/ Update
  \/ \E t \in DOMAIN nodes : \E row \in 1 .. MaxEntries + 1, count \in 1 .. 2 :
       removeRows(t, row, count) \/ insertRows(t, row, count)
  \/ \E t \in DOMAIN nodes : \E n \in Rows(t) :
       \/ \E fetch \in BOOLEAN : Look(t, n, fetch)
       \/ \E col \in 0 .. columnCount - 1 : Edit(t, n, col)
  \/ \E f \in Tables, k \in Keys, v \in Values \cup {Nil} : LuaSet(f, k, v)

Spec == Init /\ [][Next]_vars

(***************************************************************************)
(* Properties.                                                             *)
(***************************************************************************)

Shown == INSTANCE Sheet WITH
  grid <- [n \in Rows(Root) |-> [c \in 1 .. columnCount |-> get_value(Root, n, c - 1)]],
  width <- columnCount, Values <- Values \cup Keys, Reloads <- TRUE

\* The rows of the table are a list of keys and values that are each their own, in an order that
\* stays: setData changes one cell, insertRows and removeRows put in and take out rows, and
\* neither they nor Lua change, add or move others (TableTreeModel, TableTreeKeys::update).
ImplementsSheet == Shown!Spec

\* Each node but the root is the child of one row only, of its parent, and knows which: parent()
\* of an index is the index that index() made it from, and no node is left behind
\* (TableTreeKeys::set_table, removeRows, insertRows).
TreeWhole ==
  \A i \in DOMAIN nodes \ {Root} :
    LET p == nodes[i].parent IN
    /\ p \in DOMAIN nodes /\ nodes[i].row \in Rows(p) /\ Child(p, nodes[i].row) = i
    /\ \A t \in DOMAIN nodes, n \in 1 .. MaxEntries :
         n \in Rows(t) /\ Child(t, n) = i => <<t, n>> = <<p, nodes[i].row>>
=============================================================================
