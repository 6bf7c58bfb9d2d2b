------------------------------ MODULE GridModel -----------------------------
(***************************************************************************)
(* TableGridModel: a table of tables of Lua shown as a grid.  Rows and     *)
(* columns are each either numbered from 1, their entries moved by         *)
(* table_shift when some are inserted or removed, or known by the keys the *)
(* model fetched.  The view may show them with rows and columns swapped.   *)
(* All attributes that allow editing are set.                              *)
(***************************************************************************)
EXTENDS Integers, FiniteSets, SequencesExt

CONSTANTS
  Values,   \* scalar values of Lua
  Nil,
  Names,    \* keys of rows and columns that are not numbers
  RowTables,\* tables for rows
  MaxRows,  \* bounds: the size of the table
  MaxColumns,
  MaxCount, \* bound: how many are inserted or removed at once
  MaxFilled,\* bound: how many cells the user fills
  Careful   \* whether programs keep clear of what the code gets wrong

Indexes == 1 .. MaxRows + MaxColumns
Keys == Indexes \cup Names

GridAssumption ==
  /\ Nil \notin Values \cup RowTables
  /\ Names \cap Indexes = {} /\ IsFiniteSet(Names) /\ {MaxRows, MaxColumns, MaxCount, MaxFilled} \subseteq Nat

VARIABLES
  attr,          \* NumKeysRows, NumKeysCols and RowColSwap
  table,         \* the table: of each key the table of a row, or Nil
  cells,         \* of each table of a row and each key, the entry
  row_keys, num_row_count, col_keys, num_col_count,
  told           \* the rows and columns of which the view was told

vars == <<attr, table, cells, row_keys, num_row_count, col_keys, num_col_count, told>>
rows == <<row_keys, num_row_count>>
columns == <<col_keys, num_col_count>>

row_count == IF attr.num_rows THEN num_row_count ELSE Len(row_keys)
column_count == IF attr.num_cols THEN num_col_count ELSE Len(col_keys)
rowCount == IF attr.swap THEN column_count ELSE row_count
columnCount == IF attr.swap THEN row_count ELSE column_count

\* A place of the view that has an index.
index(row, column) ==
  /\ (IF attr.swap THEN column ELSE row) \in 1 .. row_count
  /\ (IF attr.swap THEN row ELSE column) \in 1 .. column_count

RowKey(r) == IF attr.num_rows THEN r ELSE row_keys[r]
ColumnKey(c) == IF attr.num_cols THEN c ELSE col_keys[c]

\* get_value_ref and data: a row that is not a table is shown blank.
Cell(r, c) == LET t == table[RowKey(r)] IN IF t = Nil THEN Nil ELSE cells[t][ColumnKey(c)]

(***************************************************************************)
(* ValueBase::table_shift.  f is the table, of which len entries count.    *)
(***************************************************************************)

At(f, i) == IF i \in Indexes THEN f[i] ELSE Nil

\* Mutant of Shifted: the entry at pos is left out.
ShiftedAfter(f, pos, count, init, len) ==
  [i \in DOMAIN f |->
     IF i \notin Indexes THEN f[i]
     ELSE IF i \in (IF pos < len + 1 THEN pos ELSE len + 1) .. pos + count - 1 THEN init
     ELSE IF i \in pos + count + 1 .. len + count THEN f[i - count]
     ELSE f[i]]

\* Inserting moves the entries from pos on by count, the last one first, and puts init in.
Shifted(f, pos, count, init, len) ==
  [i \in DOMAIN f |->
     IF i \notin Indexes THEN f[i]
     ELSE IF i \in (IF pos < len + 1 THEN pos ELSE len + 1) .. pos + count - 1 THEN init
     ELSE IF i \in pos + count .. len + count THEN f[i - count]
     ELSE f[i]]

\* Removing moves them back, the first one first, clearing the last ones behind; the loop goes
\* on for count entries after the last that counts.
ShiftedBack(f, pos, count, len) ==
  LET Moved(g, i) ==
        [k \in DOMAIN g |-> IF k = i THEN At(g, i + count)
                            ELSE IF k = i + count /\ i >= len - count THEN Nil ELSE g[k]]
  IN FoldLeft(Moved, f, [i \in 1 .. len + count + 1 - pos |-> pos + i - 1])

(***************************************************************************)
(* Tables for new rows.  Tables that nothing refers to are blank, and      *)
(* taken in a fixed order.                                                 *)
(***************************************************************************)

\* Each cell is nil: none is there.
new_row_table == [k \in Keys |-> Nil]
Free(t) == {x \in RowTables : \A k \in Keys : t[k] # x}
Fresh(t) == CHOOSE x \in Free(t) : TRUE
Kept(t, s) == [x \in RowTables |-> IF x \in Free(t) THEN new_row_table ELSE s[x]]

\* new_row_key, new_column_key: the first number that is not a key yet, and not below the place;
\* for the i-th of those put in from place at on, this is the i-th that is free.
NewKey(keys, at, i) ==
  CHOOSE n \in Indexes :
    /\ n >= at /\ n \notin ToSet(keys)
    /\ Cardinality({m \in at .. n - 1 : m \notin ToSet(keys)}) = i - 1

\* keys with count new ones from place at on.
WithNew(keys, at, count) ==
  SubSeq(keys, 1, at - 1) \o [i \in 1 .. count |-> NewKey(keys, at, i)] \o SubSeq(keys, at, Len(keys))

(***************************************************************************)
(* The model.  Rows and columns count from 1 here, from 0 in Qt.           *)
(***************************************************************************)

\* beginInsertRows and the others, of the view's rows or columns.
Announce(what, n) == told' = [told EXCEPT ![what] = @ + n]

\* Mutant of Told: the swap forgotten.
ToldAlways(of_rows) == IF of_rows THEN "rows" ELSE "columns"

\* The rows of the table are rows of the view, or columns.
Told(of_rows) == IF of_rows # attr.swap THEN "rows" ELSE "columns"

\* Without numbers each new row gets a table, with them there is one for all of them.  Careful:
\* of these one at a time.
insert_rows(at, count) ==
  LET tables == SetToSeq(Free(table))
      keys == WithNew(row_keys, at, count)
  IN
  /\ at \in 1 .. row_count + 1 /\ row_count + count <= MaxRows /\ Len(tables) >= count
  /\ Announce(Told(TRUE), count)
  /\ IF attr.num_rows
     THEN /\ Careful => count = 1
          /\ table' = Shifted(table, at, count, tables[1], num_row_count)
          /\ num_row_count' = num_row_count + count /\ UNCHANGED row_keys
     ELSE /\ table' = [k \in Keys |-> LET new == {i \in 1 .. count : keys[at + i - 1] = k} IN
                         IF new = {} THEN table[k] ELSE tables[CHOOSE i \in new : TRUE]]
          /\ row_keys' = keys /\ UNCHANGED num_row_count
  /\ cells' = Kept(table', cells)
  /\ UNCHANGED <<attr, columns>>

\* By keys only the first of the rows is removed, whatever count is.  Careful: one at a time then.
remove_rows(at, count) ==
  /\ at \in 1 .. row_count + 1 - count
  /\ Announce(Told(TRUE), -count)
  /\ IF attr.num_rows
     THEN /\ table' = ShiftedBack(table, at, count, num_row_count)
          /\ num_row_count' = num_row_count - count /\ UNCHANGED row_keys
     ELSE /\ Careful => count = 1
          /\ table' = [table EXCEPT ![row_keys[at]] = Nil]
          /\ row_keys' = RemoveAt(row_keys, at) /\ UNCHANGED num_row_count
  /\ cells' = Kept(table', cells)
  /\ UNCHANGED <<attr, columns>>

\* change of the entries of each row in turn; a row that is not a table is passed over.
ForRows(change(_)) ==
  LET changed(s, r) == LET t == table[RowKey(r)] IN IF t = Nil THEN s ELSE [s EXCEPT ![t] = change(@)]
  IN FoldLeft(changed, cells, [r \in 1 .. row_count |-> r])

insert_columns(at, count) ==
  LET keys == WithNew(col_keys, at, count) IN
  /\ at \in 1 .. column_count + 1 /\ column_count + count <= MaxColumns
  /\ Announce(Told(FALSE), count)
  /\ IF attr.num_cols
     THEN /\ cells' = ForRows(LAMBDA f : Shifted(f, at, count, Nil, num_col_count))
          /\ num_col_count' = num_col_count + count /\ UNCHANGED col_keys
     ELSE /\ cells' = ForRows(LAMBDA f : [k \in Keys |-> IF \E i \in 1 .. count : keys[at + i - 1] = k
                                                        THEN Nil ELSE f[k]])
          /\ col_keys' = keys /\ UNCHANGED num_col_count
  /\ UNCHANGED <<attr, table, rows>>

\* By keys only the first of the columns is removed.  Careful: one at a time then.
remove_columns(at, count) ==
  /\ at \in 1 .. column_count + 1 - count
  /\ Announce(Told(FALSE), -count)
  /\ IF attr.num_cols
     THEN /\ cells' = ForRows(LAMBDA f : ShiftedBack(f, at, count, num_col_count))
          /\ num_col_count' = num_col_count - count /\ UNCHANGED col_keys
     ELSE /\ Careful => count = 1
          /\ cells' = ForRows(LAMBDA f : [f EXCEPT ![col_keys[at]] = Nil])
          /\ col_keys' = RemoveAt(col_keys, at) /\ UNCHANGED num_col_count
  /\ UNCHANGED <<attr, table, rows>>

\* The functions of Qt, by what the view shows.
insertRows(at, count) == IF attr.swap THEN insert_columns(at, count) ELSE insert_rows(at, count)
removeRows(at, count) == IF attr.swap THEN remove_columns(at, count) ELSE remove_rows(at, count)
insertColumns(at, count) == IF attr.swap THEN insert_rows(at, count) ELSE insert_columns(at, count)
removeColumns(at, count) == IF attr.swap THEN remove_rows(at, count) ELSE remove_columns(at, count)

\* What the user typed, evaluated, for a row that is a table.  A value of another type may be
\* refused (EditFixedType), which changes nothing.
set_value_ref(r, c, v) ==
  LET t == table[RowKey(r)] IN
  /\ t # Nil
  /\ cells' = [cells EXCEPT ![t][ColumnKey(c)] = v]

setData(row, column, v) ==
  LET r == IF attr.swap THEN column ELSE row
      c == IF attr.swap THEN row ELSE column
  IN /\ index(row, column)
     /\ v # Nil => Cardinality({x \in RowTables \X Keys : cells[x[1]][x[2]] # Nil}) < MaxFilled
     /\ set_value_ref(r, c, v)
     /\ UNCHANGED <<attr, table, rows, columns, told>>

\* A row is made anew, or removed.
SetRow(r, new) ==
  /\ r <= row_count
  /\ new => Free(table) # {}
  /\ table' = [table EXCEPT ![RowKey(r)] = IF new THEN Fresh(table) ELSE Nil]
  /\ cells' = Kept(table', cells)
  /\ UNCHANGED <<attr, rows, columns, told>>

\* What the user types over the header of a row of the table becomes the row, an empty table or
\* what is none; the headers of its columns cannot be edited.
setHeaderData(vertical, section, new) ==
  /\ vertical # attr.swap
  /\ SetRow(section, new)

\* Lua, which the model does not notice.
LuaRow(r, new) == SetRow(r, new)

\* How the program gives the rows and columns before the model is shown.
set_row_count(n) == attr.num_rows /\ row_keys = <<>> /\ num_row_count = n
add_row_key(names) == ~attr.num_rows /\ row_keys = names /\ num_row_count = 0
set_col_count(n) == attr.num_cols /\ col_keys = <<>> /\ num_col_count = n
add_column_key(names) == ~attr.num_cols /\ col_keys = names /\ num_col_count = 0

\* The constructors, and fetch_all_row_keys and fetch_all_column_keys, which come to the same:
\* every row with the keys of the first.
Init ==
  /\ attr \in [num_rows : BOOLEAN, num_cols : BOOLEAN, swap : BOOLEAN]
  /\ set_row_count(Cardinality(Names)) \/ add_row_key(SetToSeq(Names))
  /\ set_col_count(Cardinality(Names)) \/ add_column_key(SetToSeq(Names))
  /\ table = [k \in Keys |-> IF \E r \in 1 .. row_count : RowKey(r) = k
                             THEN SetToSeq(RowTables)[CHOOSE r \in 1 .. row_count : RowKey(r) = k]
                             ELSE Nil]
  /\ cells = [t \in RowTables |-> new_row_table]
  /\ told = [rows |-> rowCount, columns |-> columnCount]

Next ==
  \/ \E at \in 1 .. MaxRows + MaxColumns, count \in 1 .. MaxCount :
       \/ insertRows(at, count) \/ removeRows(at, count)
       \/ insertColumns(at, count) \/ removeColumns(at, count)
  \/ \E row, column \in 1 .. MaxRows + MaxColumns, v \in Values \cup {Nil} : setData(row, column, v)
  \/ \E r \in 1 .. MaxRows, new \in BOOLEAN :
       LuaRow(r, new) \/ \E vertical \in BOOLEAN : setHeaderData(vertical, r, new)

Spec == Init /\ [][Next]_vars

(***************************************************************************)
(* Properties.                                                             *)
(***************************************************************************)

Shown == INSTANCE Sheet WITH
  grid <- [r \in 1 .. row_count |-> [c \in 1 .. column_count |-> Cell(r, c)]],
  width <- column_count, Reloads <- FALSE

\* The table behaves as a grid of cells of their own: an edit changes one cell, and inserting or
\* removing rows and columns leaves the others as they are, in order, numbered or by keys,
\* swapped or not, although Lua makes and removes rows (TableGridModel, ValueBase::table_shift).
ImplementsSheet == Shown!Spec

\* Each row has a table of its own (new_row_table).
RowsApart ==
  \A r, q \in 1 .. row_count : r # q /\ table[RowKey(r)] # Nil => table[RowKey(r)] # table[RowKey(q)]
=============================================================================
