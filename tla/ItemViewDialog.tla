---------------------------- MODULE ItemViewDialog --------------------------
(***************************************************************************)
(* ItemViewDialog around a TableGridModel: buttons that insert and remove  *)
(* rows and columns at the current cell, which the selection model of the  *)
(* view moves as the model announces.  A button is there for each edit     *)
(* action; whether it is enabled is decided when the current cell changes. *)
(***************************************************************************)
EXTENDS GridModel

CONSTANTS
  EditSets,  \* the edit actions that programs give the dialog
  AttrSets   \* the attributes of grids that table_dialog makes a dialog for

RowButtons == {"InsertRow", "InsertRowAfter", "AddRow"}
ColumnButtons == {"InsertColumn", "InsertColumnAfter", "AddColumn"}
Buttons == RowButtons \cup ColumnButtons \cup {"EditData", "RemoveRow", "RemoveColumn", "AddChild"}

DialogAssumption == EditSets \subseteq SUBSET Buttons

\* The edit actions that TableGridModel::table_dialog gives; who may insert rows may remove them.
table_dialog(attributes) ==
  LET given == [Editable |-> {"EditData"},
                EditInsertRow |-> {"InsertRow", "InsertRowAfter", "RemoveRow"},
                EditInsertCol |-> {"InsertColumn", "InsertColumnAfter"},
                EditRemoveCol |-> {"RemoveColumn"}]
  IN UNION {given[a] : a \in attributes}

Given == EditSets \cup {table_dialog(a) : a \in AttrSets}

VARIABLES
  edit_actions,
  enabled,  \* the buttons that are enabled
  current   \* row and column, <<>> when none is current
dialog == <<edit_actions, enabled, current>>

None == <<>>
Cells == {x \in (1 .. rowCount) \X (1 .. columnCount) : index(x[1], x[2])}

\* Mutant of current_item_changed: rows are inserted beside others only.
current_item_changed_beside(cell) ==
  enabled' = {b \in edit_actions :
    CASE b \in {"EditData", "RemoveRow", "RemoveColumn", "AddChild", "InsertRow", "InsertRowAfter"} -> cell # None
      [] b \in {"InsertColumn", "InsertColumnAfter"} ->
           cell # None \/ ("AddColumn" \notin edit_actions /\ columnCount = 0)
      [] OTHER -> TRUE}

\* hasChildren of the grid is always false.
current_item_changed(cell) ==
  enabled' = {b \in edit_actions :
    CASE b \in {"EditData", "RemoveRow", "RemoveColumn", "AddChild"} -> cell # None
      [] b \in {"InsertRow", "InsertRowAfter"} -> cell # None \/ "AddRow" \notin edit_actions
      [] b \in {"InsertColumn", "InsertColumnAfter"} ->
           cell # None \/ ("AddColumn" \notin edit_actions /\ columnCount = 0)
      [] OTHER -> TRUE}

\* A new button is enabled, but not those to edit and to remove a row.  Careful: the buttons to
\* add stay as long as no cell is current.
set_edit_actions(actions) ==
  /\ Careful => current # None \/ edit_actions \cap {"AddRow", "AddColumn"} \subseteq actions
  /\ enabled' = (enabled \cap actions) \cup (actions \ (edit_actions \cup {"EditData", "RemoveRow"}))
  /\ edit_actions' = actions
  /\ UNCHANGED <<vars, current>>

(***************************************************************************)
(* The selection model (Qt).                                               *)
(***************************************************************************)

Select(cell) ==
  /\ cell \in Cells
  /\ current' = cell /\ current_item_changed(cell)
  /\ UNCHANGED <<vars, edit_actions>>

\* When the current cell is about to be removed, one before it becomes current, or else one
\* after it, if there is one; the signal comes before the removal.
Follow(at, count) ==
  LET d == IF told'.rows # told.rows THEN 1 ELSE 2
      size == IF d = 1 THEN rowCount ELSE columnCount
      Went(n) == [current EXCEPT ![d] = n]
      removed == current # None /\ count < 0 /\ current[d] \in at .. at - count - 1
  IN
  /\ UNCHANGED edit_actions
  /\ current' = IF current = None THEN None
                ELSE IF ~removed THEN Went(IF current[d] >= at THEN current[d] + count ELSE current[d])
                ELSE IF at > 1 THEN Went(at - 1)
                ELSE IF at - count <= size THEN Went(at)
                ELSE None
  /\ IF removed THEN current_item_changed(current') ELSE UNCHANGED enabled

Inserted(at, count) ==
  \/ insertRows(at, count) /\ Follow(at, count)
  \/ insertColumns(at, count) /\ Follow(at, count)

\* Careful: the last column stays when columns can only be inserted.
Removed(at, count) ==
  \/ removeRows(at, count) /\ Follow(at, -count)
  \/ /\ Careful => count < columnCount \/ "AddColumn" \in edit_actions
     /\ removeColumns(at, count) /\ Follow(at, -count)

(***************************************************************************)
(* The buttons.                                                            *)
(***************************************************************************)

Row == IF current = None THEN rowCount + 1 ELSE current[1]
Column == IF current = None THEN columnCount + 1 ELSE current[2]
new_row(row) == insertRows(row, 1) /\ Follow(row, 1)
new_column(column) == insertColumns(column, 1) /\ Follow(column, 1)

insert_row == "InsertRow" \in enabled /\ new_row(Row)
insert_row_after == "InsertRowAfter" \in enabled /\ new_row(IF current = None THEN Row ELSE Row + 1)
add_row == "AddRow" \in enabled /\ new_row(rowCount + 1)

\* The grid refuses a row below a cell.
add_child == "AddChild" \in enabled /\ current = None /\ new_row(rowCount + 1)

insert_column == "InsertColumn" \in enabled /\ new_column(Column)
insert_column_after ==
  "InsertColumnAfter" \in enabled /\ new_column(IF current = None THEN Column ELSE Column + 1)
add_column == "AddColumn" \in enabled /\ new_column(columnCount + 1)

remove_row == "RemoveRow" \in enabled /\ current # None /\ removeRows(Row, 1) /\ Follow(Row, -1)

remove_column ==
  /\ "RemoveColumn" \in enabled /\ current # None
  /\ Careful => columnCount > 1 \/ "AddColumn" \in edit_actions
  /\ removeColumns(Column, 1) /\ Follow(Column, -1)

edit == "EditData" \in enabled /\ \E v \in Values \cup {Nil} : setData(Row, Column, v) /\ UNCHANGED dialog

(***************************************************************************)
(* The dialog, the view, programs and Lua.                                 *)
(***************************************************************************)

DialogInit ==
  /\ Init
  /\ edit_actions \in Given
  /\ enabled = edit_actions \ {"EditData", "RemoveRow"}
  /\ current = None

DialogNext ==
  \/ insert_row \/ insert_row_after \/ add_row \/ add_child \/ remove_row
  \/ insert_column \/ insert_column_after \/ add_column \/ remove_column
  \/ edit
  \/ \E cell \in Cells : Select(cell)
  \/ \E e \in Given : set_edit_actions(e)
  \/ \E at \in 1 .. MaxRows + MaxColumns, count \in 1 .. MaxCount : Inserted(at, count) \/ Removed(at, count)
  \/ \E r \in 1 .. MaxRows, new \in BOOLEAN :
       /\ LuaRow(r, new) \/ \E vertical \in BOOLEAN : setHeaderData(vertical, r, new)
       /\ UNCHANGED dialog

DialogSpec == DialogInit /\ [][DialogNext]_<<vars, dialog>>

(***************************************************************************)
(* Properties.                                                             *)
(***************************************************************************)

\* Who may insert rows, or columns, has a button for it when there are none, although the
\* buttons are looked at only when the current cell changes, before the last one is removed
\* (current_item_changed, set_edit_actions).
CanGoOn ==
  /\ rowCount = 0 /\ edit_actions \cap RowButtons # {} => enabled \cap RowButtons # {}
  /\ columnCount = 0 /\ edit_actions \cap ColumnButtons # {} => enabled \cap ColumnButtons # {}

ShownAt(cell) == IF attr.swap THEN Cell(cell[2], cell[1]) ELSE Cell(cell[1], cell[2])
Filled == {cell \in Cells : ShownAt(cell) # Nil}

\* A filled cell that is current stays current when rows and columns come and go around it, by
\* buttons or programs: what the model announces to the selection model is what it does to the
\* table (beginInsertRows and the others in insert_rows, insert_columns, remove_rows and
\* remove_columns).
CurrentFollows == [][
  (/\ <<rowCount, columnCount>>' # <<rowCount, columnCount>>
   /\ current \in Filled /\ Cardinality(Filled') = Cardinality(Filled))
  => current' \in Filled' /\ (ShownAt(current))' = ShownAt(current)]_<<vars, dialog>>
=============================================================================
