---------------------------- MODULE MCTableModels ---------------------------
(***************************************************************************)
(* Each of the models on a small instance: a grid of one row and one       *)
(* column at first, a table that may hold one other, an empty LuaModel.    *)
(***************************************************************************)
EXTENDS TableModels, TLC

CONSTANTS a, t1, t2, filled, scalar, top, nested

\* Tables for rows that are free are alike, so that it is of no account which is taken first.
Symmetry == Permutations(RowTables)

MCEditSets == {{"EditData", "RemoveRow", "RemoveColumn", "InsertRow", "InsertColumn",
                "InsertRowAfter", "AddRow", "InsertColumnAfter", "AddColumn", "AddChild"}}
MCAttrSets == {{"Editable", "EditInsertRow", "EditInsertCol", "EditRemoveCol"}}
=============================================================================
