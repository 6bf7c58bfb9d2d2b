----------------------------- MODULE TableModels ----------------------------
(***************************************************************************)
(* The models of Qt that show tables of Lua, one of them in a view: a      *)
(* TableGridModel in the dialog that edits it, a TableTreeModel, or a      *)
(* LuaModel.  Which one is chosen when the view is made, the others stay   *)
(* as they were made.                                                      *)
(***************************************************************************)
EXTENDS Integers

CONSTANTS
  CellValues, Nil, Names, RowTables, MaxRows, MaxColumns, MaxCount, MaxFilled, Careful, EditSets, AttrSets,
  Scalars, Top, Nested, LuaKeys, NestedKeys, MaxNodes, MaxEntries, Attributes,
  Items, MaxLines, Documented,
  Avoided

VARIABLES
  shown,  \* which of the models is
  attr, table, cells, row_keys, num_row_count, col_keys, num_col_count, told,
  edit_actions, enabled, current,
  content, nodes,
  below, columns, working, cache, answer

Grid == INSTANCE ItemViewDialog WITH Values <- CellValues
Tree == INSTANCE TreeModel WITH Keys <- LuaKeys
Lua == INSTANCE LuaModel WITH enabled <- working

ASSUME TablesAssumption ==
  Grid!GridAssumption /\ Grid!DialogAssumption /\ Tree!TreeAssumption /\ Lua!LuaModelAssumption

grid == <<attr, table, cells, row_keys, num_row_count, col_keys, num_col_count, told, edit_actions,
          enabled, current>>
tree == <<content, nodes>>
lua == <<below, columns, working, cache, answer>>
vars == <<shown, grid, tree, lua>>

\* The model that is shown starts in any of its states, the others in one of theirs.
Init ==
  /\ shown \in {"grid", "tree", "lua"}
  /\ Grid!DialogInit
  /\ shown # "grid" => /\ attr = [num_rows |-> TRUE, num_cols |-> TRUE, swap |-> FALSE]
                       /\ edit_actions = CHOOSE e \in Grid!Given : TRUE
  /\ Tree!Init
  /\ shown # "tree" => content = [t \in Tree!Tables |-> [k \in LuaKeys |-> Nil]]
  /\ Lua!Init
  /\ shown # "lua" => cache = <<>>

GridStep == shown = "grid" /\ Grid!DialogNext /\ UNCHANGED <<shown, tree, lua>>
TreeStep == shown = "tree" /\ Tree!Next /\ UNCHANGED <<shown, grid, lua>>
LuaStep == shown = "lua" /\ Lua!Next /\ UNCHANGED <<shown, grid, tree>>

Next == GridStep \/ TreeStep \/ LuaStep

Spec == Init /\ [][Next]_vars

(***************************************************************************)
(* Properties, those of the parts.                                         *)
(***************************************************************************)

\* TableGridModel is a grid of cells of their own (GridModel, Sheet).
GridIsSheet == Grid!ImplementsSheet

\* A filled cell that is current stays current (ItemViewDialog).
CurrentFollows == Grid!CurrentFollows

\* Who may insert has a button for it (ItemViewDialog).
CanGoOn == Grid!CanGoOn

\* TableTreeModel is a list of keys and values of their own (TreeModel, Sheet).
TreeIsSheet == Tree!ImplementsSheet

\* The tree of TableTreeKeys hangs together (TreeModel).
TreeWhole == Tree!TreeWhole

\* What LuaModel tells Qt is so (LuaModel).
AnswersTrue == Lua!AnswersTrue
=============================================================================
