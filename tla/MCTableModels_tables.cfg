\* A table of Lua in a view: edited as a grid by a dialog, as a tree, or by functions of Lua.
CONSTANTS
  a = a
  t1 = t1
  t2 = t2
  filled = filled
  scalar = scalar
  top = top
  nested = nested
  Nil = Nil
  CellValues = {filled}
  Names = {a}
  RowTables = {t1, t2}
  MaxRows = 2
  MaxColumns = 2
  MaxCount = 2
  MaxFilled = 1
  Careful = TRUE
  EditSets <- MCEditSets
  AttrSets <- MCAttrSets
  Scalars = {scalar}
  Top = top
  Nested = {nested}
  LuaKeys = {1, 2}
  NestedKeys = {1}
  MaxNodes = 3
  MaxEntries = 3
  Attributes = {"HideType", "Editable", "EditKey", "EditInsert", "EditRemove"}
  Items = {1, 2, 3}
  MaxLines = 2
  Documented = FALSE
  Avoided = {"explored", "same", "stale", "garbage"}
SPECIFICATION Spec
INVARIANT  TreeWhole 
PROPERTY  CurrentFollows TreeIsSheet
SYMMETRY Symmetry
CHECK_DEADLOCK FALSE
