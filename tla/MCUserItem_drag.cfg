\* Scripts, C++ code and drags in the one view of a model, names that collide and are mangled,
\* items that may not be moved, removed or replaced and a list that refuses one; nothing else
\* runs during a drag.
SPECIFICATION Spec
CONSTANTS
  r = r  l = l  a = a  b = b  c = c  x = x  y = y  z = z  w = w  bad = bad  m1 = m1  m2 = m2  v1 = v1  v2 = v2
  None = None
  Item = {r, l, a, b}
  List = {r, l}
  Model = {m1}
  Base = {x}
  MaxId = 2
  Illegal = {bad}
  Mangle <- MangleBad
  View = {v1}
  Shows <- OneView
  InitName <- SameName
  Typed <- TypedNames
  Movable = {l, a, b}
  RootList = {r}
  Tracked = {}
  NoRename = {}
  NoMove = {a}
  NoRemove = {b}
  NoReplace = {a}
  Accepts <- Rejecting
  EditsWhileDragging = FALSE
INVARIANTS NamesConsistent NoCycle DroppedTogether
PROPERTIES  OthersKeepName
CHECK_DEADLOCK FALSE
