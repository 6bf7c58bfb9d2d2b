\* Scripts, C++ code and delegates edit a tree with one model and one view; names never collide.
SPECIFICATION EditSpec
CONSTANTS
  r = r  l = l  a = a  b = b  c = c  x = x  y = y  z = z  w = w  bad = bad  m1 = m1  m2 = m2  v1 = v1  v2 = v2
  None = None
  Item = {r, l, a, b, c}
  List = {r, l}
  Model = {m1}
  Base = {x, y, z, w}
  MaxId = 0
  Illegal = {}
  Mangle <- NoMangle
  View = {v1}
  Shows <- OneView
  InitName <- OwnName
  Typed = {}
  Movable = {l, a, b, c}
  RootList = {r}
  Tracked = {a, b, l}
  NoRename = {}
  NoMove = {}
  NoRemove = {}
  NoReplace = {}
  Accepts <- AllAccepted
  EditsWhileDragging = FALSE
INVARIANTS ListsConsistent ModelsConsistent
PROPERTIES OthersKeepOrder IndexesFollow
CHECK_DEADLOCK FALSE
