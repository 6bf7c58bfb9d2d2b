\* Calls that nest up to five deep above the host, on the main thread and two coroutines.
CONSTANTS
  Main = Main
  c1 = c1
  c2 = c2
  Coroutines = {c1, c2}
  Paths <- MCPaths
  MaxDepth = 6
  Rejoin = FALSE
  Foreign = FALSE
SPECIFICATION Spec
SYMMETRY Symmetry
INVARIANT CurrentThread
PROPERTY YieldsAsAsked
PROPERTY SetsWholeOrNot
