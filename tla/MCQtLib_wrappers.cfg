\* QObjects and wrappers in every order of creation, deletion, collection and ~State.
CONSTANTS
  o1 = o1
  o2 = o2
  o3 = o3
  o4 = o4
  w1 = w1
  w2 = w2
  w3 = w3
  n1 = n1
  n2 = n2
  f1 = f1
  s1 = s1
  Objects = {o1, o2, o3, o4}
  Wrappers = {w1, w2, w3}
  Names = {n1, n2}
  Members = {n2}
  Functions = {f1}
  Signals = {s1}
  Layouts = {o1, o2}
  Programs <- MCPrograms
  MaxSlots = 2
  Careful = TRUE
  None = None
SPECIFICATION LibSpec
SYMMETRY Symmetry
CHECK_DEADLOCK FALSE
INVARIANT WrappersAgree
 
 
