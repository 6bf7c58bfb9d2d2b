\* Two threads drop their references to the same object.
SPECIFICATION Spec
CONSTANTS
  s = s  t = t  s1 = s1  s2 = s2  t1 = t1  pf = pf  p = p  q = q  m = m  k = k
  None = None
  Thread = {s, t}
  Obj = {p}
  Heap = {p}
  Var = {s1, t1}
  Owner <- Owners
  Delegates = {}
  Careful = TRUE
INVARIANTS NoUseAfterFree
CHECK_DEADLOCK FALSE
