\* Two threads share an object with a field and a member, and another object.
SPECIFICATION FairSpec
CONSTANTS
  s = s  t = t  s1 = s1  s2 = s2  t1 = t1  pf = pf  p = p  q = q  m = m  k = k
  None = None
  Thread = {s, t}
  Obj = {p, q, m, k}
  Heap = {p, q}
  Var = {s1, s2, t1, pf}
  Owner <- Owners
  Delegates <- MemberOfMember
  Careful = TRUE
INVARIANTS CountExact ReferredAlive
PROPERTIES ImplementsShared
CHECK_DEADLOCK FALSE
