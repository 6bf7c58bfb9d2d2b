\* Three targets at most of a DispatchProxy, written, changed and iterated over.
CONSTANTS
  p1 = p1
  p2 = p2
  v1 = v1
  v2 = v2
  Numbers = {0, 1, 2, 3}
  Texts = {p1, p2}
  Values = {v1, v2}
  Default = v1
  Bad = Bad
  Nil = Nil
  ReadOnly = {p1}
  WriteOnly = {p2}
  MinResize = 0
  MaxResize = 2
  MaxLen = 2
  MaxHash = 1
  Programs <- MCPrograms
  MaxTargets = 2
  Masks <- MCMasks
  Word = 8
  Avoided = {"shadow", "extend", "change"}
SPECIFICATION Spec
 
PROPERTY OthersRead
PROPERTY MergedWhole
