\* Two values and a reference, or one and two; a table, guarded globals, userdata; one interpreter.
SPECIFICATION Spec
CONSTANTS
  s1 = s1  s2 = s2  x = x  y = y  r = r  q = q  one = one  word = word  t = t  g = g
  ud = ud  ud2 = ud2  null = null  alien = alien  bare = bare  f = f  th = th  udobj = udobj
  None = None  Nil = Nil
  Val = {x, y}
  Ref = {r, q}
  Interp = {s1}
  Slot = {1, 2, 3, 4}
  Number = {one}
  Text = {word}
  Numeric = {}
  Table = {t, g}
  Userdata = {ud, ud2}
  NullUd = {null}
  Foreign = {alien}
  Bare = {bare}
  Function = {f}
  Thread = {th}
  Guarded = {g}
  Programs <- FewKinds
  Key = {one}
  Kept = {one}
  Body <- BodyOf
  Global <- GlobalOf
  Block <- BlockOf
  Target <- TargetOf
  Rank <- RankOf
  Careful = TRUE
INVARIANTS OneOwner 
PROPERTIES StackKept ImplementsSemantics
CHECK_DEADLOCK FALSE
