\* Members of the same names, and every type of QMetaValue but float.
CONSTANTS
  o1 = o1
  Objects = {o1}
  Declarations <- MCDeclarations
  Numbers <- MCNumbers
  IntMax = 1
  Strings = {"a", "b"}
  MaxArgs = 2
  Null = Null
  Avoided = {"float"}
SPECIFICATION Spec
INVARIANT EveryMemberNamed
 
 
 
