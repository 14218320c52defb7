\* Two objects, an array and a string, in all the ways they can refer to each
\* other without a loop.
CONSTANTS
  o1 = o1
  a1 = a1
  s1 = s1
  Object = {o1, a1}
  String = {s1}
  Array = {a1}
  MaxObjectDiff = 2
  MaxStringDiff = 1
  MaxCount = 1
  CountModulus = 2
  Careless = {}
SPECIFICATION FairSpec
INVARIANTS TypeOK NothingInUseIsFreed
PROPERTIES ForcedLeavesNoGarbage GarbageGoes
