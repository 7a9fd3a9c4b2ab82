SPECIFICATION Spec
CONSTANTS
  Obj = {o1, o2}
  Builds <- Both
  MaxArgs = 3
  NULL = NULL
INVARIANTS ArgumentsInOrder ResultsAreProduced Owned OwnedOnce
SYMMETRY ObjSymmetry
CHECK_DEADLOCK FALSE
