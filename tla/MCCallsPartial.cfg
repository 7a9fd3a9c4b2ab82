SPECIFICATION Spec
CONSTANTS
  Obj = {o1, o2}
  Builds <- Taking
  MaxArgs = 3
  NULL = NULL
INVARIANTS Owned
SYMMETRY ObjSymmetry
CHECK_DEADLOCK FALSE
