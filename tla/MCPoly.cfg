SPECIFICATION Spec
CONSTANTS
  derived = derived  base = base
  a0 = a0  a1 = a1
  Addr = {a0, a1}
  Ud = {u1, u2}
  NULL = NULL
  Ptr <- MCPtr
  Class <- MCClass
  ClassOf <- MCClassOf
  AddrOf <- MCAddrOf
  AllBases <- MCAllBases
  RootBases <- MCRootBases
  Cast <- MCCast
INVARIANT SamePointerSameUserdata
CHECK_DEADLOCK FALSE
