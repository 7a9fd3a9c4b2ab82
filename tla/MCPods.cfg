SPECIFICATION Spec
CONSTANTS
  cont = cont  bar = bar  foo = foo  wp = wp  pod = pod
  a0 = a0  a1 = a1
  Addr = {a0, a1}
  Ud = {u1, u2, u3}
  NULL = NULL
  Ptr <- MCPtr
  Class <- MCClass
  ClassOf <- MCClassOf
  AddrOf <- MCAddrOf
  AllBases <- MCAllBases
  RootBases <- MCRootBases
  Cast <- MCCast
SYMMETRY UdSymmetry
INVARIANTS TypeOK CacheSound Registered CollisionFlagged NoLeakedTable FoundIsSameObject
PROPERTY Monotone
CHECK_DEADLOCK FALSE
