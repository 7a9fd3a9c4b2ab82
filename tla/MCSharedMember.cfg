SPECIFICATION OwnershipSpec
CONSTANTS
  pod = pod  member = member
  a0 = a0  o0 = o0
  Addr = {a0}
  Ud = {u1, u2}
  NULL = NULL
  Ptr <- MCPtr
  Class <- MCClass
  ClassOf <- MCClassOf
  AddrOf <- MCAddrOf
  AllBases <- MCAllBases
  RootBases <- MCRootBases
  Cast <- MCCast
  Object = {o0}
  Whole <- MCWhole
  Shared = {pod}
  Deletable = {}
  MaxUses = 1
INVARIANT NoEntryAfterGc
CHECK_DEADLOCK FALSE
