SPECIFICATION FairOwnershipSpec
CONSTANTS
  box = box  item = item  leaf = leaf  mid = mid  top = top
  a0 = a0  a1 = a1  o0 = o0  o1 = o1
  Addr = {a0, a1}
  Ud = {u1, u2}
  NULL = NULL
  Ptr <- MCPtr
  Class <- MCClass
  ClassOf <- MCClassOf
  AddrOf <- MCAddrOf
  AllBases <- MCAllBases
  RootBases <- MCRootBases
  Cast <- MCCast
  Object = {o0, o1}
  Whole <- MCWhole
  Shared = {leaf, mid, top}
  Deletable = {box}
  MaxUses = 2
INVARIANTS OwnershipTypeOK UseCountExact OneUserdata
PROPERTIES ImplementsLifetime ImplementsHandles EmptyTableCleaned LostIsDestroyed
CHECK_DEADLOCK FALSE
