SPECIFICATION Spec
CONSTANTS
  main = main  coroutine = coroutine  other = other
  u1 = u1  u2 = u2  t = t  f = f
  Universe = {u1, u2}
  State <- MCState
  UniverseOf <- MCUniverseOf
  Mortal = {coroutine}
  Inst = {x, y, z}
  Ref = {r1, r2, r3, r4}
  Value <- MCValue
  TypeOf <- MCTypeOf
  ID = "table"
  NULL = NULL  NOREF = NOREF  REFNIL = REFNIL  FREE = FREE  NIL = NIL
INVARIANTS RefAllocated RefOwnedOnce NoLeak
PROPERTY ImplementsReferences
SYMMETRY RefSymmetry
CHECK_DEADLOCK FALSE
