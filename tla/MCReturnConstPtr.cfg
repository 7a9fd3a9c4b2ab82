SPECIFICATION Spec
CONSTANTS
  Proxied <- Classes
  Derives <- Derivation
  StringIsIntegral = TRUE
  SharedClasses = {}
  Bases <- AllBases
  Overloads <- SomeOverloads
  ArgLists <- SomeArgLists
  MaxCtors = 2
INVARIANT ReturnsInstance
CHECK_DEADLOCK FALSE
