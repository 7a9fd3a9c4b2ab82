SPECIFICATION Spec
CONSTANTS
  Proxied <- Classes
  Derives <- Derivation
  StringIsIntegral = TRUE
  SharedClasses = {}
  Bases <- AllBases
  Overloads <- SomeOverloads
  ArgLists <- SomeArgLists
  MaxCtors = 2
INVARIANTS FirstFittingConstructs ConstantStaysConstant Delivers TestedIsReadable ReturnedAsDeclared SettersTakeBack
CHECK_DEADLOCK FALSE
