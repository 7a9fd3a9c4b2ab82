SPECIFICATION Spec
CONSTANTS
  Proxied <- Classes
  Derives <- Derivation
  StringIsIntegral = TRUE
  SharedClasses <- MadeShared
INVARIANT TestsPass
