SPECIFICATION Spec
CONSTANTS
  Builds <- Both
  Args <- AnyArg
  Keys <- SomeKeys
  Tables = {"none", "table"}
  LuaFailures = {"run", "syntax"}
  PullTypes <- Checked
  MaxStack = 2
  MaxParams = 2
  MaxResults = 1
  MaxEntries = 2
INVARIANTS TypeOK SafeAtDelivers
PROPERTIES CallerStackKept FailureReported
CHECK_DEADLOCK FALSE
