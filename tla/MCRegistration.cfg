SPECIFICATION Spec
CONSTANTS
  Class <- MCClass
  Bases <- MCBases
  Functions <- MCFunctions
  ConstFunctions <- MCConstFunctions
  Abstract <- MCAbstract
  Added = {"static"}
  Value = {v, w}
  NIL = NIL
  ERROR = ERROR
INVARIANTS TypeOK NearestWins AbstractNotCreated FunctionsCopied
PROPERTY RegisteringKeepsAnswers
SYMMETRY ValueSymmetry
CHECK_DEADLOCK FALSE
