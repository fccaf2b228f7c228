CONSTANTS
  None = None
  Ast <- TryProgram
SPECIFICATION Spec
INVARIANTS FailureHasCause
PROPERTIES Terminates
