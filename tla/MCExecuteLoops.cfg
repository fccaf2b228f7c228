CONSTANTS
  None = None
  Ast <- LoopProgram
SPECIFICATION Spec
INVARIANTS TypeOK FailureHasCause ReturnValueInFlight BlockScopesClosed JumpHasTarget ExceptionsInFlight
PROPERTIES LoopScopesClosed FailureIsResolved
