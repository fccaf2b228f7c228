CONSTANTS
  None = None
  Ast <- RetryProgram
SPECIFICATION Spec
INVARIANTS CatchParameterHoldsThrown
