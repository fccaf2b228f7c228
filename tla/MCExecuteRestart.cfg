CONSTANTS
  None = None
  Ast <- RestartProgram
SPECIFICATION Spec
INVARIANTS LoopStartsClean
