CONSTANTS
  None = None
  Ast <- SameNameProgram
SPECIFICATION Spec
INVARIANTS NoNullDereference
