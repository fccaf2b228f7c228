CONSTANTS
  None = None
  Ast <- SampleProgram
SPECIFICATION Spec
INVARIANTS LabelNamesEnclosingLoop
