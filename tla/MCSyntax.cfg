SPECIFICATION Spec
CONSTANT Texts <- MCTexts
INVARIANT TypeOK SpeculationsClosed DepthsCountBodies JumpsEnclosed LeavesInOrder QuietlyAccepted
PROPERTY Terminates
