SPECIFICATION Spec
CONSTANT
    MaxInt = 2
    Bytes <- MCBytes
    MaxLength = 2
    MaxExponent = 3
    Programs <- MCPrograms
    Literals <- MCLiterals
    Indexes <- MCIndexes
    Stored = {2}
    c1 = c1
    c2 = c2
    c3 = c3
    Cells <- MCCells
    Garbage = {0, 49}
SYMMETRY Symmetry
INVARIANT TypeOK PayloadsSound OrderConsistent
PROPERTY TypedStays
CHECK_DEADLOCK FALSE
