SPECIFICATION Spec
CONSTANT
    Texts <- MCTexts
    Garbage = {0, 1}
INVARIANT TypeOK TokensTile LongestOperator LinesCounted
PROPERTY AdvanceReturns
