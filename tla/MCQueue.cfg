CONSTANTS
  e1 = e1
  e2 = e2
  e3 = e3
  Entry = {e1, e2, e3}
  End = End
  NULL = NULL
  ERROR = ERROR
SPECIFICATION Spec
INVARIANTS TypeOK Ring CursorInRing WalkMeetsAll
PROPERTIES LoopEnds ImplementsSequence
