------------------------------ MODULE MCStrip ------------------------------
EXTENDS Strip, FiniteSetsExt, TLC

CONSTANT MaxEntries   \* bound: entries in all strips together

Symmetric == Permutations(Record) \cup Permutations(Strip) \cup Permutations(Scope)

FewEntries ==
  MapThenSumSet(LAMBDA s : Cardinality(strips[s].variables) + Cardinality(strips[s].inputs),
                Live) <= MaxEntries
=============================================================================
