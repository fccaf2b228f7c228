CONSTANTS
  r1 = r1
  r2 = r2
  Record = {r1, r2}
  s1 = s1
  s2 = s2
  s3 = s3
  Strip = {s1, s2, s3}
  A = A
  B = B
  Scope = {A, B}
  x = x
  Key = {x}
  NULL = NULL
  MaxTemps = 1
  MaxEntries = 4
SPECIFICATION Spec
CONSTRAINT FewEntries
SYMMETRY Symmetric
INVARIANTS TypeOK ChainsDisjoint LinksCountOwners NamesUnique
PROPERTIES ImplementsEnvironments
