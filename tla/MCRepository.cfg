CONSTANTS
  main = main
  a = a
  b = b
  c = c
  d = d
  lib = lib
  Path = {main, a, b, c, d, lib}
  Main = main
  Uses <- Circles
  Native = {lib}
SPECIFICATION Spec
INVARIANTS RunsOnce NoLoadInItself UsesBeforeRun
