SPECIFICATION FairSpec
CONSTANTS
  outer = outer
  inner = inner
  Machines <- MCMachines
  MaxObjects = 3
  MaxDepth = 2
INVARIANTS
  NeverWithoutAlternate
PROPERTIES
  AlternateIsDecided
  ExitToldOnce
  ExitToldBeforeRemoval
CHECK_DEADLOCK FALSE
