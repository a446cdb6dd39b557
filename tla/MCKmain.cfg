SPECIFICATION KmainSpec
CONSTANTS
  Exceptions = {0, 1, 8, 13, 14, 21}
  MaxDepth = 3
  Machines <- MCMachines
  Loaders <- MCLoaders
  Garbage = 9
INVARIANTS
  LoaderIsHeard
  ContextIsFound
  IoapicsFit
  Acknowledged
PROPERTIES
  ResumesAsInterrupted
  Returns
