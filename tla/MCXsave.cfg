SPECIFICATION FairXsaveSpec
CONSTANTS
  Threads = {t1, t2, t3}
  LAST = 4
  Supported = {2, 4}
  Leaf <- MCLeaf
  Contexts <- MCContexts
INVARIANTS
  StateIsPlaced
PROPERTIES
  ImplementsOnce
  CallsReturn
