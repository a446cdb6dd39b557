SPECIFICATION FairSpec
CONSTANTS
  Threads = {t1, t2}
  Libraries <- MCLibraries
  MaxEntries = 2
  NoThread = NoThread
INVARIANTS
  RelocatedOnce
  ResolversRunLast
  TableExclusive
PROPERTIES
  LinksReturn
CHECK_DEADLOCK FALSE
