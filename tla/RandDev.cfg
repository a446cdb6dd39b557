SPECIFICATION DevSpec
CONSTANTS
  Threads = {t1, t2}
  Users = {t1}
  BLOCK = 2
  MaxSize = 3
  KERNEL_TICKS = 4
  USER_TICKS = 3
  StateCycle = 3
INVARIANTS
  NoUseIsLost
  ReseededInTime
  ReadsAreCounted
PROPERTIES
  ReadsReturn
