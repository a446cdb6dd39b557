SPECIFICATION LogSpec
CONSTANTS
  Dates <- MCDates
  Formats <- MCFormats
  TickingDates <- MCTickingDates
  MaxSeconds = 2
  IntRange = 65536
  LongRange = 2000000000
  Calls <- MCCalls
  CallDates <- MCCallDates
  Sdts <- MCSdts
  Machines <- MCMachines
  Vectors = {2, 32}
  MaxLog = 8
  Word16 = 256
  Byte = 16
  PAGE = 16
INVARIANTS
  UtcIsRight
  NumbersAreShown
PROPERTIES
  ConfirmsWithinSecond
CHECK_DEADLOCK FALSE
