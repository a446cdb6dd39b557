SPECIFICATION ImageSpec
CONSTANTS
  FAN = 4
  LEVELS = 3
  WORDS = 2
  BootTables <- MCBootTables
  Images <- MCImages
  Requests <- MCRequests
INVARIANTS
  ImageIsLoaded
  OwnTables
  AddedIsUsable
PROPERTIES
  CloneFaithful
  OthersKept
CHECK_DEADLOCK FALSE
