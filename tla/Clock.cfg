SPECIFICATION FairSpec
CONSTANTS
  Freq = 4
  NanosPerMicro = 2
  MicrosPerSecond = 6
  SecondsPerMinute = 3
  Word32 = 64
  Word64 = 512
  FirstTsc = {4}
  UipTicks = 2
  TimerPeriod = 3
  MaxDelay = 1
  MaxTicks = 12
  MaxIrqs = 5
  SetBackTo = {0}
  MaxJumps = 1
INVARIANTS
  BoottimeFollowsTsc
  ClockIsRight
PROPERTIES
  ShownNeverBack
  SyncEnds
