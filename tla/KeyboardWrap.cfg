SPECIFICATION KbdSpec
CONSTANTS
  QUEUE_LEN = 4
  MaxHead = 5
  TypedKeys = {"A", "SHIFT_LEFT"}
  NoKey = NoKey
PROPERTIES
  StoresInArray
