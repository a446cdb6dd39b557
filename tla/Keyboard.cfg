SPECIFICATION KbdFairSpec
CONSTANTS
  QUEUE_LEN = 3
  MaxHead = 3
  TypedKeys = {"A", "SHIFT_LEFT", "SHIFT_RIGHT", "ARROW_UP", "RIGHT_CONTROL", "PRINT_SCREEN", "OVERRUN"}
  NoKey = NoKey
PROPERTIES
  ImplementsKeyQueue
  KeysArePolled
