SPECIFICATION Spec
CONSTANTS
  Chars = {a, b}
  CAPACITY = 2
  Cols = 3
  Rows = 3
  PromptLen = 1
  MaxLen = 6
  NUL = NUL
  Garbage = Garbage
INVARIANTS
  EditsInBounds
  CursorOnPos
PROPERTIES
  ImplementsTextLine
CHECK_DEADLOCK FALSE
