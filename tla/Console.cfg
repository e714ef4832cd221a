SPECIFICATION ConsoleSpec
CONSTANTS
  VGA_WIDTH = 2
  VGA_HEIGHT = 3
  BufLen = 2
  Chars = {"a"}
  Numbers = {0, 20}
  MaxBytes = 5
  MaxMoves = 1
INVARIANTS ScreenShowsText BufferLosesNothing NumbersReadBack
PROPERTY BackspaceErases
CHECK_DEADLOCK FALSE
