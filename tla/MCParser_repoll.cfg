CONSTANTS
  Handles <- MCHandles
  MaxDepth = 2
  Repoll = TRUE
SPECIFICATION ParserSpec
INVARIANTS NoPanic
CHECK_DEADLOCK FALSE
