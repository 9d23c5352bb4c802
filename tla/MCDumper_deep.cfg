CONSTANTS
  MaxNodes = 3
  MaxRefs = 4
SPECIFICATION DumperSpec
INVARIANT DumpNeverPanics
CHECK_DEADLOCK FALSE
