CONSTANTS
  Nodes <- MCNone
  Texts <- MCBlocks
SPECIFICATION TextSpec
INVARIANT TextNeverPanics
CHECK_DEADLOCK FALSE
