CONSTANTS
  Handles <- MCHandles
  MaxDepth = 3
  Repoll = FALSE
SPECIFICATION FairParserSpec
INVARIANTS ParserTypeOK StackFramed MarksMatchStates NoPanic NoBlockInFlow TagScope
PROPERTIES EventsFollowGrammar EndReached
CHECK_DEADLOCK FALSE
