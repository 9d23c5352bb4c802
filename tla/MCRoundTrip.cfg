CONSTANTS
  MaxNodes = 3
  MaxRefs = 4
SPECIFICATION RoundTripSpec
INVARIANTS PanicOnlyBelowRoot AnchorsDistinct SameDocument
PROPERTIES DumpFollowsGrammar DumpIsLoaded
CHECK_DEADLOCK FALSE
