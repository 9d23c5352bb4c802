CONSTANTS
  Nodes <- MCNodes
  Texts <- MCTexts
SPECIFICATION TextSpec
INVARIANTS NodeReadsBack FoldedReadsBack ResolutionKept KnownPanicsOnly
CHECK_DEADLOCK FALSE
