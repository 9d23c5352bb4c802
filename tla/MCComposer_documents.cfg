CONSTANTS
  Anchors <- MCAnchors
  MaxNodes = 4
  MaxRefs = 5
  Again = TRUE
SPECIFICATION ComposerSpec
INVARIANTS ComposerTypeOK ContextMirrorsFrames AnchorsLocal DocumentComplete DocumentSaysEvents
CHECK_DEADLOCK FALSE
PROPERTY PanicOnlyAfterError
