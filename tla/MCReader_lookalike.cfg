CONSTANTS
  Inputs <- MCLookalike
  Wants <- MCWants
SPECIFICATION ReaderSpec
INVARIANT OnlyMalformedRefused
CHECK_DEADLOCK FALSE
