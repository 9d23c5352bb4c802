CONSTANTS
  Inputs <- MCBoth
  Wants <- MCWants
SPECIFICATION FairReaderSpec
INVARIANTS DecodedInOrder OffsetInPlace OnlyMalformedRefused
PROPERTY RequestAnswered
CHECK_DEADLOCK FALSE
