CONSTANTS
  MaxLine = 1
  MaxColumn = 3
  MaxFlow = 2
  KeyLimit = 1
  Repoll = TRUE
SPECIFICATION FairScannerSpec
INVARIANTS KeysInQueue IndentsAgree NoKeyDropped
PROPERTIES DeliversStream FetchAnswers
CHECK_DEADLOCK FALSE
