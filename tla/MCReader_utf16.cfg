CONSTANTS
  Inputs <- MCUtf16
  Wants <- MCWants
SPECIFICATION ReaderSpec
INVARIANT Utf16InOrder
CHECK_DEADLOCK FALSE
