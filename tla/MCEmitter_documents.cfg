CONSTANTS
  ScalarLooks <- MCScalars
  CollectionLooks <- MCCollections
  DocumentLooks <- MCDocuments
  MaxDepth = 2
SPECIFICATION EmitterSpec
INVARIANTS StacksAgree IndentsNest NoEmptyBlock DirectivesInScope DocumentsDelimited EmitterNeverPanics
PROPERTIES WritesGrammar RefusesOnlyWrong
CHECK_DEADLOCK FALSE
