SPECIFICATION Spec
CONSTANTS
  File <- MCFile
  Tables <- MCTables
  Tree <- MCTree
  Example <- MCExample
  PREVIEW_CAP = 15
  MayFail = TRUE
INVARIANTS
  OwnedOnce
  NothingForgotten
  LocatedRight
  HandedOnIsTheFile
  DumpTellsApart
  AcceptsWhatIsWritten
  NothingAfterErrors
  ReportsAsDocumented
PROPERTIES
  Ends
