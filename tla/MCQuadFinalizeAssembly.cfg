CONSTANTS
  Line <- MCLine
  File <- ShortFile
  INITIAL_LABELS_CAP = 1
  Fault <- MemoryFaults
SPECIFICATION FairSpec
INVARIANTS
  TypeOK
  LabelsWithinCap
  JumpsLandOnTheirLabel
PROPERTIES
  Assembled
  Termination
