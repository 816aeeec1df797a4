CONSTANTS
  Line <- MCLine
  File <- LongFile
  INITIAL_LABELS_CAP = 1
  Fault <- NoFault
SPECIFICATION Spec
INVARIANTS
  JumpsLandOnTheirLabel
