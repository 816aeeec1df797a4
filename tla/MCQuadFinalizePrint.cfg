CONSTANTS
  Line <- MCLine
  File <- AnyFile
  INITIAL_LABELS_CAP = 1
  Fault <- PrintFault
SPECIFICATION Spec
INVARIANTS
  SuccessMeansComplete
