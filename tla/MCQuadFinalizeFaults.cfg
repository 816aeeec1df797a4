CONSTANTS
  Line <- MCLine
  File <- AnyFile
  INITIAL_LABELS_CAP = 1
  Fault <- AllFaults
SPECIFICATION Spec
INVARIANTS
  FinalIsPrefix
