CONSTANTS
  NoSource = NoSource
  Source <- MCSource
  Verdict <- MCVerdict
  Length <- MCLength
  Fault <- Detected
SPECIFICATION Spec
INVARIANTS
  TypeOK
  SuccessMeansComplete
  TmpAsAsked
PROPERTIES
  KeepsPromise
