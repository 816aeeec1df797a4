CONSTANTS
  NoSource = NoSource
  Source <- MCSource
  Verdict <- MCVerdict
  Length <- MCLength
  Fault <- LostFlush
SPECIFICATION Spec
INVARIANTS
  SuccessMeansComplete
