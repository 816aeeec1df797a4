CONSTANTS
  NoSource = NoSource
  Source <- GoodSource
  Verdict <- GoodVerdict
  Length <- GoodLength
  Fault <- FaultKind
SPECIFICATION Spec
INVARIANTS
  ReleasedOnce
  OutputIsOfInput
PROPERTIES
  Termination
