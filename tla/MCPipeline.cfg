CONSTANTS
  Id <- MCId
  NumInt <- MCNumInt
  NumFloat <- MCNumFloat
  Prefix63 <- MCPrefix63
  Expression <- MCExpression
  Condition <- MCCondition
  Statement <- MCStatement
  Program <- MCProgram
  Capacity <- MCCapacity
  MAX_BREAK_DEPTH = 2
  Fault <- MCFault
  Width <- MCWidth
  MAX_LINE_LENGTH = 100
  INITIAL_LABELS_CAP = 1
  Variable <- MCVariable
  NumberOf <- MCNumberOf
  Stdin <- MCStdin
  MAX_FLOAT = 50
  MAX_TEXT = 200
  FUEL = 6
SPECIFICATION PipelineSpec
INVARIANTS
  JumpsResolved
  LabelInv
  LabelsUnique
  NoDanglingBreakLabel
  BreakStackMirrorsNesting
  TempsComputedOnce
  OperandsTyped
  JumpsStayInCode
  RunsAsWritten
  RefusedForAReason
  CodeNeverAtFault
PROPERTIES
  BreakLeavesInnermost
  EverythingEnds
