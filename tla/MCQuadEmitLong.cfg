CONSTANTS
  Id <- LongId
  NumInt <- LongNumInt
  NumFloat <- NoNumFloat
  Prefix63 <- LongPrefix63
  Expression <- LongExpression
  Condition <- NoCondition
  Statement <- LongStatement
  Program <- LongProgram
  Capacity <- NoFault
  MAX_BREAK_DEPTH = 128
SPECIFICATION Spec
INVARIANTS
  WrittenAsTheyAre
