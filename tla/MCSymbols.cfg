CONSTANTS
  Name <- MCName
  bucket_count = 2
  symtable_hash <- MCHash
  Declared <- MCDeclared
  Used <- MCUsed
  Failures <- MCFailures
SPECIFICATION Spec
INVARIANTS
  TypeOK
  WellHashed
  HandedOnComplete
  NothingLeaks
PROPERTIES
  ImplementsMap
