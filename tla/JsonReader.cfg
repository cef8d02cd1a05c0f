SPECIFICATION Spec
CONSTANTS
  Documents <- MCDocuments
  Keys <- MCKeys
  MaxSelections = 2
  SizeRange = 64
INVARIANTS
  TypeOK
  FindsValue
  CutNeverMisleads
  CountsElements
PROPERTY Returns
CHECK_DEADLOCK FALSE
