SPECIFICATION Spec
CONSTANTS
  Documents <- MCStringArrays
  Keys <- MCKeys
  MaxSelections = 2
  SizeRange = 16
PROPERTY WholeReturns
CHECK_DEADLOCK FALSE
