SPECIFICATION Spec
CONSTANTS
  payer = payer
  prog = prog
  a = a
  b = b
  c = c
  t1 = t1
  t2 = t2
  Keys = {payer, prog, a, b}
  ProgramIds = {prog}
  FeePayers = {payer}
  LookupTables <- PlainTable
  ByteRange = 256
  MaxInstructions = 2
  MaxAccounts = 2
INVARIANTS
  StaticOrLookedUp
