SPECIFICATION Spec
CONSTANTS
  payer = payer
  prog = prog
  a = a
  b = b
  c = c
  t1 = t1
  t2 = t2
  Keys = {payer, prog, a, b, c}
  ProgramIds = {prog}
  FeePayers = {payer}
  LookupTables <- TwoTables
  ByteRange = 4
  MaxInstructions = 2
  MaxAccounts = 3
INVARIANTS
  TypeOK
  FeePayerFirst
  SignersFirst
  IndexesResolve
  NoWriteEscalation
  ListedOnce
  NeverThrows
  StaticWritesGranted
