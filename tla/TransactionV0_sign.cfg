SPECIFICATION TxSpec
CONSTANTS
  payer = payer
  prog = prog
  a = a
  b = b
  t1 = t1
  Keys = {payer, prog, a, b}
  ProgramIds = {prog}
  FeePayers = {payer}
  LookupTables <- OneTable
  ByteRange = 4
  MaxInstructions = 1
  MaxAccounts = 2
  Signatories = {payer, a, b}
  MaxSigners = 2
  MaxCalls = 2
  Unsigned = Unsigned
  HighBit = 2
  Blockhash = Blockhash
  Data <- SomeData
INVARIANTS
  SlotsOwned
  SignersMatched
  
PROPERTIES
  SignaturesStay
