SPECIFICATION TxSpec
CONSTANTS
  payer = payer
  prog = prog
  a = a
  b = b
  Keys = {payer, prog, a, b}
  ProgramIds = {prog}
  FeePayers = {payer}
  ByteRange = 256
  MaxInstructions = 2
  MaxAccounts = 2
  Signatories = {payer, a, b}
  MaxSigners = 2
  MaxCalls = 2
  Unsigned = Unsigned
  HighBit = 2
  Blockhash = Blockhash
  Data <- SomeData
SYMMETRY OtherAccounts
INVARIANTS
  SignersBeforeNonSigners
