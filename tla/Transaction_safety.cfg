SPECIFICATION TxSpec
CONSTANTS
  payer = payer
  prog = prog
  a = a
  b = b
  Keys = {payer, prog, a, b}
  ProgramIds = {prog}
  FeePayers = {payer}
  ByteRange = 3
  MaxInstructions = 2
  MaxAccounts = 3
  Signatories = {payer, a, b}
  MaxSigners = 2
  MaxCalls = 2
  Unsigned = Unsigned
  HighBit = 3
  Blockhash = Blockhash
  Data <- SomeData
SYMMETRY OtherAccounts
INVARIANTS
  FlagsAddUp
  GrantsExactWhenCanonical
  SignersMatchedWhenCanonical
  
