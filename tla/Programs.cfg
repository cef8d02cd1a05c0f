SPECIFICATION ProgramSpec
CONSTANTS
  MaxBump = 4
  KeyLength = 2
  ByteRange = 13
  Requests <- MCRequests
INVARIANTS
  CanonicalBump
  KeysReadBack
  EncodeFits
  
PROPERTIES
  SearchEnds
