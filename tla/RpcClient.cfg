SPECIFICATION CallSpec
CONSTANTS
  RequestLen = 2
  HeaderLen = 2
  BodyLen = 21
  TagLength = 1
  HeaderBase = 3
  KeyLength = 2
  Calls <- MCCalls
INVARIANTS
  ResourcesReleased
  SentOnce
  WholeUnlessCut
  WholeAnswersExact
  StringMeansExecuted
  NeverMoreThanHeld
PROPERTIES
  ImplementsRequest
  Ends
