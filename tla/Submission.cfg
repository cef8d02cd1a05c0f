SPECIFICATION SubmissionSpec
CONSTANTS
  TimeoutMs = 12
  PollInterval = 3
  MaxLatency = 3
  UintRange = 19
INVARIANTS
  FalseMeansMissed
  BoundedOvershoot
  SaidTruly
PROPERTIES
  SentAfterFunding
  MissingIsCreated
  Exits
