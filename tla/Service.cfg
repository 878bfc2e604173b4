SPECIFICATION Spec
CONSTANTS
  MaxRelease = 2
  MaxStarts = 3
  MaxStreams = 2
  Client = {c1, c2}
  Limit = 2
  Span = 4
  Second = 2
  SweepEvery = 3
  Merchant = {w1, w2}
  Owner = w1
  MaxAge = 2
  TokenLife = 3
  MaxClock = 7
  MaxSigned = 1
  MaxTerms = 2
INVARIANTS
  SchemaHolds
  GateHolds
PROPERTIES
  ProcessesEnd
CHECK_DEADLOCK FALSE
