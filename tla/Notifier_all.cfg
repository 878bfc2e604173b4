SPECIFICATION FairSpec
CONSTANTS
  Refusals = 1
  Charges = 1
  Browsers = 1
  Indexer = {n1, n2}
  ScanLimit = 2
  MaxFaults = 1
  LostAnswers = FALSE
INVARIANTS
  AtMostOnce
  ClaimsHold
  NoPushForClosed
PROPERTIES
  EverythingGoesOut
CHECK_DEADLOCK FALSE
