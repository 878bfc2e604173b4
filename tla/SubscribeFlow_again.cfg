SPECIFICATION Spec
CONSTANTS
  Period = 2
  MaxNow = 3
  MaxTerms = 2
  MaxTxs = 2
  ConfirmAttempts = 2
  CachedRows = {"none", "revoked"}
INVARIANT
  DoneMeansSubscribed
CHECK_DEADLOCK FALSE
