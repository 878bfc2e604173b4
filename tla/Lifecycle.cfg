SPECIFICATION Spec
CONSTANTS
  Period = 2
  MaxNow = 3
  MaxTerms = 2
  MaxTxs = 2
  ConfirmAttempts = 2
  PollAttempts = 2
  Amounts = {0, 2}
  Kinds = {"subscription", "fixed", "recurring"}
  Purse = 3
  OfferTime = 2
  MaxRuns = 2
  MaxChanges = 1
INVARIANTS
  CancelHolds
  FiguresHold
  VerdictTrue
  SubscribeHolds
  ShowHolds
CHECK_DEADLOCK FALSE
