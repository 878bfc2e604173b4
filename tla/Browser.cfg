SPECIFICATION Spec
CONSTANTS
  Wallet = {w1, w2}
  None = None
  MaxCalls = 3
  MaxEndpoints = 2
  MaxLost = 1
  MaxChanges = 1
  MaxVersion = 3
  MaxHitches = 1
  Refreshes = {1, 2}
INVARIANTS
  PushHolds
  ShellHolds
PROPERTIES
  BrowserSettles
CHECK_DEADLOCK FALSE
