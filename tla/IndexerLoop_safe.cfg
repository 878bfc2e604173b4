SPECIFICATION FairSpec
CONSTANTS
  MaxTx = 5
  InitialTx = 1
  Slot <- MCSlot5
  Bad = {3}
  ReadAttempts = 3
  CatchUpCap = 3
  RecentCap = 2
  MaxFaults = 3
  Reliable = TRUE
INVARIANTS
  TypeOK
  NoSilentGap
  CursorComplete
  LiveMissesNothing
PROPERTIES
  Follows
  Recovers
