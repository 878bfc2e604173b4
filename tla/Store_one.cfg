SPECIFICATION Spec
CONSTANTS
  Pda = {p1, p2, p3}
  Writer = {w1}
  Notifier = n
  Unreadable = {p3}
  MaxTx = 4
  MaxLag = 0
INVARIANTS
  TypeOK
  FeedMissesOnlyClosed
  CacheFollows
SYMMETRY Symmetry
CHECK_DEADLOCK FALSE
