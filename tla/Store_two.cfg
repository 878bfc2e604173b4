SPECIFICATION Spec
CONSTANTS
  Pda = {p1, p2}
  Writer = {w1, w2}
  Notifier = n
  Unreadable = {}
  MaxTx = 3
  MaxLag = 1
INVARIANTS RowIsChainState CursorCovers
PROPERTY RowsOnlyAdvance
SYMMETRY Symmetry
CHECK_DEADLOCK FALSE
