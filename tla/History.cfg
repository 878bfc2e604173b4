SPECIFICATION HistorySpec
CONSTANTS
  Kinds = {"subscription", "fixed"}
  MaxLeft = 2
  Worker = {w1, w2}
  Days = 1
  Batch = 1
  PageLimit = 1
  MaxDay = 3
  MaxEvents = 3
  MaxChanged = 1
  MaxEntered = 2
  Short = {"a"}
INVARIANTS
  EventsTrue
  PagesTrue
  ScreenTrue
PROPERTIES
  CutNeverBack
SYMMETRY Symmetry
CHECK_DEADLOCK FALSE
