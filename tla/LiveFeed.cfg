SPECIFICATION FairSpec
CONSTANTS
  MaxSlot = 1
  MaxFeed = 1
  MaxLag = 1
  MaxBacklog = 1
  MaxStreams = 1
  MaxFaults = 1
INVARIANTS
  LiveIsTrue
PROPERTIES
  NeverOlderThanUpdate
  LiveStreamKept
  EventuallyShown
CHECK_DEADLOCK FALSE
