SPECIFICATION FairSpec
CONSTANTS
  Peer <- MCPeer
  Local = Local
  Bad = Bad
  Unusable = Unusable
  Other = Other
  Config <- MCConfig
  Capacity = 1
  MaxEvents = 3
  Faults = {"daemon", "register", "browse", "channel"}
  a = a
  b = b
CHECK_DEADLOCK FALSE
INVARIANTS TypeOK NothingLost
PROPERTIES SeedsArrive FoundArrive StopsWhenDropped ReaderIsAdvertised
