SPECIFICATION RouterSpec
CONSTANTS
  Peer <- MCFourPeers
  Model = {m1}
  Number = {0, 1}
  UnknownLoad = 1
  NaN = NaN
  DeadAfter = 1
  MaxHops = 1
  Self = 0
  MaxTime = 0
  MaxLog = 5
INVARIANT SameTarget
