SPECIFICATION RouterSpec
CONSTANTS
  Peer <- MCPeer
  Model = {m1}
  Number = {0, 1}
  UnknownLoad = 1
  NaN = NaN
  DeadAfter = 2
  MaxHops = 1
  Self = 1
  MaxTime = 2
  MaxLog = 4
INVARIANTS RouterInv ForwardIsBest RefusalIsRight
