SPECIFICATION Spec
CONSTANTS
  ByteBits = 4
  Ten = 2
  IdLen = 1
  Pad = Pad
  Junk = Junk
  None = None
  Null = Null
  Peer <- MCPeer
  Name <- MCName
  Body <- MCBody
  IdText <- MCIdText
  BodyText <- MCBodyText
INVARIANTS ReachesItsKind ArrivesIntact AcceptsExactly RelayIsStable SameAddress
CHECK_DEADLOCK FALSE
