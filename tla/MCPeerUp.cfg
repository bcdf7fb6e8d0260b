SPECIFICATION PeerUpSpec
CONSTANTS
  Process = {p1, p2, p3}
  SigningKey = {k1, k2, k3}
  Missing = Missing
  Empty = Empty
  None = None
  MaxWall = 1
  MaxCounter = 2
INVARIANTS OneSender OneIdentity SenderInv ClockTypeOK PastAllSeen
PROPERTIES KeyIsKept NeverBack
