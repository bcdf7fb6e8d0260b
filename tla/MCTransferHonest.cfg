SPECIFICATION FairTransfer
CONSTANTS
  Puller = {p1, p2}
  Digest <- MCHonestDigest
  Inode = {i1, i2}
  NoFile = NoFile
  Byte <- MCByte
  Zero = 0
  Payload <- MCPayload
  Offset <- MCOffset
  CHUNK_SIZE = 2
  MaxInFlight = 1
  Server = {s1, s2}
  Nobody = Nobody
  Content <- MCHonestContent
  MaxInbox = 2
  Patient = {p1, p2}
  Volatile = {}
  Faults = {}
INVARIANTS HostedPullSucceeds HostedInv
PROPERTY HostedIsFetched
