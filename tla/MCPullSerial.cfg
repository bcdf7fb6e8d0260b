SPECIFICATION SerialSpec
CONSTANTS
  Puller = {p1, p2}
  Digest <- MCDigest
  Inode = {i1, i2}
  NoFile = NoFile
  Byte <- MCByte
  Zero = 0
  Payload <- MCPayload
  Offset <- MCOffset
  CHUNK_SIZE = 1
  MaxInFlight = 1
SYMMETRY MCSymmetry
INVARIANTS OkMeansVerified CacheIntegrity CacheInv
PROPERTY CacheSpec
