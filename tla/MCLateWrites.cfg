SPECIFICATION LateSpec
CONSTANTS
  Puller = {p1}
  Digest <- MCDigest
  Inode = {i1}
  NoFile = NoFile
  Byte <- MCByte
  Zero = 0
  Payload <- MCPayload
  Offset <- MCOffset
  CHUNK_SIZE = 1
  MaxInFlight = 1
INVARIANT LateCacheIntegrity
