SPECIFICATION Spec
CONSTANTS
  Puller = {p1, p2}
  Digest <- MCOneDigest
  Inode = {i1, i2, i3}
  NoFile = NoFile
  Byte <- MCByte
  Zero = 0
  Payload <- MCPayload
  Offset <- MCOffset
  CHUNK_SIZE = 1
  MaxInFlight = 1
INVARIANTS CacheIntegrity
