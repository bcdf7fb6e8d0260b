SPECIFICATION PatientTransfer
CONSTANTS
  Puller = {p1, p2}
  Digest <- MCBitDigest
  Inode = {i1, i2}
  NoFile = NoFile
  Byte <- MCBits
  Zero = 0
  Payload <- MCBitPayload
  Offset <- MCBitOffset
  CHUNK_SIZE = 1
  MaxInFlight = 1
  Server = {s1}
  Nobody = Nobody
  Content <- MCBitContent
  MaxInbox = 1
  Patient = {p1}
  Volatile = {s1}
  Faults = {"stream", "crash", "corrupt", "error", "timeout", "pull"}
INVARIANT TransferTypeOK
PROPERTIES EntriesStay PullReturns
