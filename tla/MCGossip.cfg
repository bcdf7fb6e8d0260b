SPECIFICATION FairSpec
CONSTANTS
  Key = {k1, k2}
  Value = {v1, v2}
  None = None
  Malformed = Malformed
  Command = {"peers", "models"}
  Steady = {k1}
  Capacity = 1
  ZenohBuffer = 1
  Window = 1
  MayClose = TRUE
INVARIANTS TypeOK NothingStale SeenIsServed
PROPERTIES ListingEnds ForwarderStops
