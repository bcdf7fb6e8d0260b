SPECIFICATION FairSpec
CONSTANTS
  Key = {k1, k2}
  BadId = BadId
  NoKey = NoKey
INVARIANTS MutualAuth DataNeedsBoth
PROPERTY PairConnects
CHECK_DEADLOCK FALSE
