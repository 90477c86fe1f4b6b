SPECIFICATION LockSpec
CONSTANTS
  Instances = {h1, h2, h3}
  NoLock = NoLock
  Unknown = Unknown
  Overlap = TRUE
SYMMETRY Symmetry
INVARIANT MutualExclusion
CHECK_DEADLOCK FALSE
