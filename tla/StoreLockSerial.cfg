SPECIFICATION LockSpec
CONSTANTS
  Instances = {h1, h2, h3}
  NoLock = NoLock
  Unknown = Unknown
  Overlap = FALSE
SYMMETRY Symmetry
INVARIANTS MutualExclusion
PROPERTIES RefusedOnlyByLiveInstance
\* The processes may all be dead, closed or refused: nothing restarts them.
CHECK_DEADLOCK FALSE
