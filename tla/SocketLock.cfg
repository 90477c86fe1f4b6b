SPECIFICATION SocketFairSpec
CONSTANTS
  Contenders = {1, 2}
  Faulty = {1, 2}
  Earlier = Earlier
  Nobody = Nobody
INVARIANT MutualExclusion
PROPERTY ContendersLeave
\* Every call may have ended.
CHECK_DEADLOCK FALSE
