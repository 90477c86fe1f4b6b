SPECIFICATION Spec
CONSTANTS
  Threads = {t1, t2}
  Requests = {r1, r2}
  Sessions = {s1, s2}
  Turns = {h1, h2}
  Keys = {k1, k2}
  Projects = {p1}
  Clients = {c1, c2}
  NoRecord = NoRecord
  NoSession = NoSession
  NoThread = NoThread
  NoProject = NoProject
  Idle = Idle
  MaxRevision = 4
  MaxTurns = 2
SYMMETRY Symmetry
CONSTRAINT Scope
INVARIANT DiskLoads
PROPERTIES ReplacementIsNeverStale TurnPairsAreStable IsDurableMap
CHECK_DEADLOCK FALSE
