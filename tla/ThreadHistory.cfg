SPECIFICATION Spec
CONSTANTS
  s1 = s1
  s2 = s2
  t1 = t1
  t2 = t2
  t3 = t3
  Sessions = {s1, s2}
  Turns = {t1, t2, t3}
  Homes = {1, 2, 3}
  First = s1
  Spawning = {t1, t3}
  Reads = {r1, r2}
  Rollbacks = {b}
  Controls = {r1}
  Lives = {l}
  None = None
  Own = Own
  Terminal = Terminal
  MaxCrashes = 1
  MaxFaults = 1
SYMMETRY AlikeTurns
INVARIANTS TurnKeepsId EndedTurnsAreStored MemoryIsStored ChildIsItsOwn
PROPERTIES OneThreadPerChild
CHECK_DEADLOCK FALSE
