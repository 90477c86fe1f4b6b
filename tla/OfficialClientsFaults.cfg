SPECIFICATION FairSpec
CONSTANTS
  c1 = c1
  c2 = c2
  r1 = r1
  r2 = r2
  Clients = {c1, c2}
  Requests = {r1, r2}
  ClientOf <- MCClientOf
  None = None
  Recovery = TRUE
  MaxFaults = 4
INVARIANTS OneOwnedProcess ReadyServesAll SentWorkIsCurrent
PROPERTY SettledRecovers
\* A closed scope whose process is gone may stop.
CHECK_DEADLOCK FALSE
