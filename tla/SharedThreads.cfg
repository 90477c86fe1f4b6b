SPECIFICATION FairSpec
CONSTANTS
  c1 = c1
  c2 = c2
  c3 = c3
  Viewers = {v1, v2}
  Calls = {c1, c2, c3}
  MessageOf <- MCMessageOf
  x = x
  Inputs = {x, y}
  Questions = {q}
  None = None
  MaxReceipts = 1
  MaxLosses = 1
CONSTRAINT Scope
INVARIANTS StartedOnce ViewsAgree
PROPERTIES CallsEnd
\* Every call may have been answered, and the owner closed.
CHECK_DEADLOCK FALSE
