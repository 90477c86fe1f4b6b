SPECIFICATION Spec
CONSTANTS
  c1 = c1
  c2 = c2
  c3 = c3
  c4 = c4
  k1 = k1
  k2 = k2
  Callers = {c1, c2, c3, c4}
  Keys = {k1, k2}
  KeyOf <- MCKeyOf
  Explicit = {c1, c2}
  Overlap = TRUE
  Faults = TRUE
  None = None
INVARIANT StoreReopens
\* Every call may have ended.
CHECK_DEADLOCK FALSE
