SPECIFICATION FairSpec
CONSTANTS
  a = a
  b = b
  first = first
  again = again
  back = back
  Threads = {a, b}
  Calls = {first, again, back}
  Target <- MCTarget
  Notify <- MCNotify
  None = None
  MaxUndeliverable = 1
CONSTRAINT Scope
INVARIANT BacklogIsNewest
PROPERTIES KeepsPromise EndsWhenDue DeliveryEnds
CHECK_DEADLOCK FALSE
