SPECIFICATION FairSpec
CONSTANTS
  turn = turn
  control = control
  rollback = rollback
  delete = delete
  Ops = {turn, control, rollback, delete}
  KindOf <- MCKindOf
  Most <- MCMost
  Release = Release
CONSTRAINT Scope
INVARIANTS NotClosedInUse OneWriter NothingOrphaned LoadedIsStored ShutdownIsComplete
PROPERTIES FailedStaysBlocked OperationsEnd
CHECK_DEADLOCK FALSE
