SPECIFICATION FairSpec
CONSTANTS
  c1 = c1
  c2 = c2
  c3 = c3
  m1 = m1
  Calls = {c1, c2}
  MessageOf <- MCMessageOf
  MaxReceipts = 1
  MaxTurns = 2
  None = None
INVARIANTS OneReplacementPerMessage NotPreempted
PROPERTIES StoppedStaysStopped RepetitionJoins CallsAreAnswered
\* Every call may have been answered, and no Turn begin any more.
CHECK_DEADLOCK FALSE
