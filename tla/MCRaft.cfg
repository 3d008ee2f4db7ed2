SPECIFICATION Spec
CONSTANTS
  Node = {1, 2, 3}
  Quorum = {{1, 2}, {1, 3}, {2, 3}}
  Thread = {th1, th2}
  ElectionTimeout = 2
  Splits <- OneSplit
  MaxTerm = 2
  MaxIndex = 2
  MaxSends = 2
SYMMETRY Symmetry
CHECK_DEADLOCK FALSE
INVARIANTS ElectionSafety LogIsContiguous RequestsStayTrue DeadlockTakesTwoElections
