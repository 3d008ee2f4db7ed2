\* An aborted transaction, and a recovery.
SPECIFICATION TidySpec
CONSTANTS
  Txn = {t1, t2, t3}
  Key = {k1}
  MaxLog = 8
  MaxCrashes = 2
  ShortLog = 6
  FewCrashes = 1
CHECK_DEADLOCK FALSE
PROPERTY UncommittedAreRolledBack
