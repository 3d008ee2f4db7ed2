\* Three transactions over one key, concurrent or one by one.
SPECIFICATION MCSpec
CONSTANTS
  Txn = {t1, t2, t3}
  Key = {k1}
  MaxLog = 8
  MaxCrashes = 2
  ShortLog = 6
  FewCrashes = 1
CHECK_DEADLOCK FALSE
INVARIANTS FlushedIsDurable AckedIsDurable ReadYourWrites
PROPERTIES SnapshotStable RecoveryRestores
