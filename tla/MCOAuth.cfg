SPECIFICATION Spec
CONSTANTS
  Request = {r1}
  Proof = {j1}
  Device = {d1}
  MaxCodes = 2
  MaxTokens = 6
  MaxCrashes = 1
INVARIANTS ReplayEndsFamily OneTokenToRefresh AnsweredOnce
CONSTRAINT Apart
CHECK_DEADLOCK FALSE
