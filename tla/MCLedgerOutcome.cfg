\* A void that lands inside a capture.
SPECIFICATION Spec
CONSTANTS
  Account = {a1, a2}
  Hold = {h1}
  Key = {k1}
  Thread = {d1}
  Amount = {1, 2}
  Opening = {0, 2}
  NoKey = NoKey
  MaxTime = 1
  MaxRequests = 4
SYMMETRY Symmetry
CHECK_DEADLOCK FALSE
INVARIANT HoldHasOneOutcome
