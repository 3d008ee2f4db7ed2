\* Two accounts, two holds, one idempotency key, one void thread.
SPECIFICATION Spec
CONSTANTS
  Account = {a1, a2}
  Hold = {h1, h2}
  Key = {k1}
  Thread = {d1}
  Amount = {1, 2}
  Opening = {0, 2}
  NoKey = NoKey
  MaxTime = 1
  MaxRequests = 4
SYMMETRY Symmetry
CHECK_DEADLOCK FALSE
INVARIANTS HoldsAreCovered LedgerExplainsBalance MoneyIsNotCreated
  KeyMovesMoneyOnce HoldIsDebitedOnce
