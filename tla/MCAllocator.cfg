SPECIFICATION Spec
CONSTANTS
  Block = {b1, b2, b3}
  CacheThread = {th1, th2}
  Request = {1, 16, 17, 100, 1024, 2000}
  BinLimit = 2
  FreeNode = {n1, n2}
  ArenaThread = {at1, at2}
  NullNode = null
  Object = {o1, o2, o3}
  NoObject = null
  User = {u1, u2, u3}
  Records = 2
  RetireLimit = 2
INVARIANTS BlocksHaveOneOwner BlocksAreLargeEnough NodesHaveOnePlace UsedIsNotFreed
SYMMETRY Symmetry
CHECK_DEADLOCK FALSE
