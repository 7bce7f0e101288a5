\* A proxy that raises when its bot leaves.
CONSTANTS
  k1 = k1
  k2 = k2
  Conns = {k1, k2}
  b1 = b1
  Bots = {b1}
  u1 = u1
  Users = {u1}
  None = None
  i1 = i1
  Ids = {i1}
  x1 = x1
  Senders = {x1}
  ProxyMode = TRUE
SPECIFICATION Spec
INVARIANTS OnlineIsConnected
CHECK_DEADLOCK FALSE
