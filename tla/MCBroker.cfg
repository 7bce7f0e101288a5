\* Two connections of a bot or a user; two commands from two senders at Ecovacs.
CONSTANTS
  k1 = k1
  k2 = k2
  Conns = {k1, k2}
  b1 = b1
  Bots = {b1}
  u1 = u1
  Users = {u1}
  None = None
  i1 = i1
  i2 = i2
  Ids = {i1, i2}
  x1 = x1
  x2 = x2
  Senders = {x1, x2}
  ProxyMode = TRUE
SPECIFICATION Spec
SYMMETRY Relabelled
INVARIANTS ConnectedIsUp ProxyKept LeftoverExplained AnswersCorrelate
PROPERTIES ImplementsPresence
CHECK_DEADLOCK FALSE
