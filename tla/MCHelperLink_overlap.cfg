\* Two restarts, or a restart and the shutdown, overlap while REST handlers call
\* start() and the network fails twice.
CONSTANTS
  l1 = l1
  l2 = l2
  l3 = l3
  Loops = {l1, l2, l3}
  NoLoop = NoLoop
  Stray = Stray
  o1 = o1
  o2 = o2
  Operators = {o1, o2}
  SendersActive = TRUE
  MaxDrops = 2
SPECIFICATION LinkSpec
INVARIANTS SubscribedHasLoop
PROPERTIES DisconnectReturns
CHECK_DEADLOCK FALSE
