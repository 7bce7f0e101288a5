\* One restart or shutdown, and one failure of the network.
CONSTANTS
  l1 = l1
  l2 = l2
  Loops = {l1, l2}
  NoLoop = NoLoop
  Stray = Stray
  o1 = o1
  Operators = {o1}
  SendersActive = FALSE
  MaxDrops = 1
SPECIFICATION RestartSpec
PROPERTY CleanupReached
CHECK_DEADLOCK FALSE
