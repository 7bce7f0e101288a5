\* One restart or shutdown, no REST handler starting a loop at that moment.
CONSTANTS
  l1 = l1
  l2 = l2
  Loops = {l1, l2}
  NoLoop = NoLoop
  Stray = Stray
  o1 = o1
  Operators = {o1}
  SendersActive = FALSE
  MaxDrops = 3
SPECIFICATION RestartSpec
INVARIANTS OneLoop StopIsFinal
PROPERTIES Recovers
CHECK_DEADLOCK FALSE
