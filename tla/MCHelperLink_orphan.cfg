\* Two restarts, or a restart and the shutdown, overlap.
CONSTANTS
  l1 = l1
  l2 = l2
  l3 = l3
  Loops = {l1, l2, l3}
  NoLoop = NoLoop
  Stray = Stray
  o1 = o1
  o2 = o2
  Operators = {o1, o2}
  SendersActive = FALSE
  MaxDrops = 3
SPECIFICATION LinkSafety
INVARIANT OneLoop
CHECK_DEADLOCK FALSE
