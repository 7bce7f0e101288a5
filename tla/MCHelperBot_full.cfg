\* Two requests that may draw the same id, in a cache for one of them.
CONSTANTS
  l1 = l1
  Loops = {l1}
  NoLoop = NoLoop
  Stray = Stray
  Operators = {}
  SendersActive = TRUE
  MaxDrops = 0
  r1 = r1
  r2 = r2
  Requests = {r1, r2}
  NoRequest = NoRequest
  i1 = i1
  i2 = i2
  Ids = {i1, i2}
  FreshIds = FALSE
  CommandForms <- P2P
  AnswerKinds = {"object"}
  Timeout = 2
  Ttl = 3
  PublishTimeout = 2
  MaxSize = 1
  MaxAnswers = 1
  MaxInbox = 1
SPECIFICATION Spec
INVARIANTS NoEntryLeftBehind
PROPERTIES EveryRequestReturns
CHECK_DEADLOCK FALSE
