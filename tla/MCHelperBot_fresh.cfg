\* Two concurrent requests with different ids; answers come late and twice,
\* the connection fails, statistics make _on_message raise.  As in the code, a
\* slow publish and the wait together last longer than the cache keeps an entry.
CONSTANTS
  l1 = l1
  Loops = {l1}
  NoLoop = NoLoop
  Stray = Stray
  Operators = {}
  SendersActive = TRUE
  MaxDrops = 1
  r1 = r1
  r2 = r2
  Requests = {r1, r2}
  NoRequest = NoRequest
  i1 = i1
  i2 = i2
  Ids = {i1, i2}
  FreshIds = TRUE
  CommandForms <- P2P
  AnswerKinds = {"object", "value"}
  Timeout = 2
  Ttl = 3
  PublishTimeout = 2
  MaxSize = 2
  MaxAnswers = 2
  MaxInbox = 2
SPECIFICATION Safety
INVARIANTS NoEntryLeftBehind Correlated HeldWhileLive
PROPERTIES ImplementsBridge
CHECK_DEADLOCK FALSE
