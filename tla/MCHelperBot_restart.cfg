\* One request during a restart or the shutdown, while the connection fails; an
\* answer is an object or no JSON at all.
CONSTANTS
  l1 = l1
  l2 = l2
  Loops = {l1, l2}
  NoLoop = NoLoop
  Stray = Stray
  o1 = o1
  Operators = {o1}
  SendersActive = TRUE
  MaxDrops = 1
  r1 = r1
  Requests = {r1}
  NoRequest = NoRequest
  i1 = i1
  Ids = {i1}
  FreshIds = TRUE
  CommandForms <- TwoForms
  AnswerKinds = {"object", "malformed"}
  Timeout = 2
  Ttl = 3
  PublishTimeout = 2
  MaxSize = 2
  MaxAnswers = 1
  MaxInbox = 1
SPECIFICATION Spec
INVARIANTS SubscribedHasLoop
PROPERTIES DisconnectReturns EveryRequestReturns ImplementsLink
CHECK_DEADLOCK FALSE
