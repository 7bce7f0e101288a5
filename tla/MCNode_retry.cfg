\* A restart request after one whose start of the broker failed.
CONSTANTS
  r1 = r1
  Requests = {r1}
  Main = Main
  MaxAsks = 2
SPECIFICATION Spec
INVARIANTS FailedStartIsRetried
CHECK_DEADLOCK FALSE
