\* Three restart requests at a time.
CONSTANTS
  r1 = r1
  r2 = r2
  r3 = r3
  Requests = {r1, r2, r3}
  Main = Main
  MaxAsks = 3
SPECIFICATION Spec
INVARIANTS BrokerCalledRightly RestartRestores LoneRestartCompletes
PROPERTIES RestartEnds ShutdownEnds
CHECK_DEADLOCK FALSE
