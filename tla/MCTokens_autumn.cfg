\* Clocks go back by two units after a login whose token is valid for one.
SPECIFICATION Safety
CONSTANTS
  Users = {u1}
  Devices = {d1}
  u1 = u1
  d1 = d1
  Validity = 1
  Before = 2
  After = 0
  Switch = 2
  MaxTime = 5
  MaxSerial = 3
INVARIANTS Lifetime
CHECK_DEADLOCK FALSE
