\* Clocks go forward by two units while a token is valid for two.
SPECIFICATION Safety
CONSTANTS
  Users = {u1}
  Devices = {d1}
  u1 = u1
  d1 = d1
  Validity = 2
  Before = 0
  After = 2
  Switch = 2
  MaxTime = 5
  MaxSerial = 3
PROPERTIES SessionsLast
CHECK_DEADLOCK FALSE
