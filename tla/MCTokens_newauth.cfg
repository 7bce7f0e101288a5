\* A token expires before the maintenance loop removes it.
SPECIFICATION Safety
CONSTANTS
  Users = {u1, u2}
  Devices = {d1}
  u1 = u1
  u2 = u2
  d1 = d1
  Validity = 1
  Before = 0
  After = 0
  Switch = 0
  MaxTime = 4
  MaxSerial = 4
PROPERTIES NewAuthWorks
CHECK_DEADLOCK FALSE
