\* The offset of the zone stays: tokens live one unit of three.
SPECIFICATION Spec
CONSTANTS
  Users = {u1, u2}
  Devices = {d1}
  u1 = u1
  u2 = u2
  d1 = d1
  Validity = 1
  Before = 1
  After = 1
  Switch = 1
  MaxTime = 3
  MaxSerial = 4
PROPERTIES CodesKept HandedOutWorks SessionsLast EveryTokenGoes
CHECK_DEADLOCK FALSE
