\* Three logs of two bots; certificates are made twice.
CONSTANTS
  l1 = l1
  l2 = l2
  l3 = l3
  Logs = {l1, l2, l3}
  b1 = b1
  b2 = b2
  Bots = {b1, b2}
  Of <- OwnersOf
  Domains <- RawDomains
  Copied <- ScriptDomains
  MaxGens = 2
SPECIFICATION Spec
INVARIANTS ChainHolds LogsRecoverable Migrated HostsAreNamed
CHECK_DEADLOCK FALSE
