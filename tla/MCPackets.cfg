\* Lengths in base 4: a packet of 16 bytes has a length of three.
CONSTANTS
  Base = 4
  ClientKinds <- OfClient
  ServerKinds <- OfServer
  MaxSent = 3
SPECIFICATION Spec
CONSTRAINT Apart
INVARIANTS ReadAsSent
CHECK_DEADLOCK FALSE
