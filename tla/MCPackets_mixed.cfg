\* Two packets are enough for a message between two pieces of another.
CONSTANTS
  Base = 4
  ClientKinds <- OnlyPublished
  ServerKinds <- OnlyPublished
  MaxSent = 2
SPECIFICATION Spec
INVARIANTS EachAsSent
CHECK_DEADLOCK FALSE
