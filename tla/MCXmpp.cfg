\* Two connections of a bot or a user; a session may replace one ping task.
CONSTANTS
  s1 = s1
  s2 = s2
  Sessions = {s1, s2}
  b1 = b1
  Bots = {b1}
  u1 = u1
  Users = {u1}
  NoName = NoName
  r1 = r1
  Atom = Atom
  Resources = {Atom, r1}
  Within <- Apart
  MaxOrphans = 1
SPECIFICATION Spec
INVARIANTS NoStaleUp BoundIsUp AnswerReaches
PROPERTIES EndedIsForgotten ImplementsPresence
CHECK_DEADLOCK FALSE
