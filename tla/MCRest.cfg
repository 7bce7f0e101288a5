\* Two bots, two cleanings of one of them of two types, of which the table holds three
\* documents; two classes of one product name.
CONSTANTS
  Dids = {1, 2}
  c1 = c1
  c2 = c2
  Classes = {c1, c2}
  n1 = n1
  Names = {n1}
  Categories = {"DEEBOT", "WINBOT", "UNKNOWN"}
  NoDid = 0
  NoValue = NoValue
  Product <- SharedName
  Robots <- TwoRobots
  Prefix <- NoPrefix
  MaxGhosts = 1
  r1 = r1
  Ids <- TwoCleanings
  t1 = t1
  t2 = t2
  Types = {t1, t2}
  x1 = x1
  x2 = x2
  Contents = {x1, x2}
  MaxLogs = 3
  MaxNamed = 2
  Limits = {1, 2}
SPECIFICATION Spec
SYMMETRY Alike
INVARIANTS ListedOnce GuidedStaysKnown AppSeesLatest PagesShowAll
CHECK_DEADLOCK FALSE
