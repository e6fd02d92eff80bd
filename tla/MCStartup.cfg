CONSTANTS
  Servers = {s1, s2}
  Catalogue = {p1, p2}
  Basic = {p1}
  Custom = {q1}
  None = None
  MaxCrashes = 2
  MaxEdits = 3
SPECIFICATION Spec
INVARIANTS TypeOK FullAccess
PROPERTY ComesUp
CHECK_DEADLOCK FALSE
