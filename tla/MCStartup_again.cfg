CONSTANTS
  Servers = {s1}
  Catalogue = {p1, p2}
  Basic = {p1}
  Custom = {q1}
  None = None
  MaxCrashes = 1
  MaxEdits = 2
SPECIFICATION Spec
INVARIANT ChecksBeforeInserting
CHECK_DEADLOCK FALSE
