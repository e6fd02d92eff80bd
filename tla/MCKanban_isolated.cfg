CONSTANTS
  Users = {u1, u2}
  Boards = {b1, b2}
  Columns = {c1, c2}
  Cards = {k1, k2}
  Positions = {1}
  STEP = 1
  Requests = {r1, r2}
  MaxPerUser = 1
  None = None
SPECIFICATION Spec
INVARIANT Cascade
PROPERTY ImplementsAtomic DeletedIsFinal OnlyMovesMove AppendsLast
SYMMETRY Symmetry
