CONSTANTS
  Users = {u1, u2}
  Boards = {b1, b2}
  Columns = {c1, c2}
  Cards = {k1}
  Positions = {1}
  STEP = 1
  Requests = {r1, r2}
  MaxPerUser = 2
  None = None
SPECIFICATION HistorySpec
INVARIANT TypeOK GoneForGood
PROPERTY OwnerPrivate
SYMMETRY Symmetry
