CONSTANTS
  Columns = {c1, c2}
  Cards = {k1, k2}
  Root = Root
  STEP = 8
  New = New
  Gone = Gone
  None = None
  Asked = Asked
  MaxActs = 3
  MaxSent = 2
  MaxFaults = 1
SPECIFICATION Spec
SYMMETRY Symmetry
PROPERTY RollbackOnError
