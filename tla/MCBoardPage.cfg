CONSTANTS
  Columns = {c1, c2}
  Cards = {k1, k2, k3}
  Root = Root
  STEP = 4
  New = New
  Gone = Gone
  None = None
  Asked = Asked
  MaxActs = 2
  MaxSent = 2
  MaxFaults = 1
SPECIFICATION Spec
SYMMETRY Symmetry
INVARIANT TypeOK Reconciled
PROPERTY DropsWhereShown
