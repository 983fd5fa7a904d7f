SPECIFICATION Spec
CONSTANTS
  k1 = k1
  k2 = k2
  h1 = h1
  Keys = {k1, k2}
  Values = {0, 1}
  Counts = {3}
  Codes = {h1}
  None = None
  MaxNumber = 2
  MaxJournal = 2
  MaxSnapshots = 2
CHECK_DEADLOCK FALSE
SYMMETRY Symmetry
INVARIANTS
  TypeOK
  TreeIsTipState
  HistoryExact
  SnapshotsRestore
