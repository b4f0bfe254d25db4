CONSTANTS
  a = a
  b = b
  Values = {a, b}
  Buckets = {1, 2, 3}
  Limits = {0, 2, 3, 4}
  Usages <- Uses
  MaxRows = 8
SPECIFICATION Spec
INVARIANTS RowsSound ReadsAgree
PROPERTIES StoreImplemented
SYMMETRY Symmetry
CHECK_DEADLOCK FALSE
