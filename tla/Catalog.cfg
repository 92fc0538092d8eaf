SPECIFICATION Spec
CONSTANTS
  Requests = {r1, r2}
  Ids = {1, 2, 3, 4}
  Numeric = {1, 2, 3}
  Top = 2
  Normal <- MCNormal
  Exts = {1, 2}
  Sftp = FALSE
  MaxFaults = 1
  Old = old
  None = none
SYMMETRY Symmetry
CHECK_DEADLOCK FALSE
INVARIANTS RowHasFile NothingLeftBehind AutoServesItself
PROPERTIES AutoIdReplacesNothing StoresImages
