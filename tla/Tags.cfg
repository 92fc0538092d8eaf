SPECIFICATION Spec
CONSTANTS
  Edits = {u1}
  Merges = {m1, m2}
  Images = {i1, i2}
  Entries = {e1, e2}
  Rows <- MCRows
  Inputs <- MCInputs
  None = None
  Conns = 2
SYMMETRY Symmetry
INVARIANTS IInv OnlyMergesHang
PROPERTIES AnswerWasMeant MergeKeepsTags
