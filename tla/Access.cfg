SPECIFICATION Spec
CONSTANTS
  Browsers = {b1, b2}
  Logins = {l1, l2}
  Callbacks = {c1, c2}
  Keys = {k1}
  Ops = {o1}
  Uploads = {u1}
  Settings <- MCSettings
  Candidates = 2
  MaxEpochs = 2
  None = none
SYMMETRY Symmetry
CHECK_DEADLOCK FALSE
INVARIANTS SessionsAreEarned LastLoginGetsThrough ShownKeysWork
