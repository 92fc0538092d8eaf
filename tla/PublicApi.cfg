SPECIFICATION FairSpec
CONSTANTS
  Ids = {1, 2, 3}
  Ours = {2}
  Own <- MCOwn
  Limit = 1
  Requests <- MCRequests
  MaxSize = 5
  MaxBlur = 3
  DefaultBlur = 2
  MaxInt = 7
  MaxPage = 5
INVARIANTS WalkIsComplete WalkRepeatsNothing RedirectsAreServed
PROPERTY WalkEnds
