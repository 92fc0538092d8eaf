CONSTANTS
    Requests = {r1, r2, r3}
    Keys = {k1}
    NoRequest = NoRequest
SPECIFICATION FairSpec
INVARIANTS
    IInv
    OneLeaderPerKey
PROPERTIES
    EveryRequestAnswered
    FollowersReleased
