SPECIFICATION FairSpec
CONSTANTS
    Tags = {"fs1", "fs2"}
    Refs = {1, 2, 3}
    NoRef = 0
    Offered <- MCOffered
    Walkers = {w1}
INVARIANTS RootsExact NoMissingRootmap FurthestExact FollowExact HeadsExact
PROPERTY WalkEnds
