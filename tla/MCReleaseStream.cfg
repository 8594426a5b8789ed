SPECIFICATION FairSpec
CONSTANTS
    Sources = {s1, s2}
    ReleaseIds = {x, y}
    MaxReleases = 2
INVARIANTS ToldInFull
PROPERTIES ImplementsContract StreamEnds
CHECK_DEADLOCK FALSE
