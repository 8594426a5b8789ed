SPECIFICATION UseSpec
CONSTANTS
    CacheKeys = {k1, k2, k3}
    Results = {old, new}
    Limit = 2
    TTLs <- ShortAndLong
    Lag = 1
    LastInstant = 3
SYMMETRY Symmetry
INVARIANTS RemembersRecent
