SPECIFICATION FairSpec
CONSTANTS
    Calls = {c1, c2}
    Titles = 2
    Fetches = 2
    Records = {x, y}
    MaxMatches = 2
    Concurrency = 1
    Interval = 2
    MaxTime = 2
INVARIANTS TokensHeld RequestsSpaced HonestResult
PROPERTIES CallsProgress
CHECK_DEADLOCK FALSE
