SPECIFICATION FairSpec
CONSTANTS
    Searches = {p1, p2}
    Names <- MCNames
    LowerCase <- MCLowerCase
    TitleLists <- MCTitleLists
    TitleLimit = 2
    Records = {}
    Limit = 1
    Concurrency = 1
    Deadline = 1
    FullTTL = 2
    EmptyTTL = 1
    Caps <- MCCaps
    MaxTime = 2
INVARIANTS SemaphoreAccounting CacheHoldsComplete NoSilentGaps OnTimeAnswersKept NoRepeatedCrawl
PROPERTIES SearchesReturn
CHECK_DEADLOCK FALSE
