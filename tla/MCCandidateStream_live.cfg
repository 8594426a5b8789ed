SPECIFICATION LiveSpec
CONSTANTS
    Requests = {r1, r2}
    Quiet = {r2}
    Sources = {1}
    BrowserSources <- OneBrowserSource
    Kind <- WebWithBT
    Tier <- ReversedTier
    Preferences <- AllTransports
    CandidateIds <- OneId
    Slots = 1
    MaxEmits = 3
PROPERTIES StreamsEnd CancelledRequestsUnwind
CHECK_DEADLOCK FALSE
