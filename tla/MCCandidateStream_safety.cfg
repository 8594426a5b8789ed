SPECIFICATION Spec
CONSTANTS
    Requests = {r1, r2}
    Quiet = {r2}
    Sources = {1, 3}
    BrowserSources <- OneBrowserSource
    Kind <- WebWithBT
    Tier <- ReversedTier
    Preferences <- SomeTransports
    CandidateIds <- OneId
    Slots = 1
    MaxEmits = 2
CONSTRAINTS QuietCompete FewCandidates
INVARIANTS SlotAccounting IdsUnique SilentAfterError
PROPERTIES ImplementsContract
CHECK_DEADLOCK FALSE
