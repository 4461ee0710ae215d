SPECIFICATION Spec
CONSTANTS
    None = None
    Rate = 2
    MaxRetries = 2
    Buffer = 1
    MaxPool = 3
    MinInterval = 2
    Hour = 2
    MaxMints = 1
    Whole = 10
    Cap = 6
    Target = 5
    Profiles <- MCProfiles
INVARIANTS TypeOK ExtraMintNeedsDoubt NothingStranded BoughtIsStakedOrOwed
PROPERTIES CampaignStopsAtTarget CleanSettles Relieved
