SPECIFICATION Spec
CONSTANTS
    None = None
    Unknown = Unknown
    MaxAttempts = 2
    MinActive = 2
    Buffer = 1
    MaxPerCycle = 0
    IdleMin = 1
    ClaimInterval = 1
    BeatInterval = 2
    MaxRewards = 1
    MaxTime = 2
    MaxPending = 4
    MaxKinds = 2
    InactiveLimit = 2
    ErrorLimit = 2
    Threshold = 2
    MinStreak = 2
    StreakCap = 4
    HaltTTL = 2
    Profiles <- MCProfiles
INVARIANTS TypeOK OneStakeInFlight AutoStakeOnce BypassNeedsStreak BypassIsBounded
    TradeNeedsPrice FailureHaltsTrade HaltedRecoveryIsUnanimous
PROPERTIES LiveIsEarned ClaimsSpaced HealthyGoesLive RecommendationIsHeard
