CONSTANTS
    Readers = {"leader", "validator"}
    FilingTtl = 1
    AdjudicationTtl = 2
    FilingWindow = 0
    AdjudicationWindow = 2
    MaxAttempts = 2
    MaxQueue = 2
    MaxRuns = 2
    MaxMishaps = 1
    MaxTime = 3
SPECIFICATION FairSpec
INVARIANTS
    ValidatorSeesWhatLeaderSaw
    MeritsNeedTwoReadings
    AttemptsAreRemembered
PROPERTIES
    ImplementsStore
    ClaimsAreWorkedOff
CHECK_DEADLOCK FALSE
