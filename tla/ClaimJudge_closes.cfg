CONSTANTS
    alice = alice
    bob = bob
    s1 = s1
    s2 = s2
    r1 = r1
    r2 = r2
    c1 = c1
    c2 = c2
    Parties = {alice, bob}
    Judge = Judge
    Nobody = Nobody
    Slugs = {s1}
    Requests = {r1}
    Clauses = {c1}
    SlugOf <- OneSlug
    PaidAmount <- Ones
    BondAmount = 1
    BountyAmount = 1
    FilingWindow = 1
    Cooldown = 2
    AdjudicationWindow = 1
    ClockBucket = 1
    MintLimit = 1
    Supply = 2
    Amounts = {1}
    Transferred = {1}
    Accounts = {alice, bob, Judge}
    Custodians = {bob, Judge}
    LastCall = 3
    LastRequest = 1
    MaxTime = 6
SPECIFICATION FairSpec
PROPERTIES
    ImplementsPots
    EveryClaimCloses
CHECK_DEADLOCK FALSE
