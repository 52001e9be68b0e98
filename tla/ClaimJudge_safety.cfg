CONSTANTS
    alice = alice
    bob = bob
    s1 = s1
    s2 = s2
    r1 = r1
    r2 = r2
    c1 = c1
    c2 = c2
    Parties = {alice, bob}
    Judge = Judge
    Nobody = Nobody
    Slugs = {s1, s2}
    Requests = {r1}
    Clauses = {c1}
    SlugOf <- OneSlug
    PaidAmount <- Ones
    BondAmount = 1
    BountyAmount = 1
    FilingWindow = 2
    Cooldown = 4
    AdjudicationWindow = 2
    ClockBucket = 2
    MintLimit = 2
    Supply = 3
    Amounts = {1, 2}
    Transferred = {}
    Accounts = {alice, bob, Judge}
    Custodians = {Judge}
    LastCall = 4
    LastRequest = 3
    MaxTime = 7
SPECIFICATION Spec
SYMMETRY Parties2
INVARIANTS
    TypeOK
    BooksAgree
    EscrowCoversBooks
PROPERTIES
    DisputeKeepsItsDeposit
    DepositOutlastsFiling
    JudgmentIsFinal
CHECK_DEADLOCK FALSE
