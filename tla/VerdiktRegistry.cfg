CONSTANTS
    s1 = s1
    s2 = s2
    r1 = r1
    r2 = r2
    alice = alice
    bob = bob
    n1 = n1
    forwarder = forwarder
    verdikt = verdikt
    ServiceIds = {s1, s2}
    RequestIds = {r1, r2}
    Accounts = {alice, bob}
    ZeroAddress = ZeroAddress
    Nonces = {n1}
    Signed <- BothServicesSigned
    Reports <- BothServicesReports
    FORWARDER = forwarder
    WORKFLOW_OWNER = verdikt
    DEPOSIT_AMOUNT = 4
    FIXED_REFUND = 3
    NATIVE_PER_MINOR_UNIT = 2
    MAX_UINT = 15
    SUPPLY = 9
    MaxTime = 2
    NoCall = NoCall
SPECIFICATION Spec
INVARIANTS
    TypeOK
    Solvent
    RefundsAccounted
    NoProfitFromFailure
PROPERTIES
    HistoryHasOneProvider
    ProviderCannotWalkAway
    ImplementsLedger
CHECK_DEADLOCK FALSE
