CONSTANTS
    c1 = c1
    c2 = c2
    s1 = s1
    p1 = p1
    p2 = p2
    agent = agent
    provider = provider
    Calls = {c1}
    Services = {s1}
    Payments = {p1}
    Accounts = {agent, provider}
    Nobody = Nobody
    ServiceOf <- OneService
    PaymentOf <- OwnPayment
    Payer <- OnePayer
    Paid <- TwoUnits
    Unreliable = {c1}
    Bond = 3
    RefundCap = 2
    Supply = 4
SPECIFICATION FairSpec
INVARIANTS
    AcknowledgedNeverTimesOut
PROPERTIES
    AcceptedResultIsRelayed
    EveryCallIsAnswered
CHECK_DEADLOCK FALSE
