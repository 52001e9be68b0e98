CONSTANTS
    c1 = c1
    c2 = c2
    s1 = s1
    p1 = p1
    p2 = p2
    agent = agent
    provider = provider
    Calls = {c1, c2}
    Services = {s1}
    Payments = {p1, p2}
    Accounts = {agent, provider}
    Nobody = Nobody
    ServiceOf <- OneService
    PaymentOf <- OwnPayment
    Payer <- OnePayer
    Paid <- OneThenTwo
    Unreliable = {}
    Bond = 2
    RefundCap = 2
    Supply = 3
SPECIFICATION Spec
INVARIANTS
    RelayedWasJudged
PROPERTIES
    ShortRefundSuspends
CHECK_DEADLOCK FALSE
