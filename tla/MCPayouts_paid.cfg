SPECIFICATION FairSpec
CONSTANTS
    None = None
    p1 = p1  p2 = p2
    w1 = w1  w2 = w2

    Payouts = {p1}
    Entitlement <- OneEntitlement
    Share <- OneShare
    RecoveryMaxBps = 10000
    Workers = {w1}
    Handlers = {h1}
    MaxGenerations = 2
    MaxFaults = 2
INVARIANTS
    NeverSentTwice
    PaidMeansSent
    LedgerMatchesPayout
PROPERTIES
    HeldStays
    ReleasedIsPaid
