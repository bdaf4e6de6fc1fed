SPECIFICATION Spec
CONSTANTS
    None = None
    p1 = p1  p2 = p2
    w1 = w1  w2 = w2

    Payouts = {p1, p2}
    Entitlement <- TwoEntitlement
    Share <- TwoShare
    RecoveryMaxBps = 5000
    Workers = {w1}
    Handlers = {}
    MaxGenerations = 1
    MaxFaults = 1
INVARIANTS
    TypeOK
    ShareBorneOnce
    RecoveriesBalance
