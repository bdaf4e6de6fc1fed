SPECIFICATION Spec
CONSTANTS
    None = None
    k1 = k1
    k2 = k2
    Bookings = {k1}
    Price = 3
    Deduction = 1
    Fee = 1
    Part = 1
    Workers = {w1}
    MaxRefunds = 2
    MaxTries = 1
    MaxAuto = 1
    MaxFaults = 1
    MaxAsks = 2
INVARIANTS
    TypeOK
    KoraPaysOnce
    ShareBorne
CHECK_DEADLOCK FALSE
