SPECIFICATION LateSpec
CONSTANTS
    None = None
    k1 = k1
    k2 = k2
    Bookings = {k1, k2}
    Price = 3
    Deduction = 1
    Fee = 1
    Part = 1
    Workers = {w1}
    MaxRefunds = 2
    MaxTries = 2
    MaxAuto = 1
    MaxFaults = 1
    MaxAsks = 0
CONSTRAINT
    Whole
PROPERTIES
    ReportSettled
    ProblemAnswered
    RefundEnds
CHECK_DEADLOCK FALSE
