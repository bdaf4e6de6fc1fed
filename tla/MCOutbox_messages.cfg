SPECIFICATION FairSpec
CONSTANTS
    None = None
    Workers = {w1, w2}
    Pushers = {p1, p2}
    Kinds = {"confirmed", "reminder", "cancelled"}
    Starts = {2, 3}
    Horizon = 2
    Lead = 1
    Batch = 1
    MaxTries = 2
    MaxAuto = 1
    MaxPushTries = 1
    MaxMoves = 1
    MaxFaults = 1
CONSTRAINT
    Apart
INVARIANTS
    TypeOK
    ReminderNamesItsTime
    PushedOnce
PROPERTIES
    IsJobQueue
    MailEnds
CHECK_DEADLOCK FALSE
