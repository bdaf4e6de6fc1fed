SPECIFICATION FairSpec
CONSTANTS
    None = None
    k1 = k1  k2 = k2
    Bookings = {k1, k2}
    Starts = {1, 2, 3, 4, 5, 6}
    Length = 2
    Windows <- OneToFour
    Jump = 3
    Shift <- Back
    Notice = 1
    Appointments = {}
    Horizon = 1
    Patience = 1
    MaxAsks = 1
    Jobs = {1, 2}
    MaxTries = 2
    Workers = {w1}
    MaxErrors = 1
    MaxBreaks = 1
CONSTRAINT
    Apart
INVARIANTS
    BookedTimesApart
    ShownCanBeHeld
    EventMatchesBooking
PROPERTIES
    KeepsTimes
    SellersLinkStays
    JobsEnd
CHECK_DEADLOCK FALSE
