SPECIFICATION FairSpec
CONSTANTS
    Nobody = Nobody
    Noone = Noone
    s = s  a1 = a1  a2 = a2
    ps = ps  pb = pb
    r1 = r1  r2 = r2
    Accounts = {s, a1, a2}
    Buyers = {a1, a2}
    Seller = s
    SellerAddress = ps
    Addresses = {ps, pb}
    OfferIds = {o1}
    Requests = {r1, r2}
    Purposes = {"login", "guest_offer"}
    Senders = {w1, w2}
    MaxTries = 2
    MaxCodes = 1
    MaxGuesses = 1
    MaxFaults = 1
    MaxAsks = 5
CONSTRAINT
    Apart
INVARIANTS
    TypeOK
    AgreedAsShown
    OverIsOver
    OneEmailEach
    DeletedIsErased
PROPERTIES
    AnnouncementEnds
CHECK_DEADLOCK FALSE
