SPECIFICATION Spec
CONSTANTS
    None = None
    q1 = q1  q2 = q2  q3 = q3
    b1 = b1  b2 = b2
    o1 = o1
    a1 = a1  a2 = a2  a3 = a3

    Quotes = {q1, q2}
    Slots <- ContentionSlots
    Buyers = {b1, b2}
    Offers = {}
    BuyerOf <- ContentionBuyer
    SlotOf <- ContentionSlot
    OfferOf <- ContentionOffer
    Attempts = {a1, a2}
    QuoteOf <- ContentionQuote
    MethodOf <- ContentionMethod
    Workers = {w1}
    Browsers = {c1}
    RefundsOn = {TRUE}
    MaxHolds = 1
    MaxTries = 2
    MaxRequeues = 1
    MaxFaults = 0
INVARIANTS
    BookedTimeReserved
    PaidChargeAccounted
PROPERTY
    DecisionStands
