SPECIFICATION FairSpec
CONSTANTS
    None = None
    q1 = q1  q2 = q2  q3 = q3
    b1 = b1  b2 = b2
    o1 = o1
    a1 = a1  a2 = a2  a3 = a3

    Quotes = {q1}
    Slots <- LeaseSlots
    Buyers = {b1}
    Offers = {}
    BuyerOf <- LeaseBuyer
    SlotOf <- LeaseSlot
    OfferOf <- LeaseOffer
    Attempts = {a1}
    QuoteOf <- SettledQuote
    MethodOf <- SettledMethod
    Workers = {w1}
    Browsers = {c1}
    RefundsOn = {TRUE, FALSE}
    MaxHolds = 1
    MaxTries = 1
    MaxRequeues = 1
    MaxFaults = 1
PROPERTIES
    PaidIsSettled
