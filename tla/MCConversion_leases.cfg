SPECIFICATION Spec
CONSTANTS
    None = None
    q1 = q1  q2 = q2  q3 = q3
    b1 = b1  b2 = b2
    o1 = o1
    a1 = a1  a2 = a2  a3 = a3

    Quotes = {q1}
    Slots <- LeaseSlots
    Buyers = {b1}
    Offers = {}
    BuyerOf <- LeaseBuyer
    SlotOf <- LeaseSlot
    OfferOf <- LeaseOffer
    Attempts = {a1, a2}
    QuoteOf <- LeaseQuote
    MethodOf <- ContentionMethod
    Workers = {w1, w2}
    Browsers = {}
    RefundsOn = {TRUE}
    MaxHolds = 1
    MaxTries = 2
    MaxRequeues = 1
    MaxFaults = 1
INVARIANTS
    BookingPaidOnce
    ProcessedIsDecided
