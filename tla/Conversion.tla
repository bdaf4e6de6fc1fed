------------------------------ MODULE Conversion ------------------------------
(***************************************************************************)
(* How a held time becomes a paid booking, for one seller.                 *)
(*                                                                         *)
(* A buyer takes a quote, which holds a time; starts one or more payment   *)
(* attempts for it; pays at Kora.  The event worker and the buyer's own    *)
(* return page both ask Kora about the charge and apply the answer, which  *)
(* books the time or records a payment exception and returns the money.    *)
(*                                                                         *)
(* Clocks are abstracted: a hold is live or has lapsed, an agreement is    *)
(* open or has lapsed, a time is bookable or not, and each may change at   *)
(* any step.  A transaction that serialises on the rows it locks is one    *)
(* action; what the code reads before it takes the lock is another.        *)
(***************************************************************************)
EXTENDS Integers, Sequences, FiniteSets

CONSTANTS
    Quotes,      \* rows a buyer may ask for: quotes and their slot_reservations
    Slots,       \* times of the seller; a time is the set of ticks it occupies
    Buyers,
    Offers,
    None,        \* no offer: a quote at the listed price; no job: an idle verifier
    BuyerOf, SlotOf, OfferOf,     \* what each quote asks for
    Attempts,    \* payment_attempts, one merchant_reference each
    QuoteOf, MethodOf,            \* the quote an attempt pays for, and how
    Workers,     \* event workers, one per API instance
    Browsers,    \* buyers' return pages polling for the result
    RefundsOn,   \* REFUNDS_ENABLED of the instances: {TRUE}, or both during a change
    MaxHolds,    \* maxActiveHoldsPerBuyer
    MaxTries,    \* processing_attempts before an event is failed (8)
    MaxRequeues, \* autoRetryLadder: times a failed row is put back (3)
    MaxFaults    \* bound: crashes, provider errors and refused refunds in a behaviour

ASSUME ConstantTypes ==
    /\ BuyerOf \in [Quotes -> Buyers]
    /\ SlotOf \in [Quotes -> Slots]
    /\ OfferOf \in [Quotes -> Offers \cup {None}]
    /\ None \notin Offers \cup Attempts
    /\ QuoteOf \in [Attempts -> Quotes]
    /\ MethodOf \in [Attempts -> {"hosted", "transfer"}]
    /\ Workers \cap Browsers = {}
    /\ RefundsOn \subseteq BOOLEAN
    /\ MaxHolds \in Nat \ {0} /\ MaxTries \in Nat \ {0}
    /\ MaxRequeues \in Nat /\ MaxFaults \in Nat

ASSUME SlotsAreTimes == \A s \in Slots : s # {}

VARIABLES
    quoteState,     \* quotes.state, "none" before the row exists
    holdActive,     \* slot_reservations.active
    holdKind,       \* slot_reservations.reservation_kind
    holdLive,       \* expires_at > now(), for the quote and its hold alike
    bookingState,   \* bookings.state of the quote's booking, "none" without one
    offerState,     \* offers.state from the agreement on
    attemptState,   \* payment_attempts.canonical_state; "none" before the row exists,
                    \* "starting" once the hold has been extended for it
    attemptBooking, \* payment_attempts.booking_id IS NOT NULL
    refunds,        \* the rows of refunds of <<attempt, exception kind>>, oldest first
    eventState,     \* the provider_events row of the attempt's charge
    eventTries,     \* its processing_attempts
    requeues,       \* its auto_retries
    charge,         \* the charge at Kora
    paused,         \* seller_profiles.paused
    bookable,       \* times inside the seller's hours, free in the calendar, still ahead
    pc, job, seen,  \* a verifier: where it is, its attempt, what Kora told it
    faults          \* faults so far

holds    == <<quoteState, holdActive, holdKind, holdLive>>
payments == <<attemptState, attemptBooking, refunds>>
events   == <<eventState, eventTries, requeues>>
seller   == <<paused, bookable>>
verifier == <<pc, job, seen>>
vars == <<holds, bookingState, offerState, payments, events, charge, seller,
          verifier, faults>>

Verifiers == Workers \cup Browsers
\* The kinds of exception that return money; a wrong currency is one of the last.
Kinds == {"payment_without_slot", "duplicate_charge", "offer_conflict", "wrong_amount"}

\* A charge that took money was paid as asked, or with a wrong amount or currency,
\* or Kora's answer does not fit: another reference, no amount, a negative fee.
Charged == {"paid", "paid_wrong", "unmatched"}
ChargeStates == {"none", "open", "failed"} \cup Charged

\* A row of refunds: kora is provider_refund_id IS NOT NULL, retries is auto_retries.
RefundRows == [state : {"pending_approval", "queued", "submitted", "processed", "failed"},
               kora : BOOLEAN, retries : Nat]

RefundsTyped == refunds \in [Attempts \X Kinds -> Seq(RefundRows)]

TypeOK ==
    /\ quoteState \in [Quotes -> {"none", "held", "expired", "converted"}]
    /\ holdActive \in [Quotes -> BOOLEAN]
    /\ holdKind \in [Quotes -> {"hold", "booking"}]
    /\ holdLive \in [Quotes -> BOOLEAN]
    /\ bookingState \in [Quotes -> {"none", "confirmed", "cancelled"}]
    /\ offerState \in [Offers -> {"agreed", "expired", "converted"}]
    /\ attemptState \in [Attempts -> {"none", "starting", "initialization_started",
            "initialization_unknown", "awaiting_payment", "pending", "failed",
            "success", "exception"}]
    /\ attemptBooking \in [Attempts -> BOOLEAN]
    /\ RefundsTyped
    /\ eventState \in [Attempts -> {"none", "queued", "processing", "retry",
                                    "processed", "failed"}]
    /\ eventTries \in [Attempts -> Nat]
    /\ requeues \in [Attempts -> Nat]
    /\ charge \in [Attempts -> ChargeStates]
    /\ paused \in BOOLEAN
    /\ bookable \subseteq Slots
    /\ pc \in [Verifiers -> {"idle", "claimed", "verified", "locked", "applied"}]
    /\ job \in [Verifiers -> Attempts \cup {None}]
    /\ seen \in [Verifiers -> ChargeStates]
    /\ faults \in Nat

Init ==
    /\ quoteState = [q \in Quotes |-> "none"]
    /\ holdActive = [q \in Quotes |-> FALSE]
    /\ holdKind = [q \in Quotes |-> "hold"]
    /\ holdLive = [q \in Quotes |-> FALSE]
    /\ bookingState = [q \in Quotes |-> "none"]
    /\ offerState = [o \in Offers |-> "agreed"]
    /\ attemptState = [a \in Attempts |-> "none"]
    /\ attemptBooking = [a \in Attempts |-> FALSE]
    /\ refunds = [x \in Attempts \X Kinds |-> <<>>]
    /\ eventState = [a \in Attempts |-> "none"]
    /\ eventTries = [a \in Attempts |-> 0]
    /\ requeues = [a \in Attempts |-> 0]
    /\ charge = [a \in Attempts |-> "none"]
    /\ paused = FALSE
    /\ bookable = Slots
    /\ pc = [v \in Verifiers |-> "idle"]
    /\ job = [v \in Verifiers |-> None]
    /\ seen = [v \in Verifiers |-> "none"]
    /\ faults = 0

Fault == faults < MaxFaults /\ faults' = faults + 1

(***************************************************************************)
(* Holding a time.                                                         *)
(***************************************************************************)

Overlap(q, r) == SlotOf[q] \cap SlotOf[r] # {}

AttemptsOf(q) == {a \in Attempts : QuoteOf[a] = q}
HasAttempt(q) == \E a \in AttemptsOf(q) : attemptState[a] \notin {"none", "starting"}
IsHold(q) == holdActive[q] /\ holdKind[q] = "hold"
HoldValid(q) == quoteState[q] = "held" /\ IsHold(q) /\ holdLive[q]

\* The exclusion constraint: q may be active beside everything outside gone.
TimeFree(q, gone) ==
    \A r \in Quotes \ (gone \cup {q}) : holdActive[r] => ~Overlap(q, r)

\* Mutants, here and below: a definition as a plausible mistake would have it.
StaleOfAnyKind(q) == {r \in Quotes : holdActive[r] /\ ~holdLive[r] /\ Overlap(q, r)}

\* Lapsed holds in the way of q, deactivated by releaseExpiredHolds.
StaleInTheWay(q) == {r \in Quotes : IsHold(r) /\ ~holdLive[r] /\ Overlap(q, r)}

ReplacedPaidOrNot(q) == {r \in Quotes : /\ BuyerOf[r] = BuyerOf[q]
                                        /\ quoteState[r] = "held" /\ IsHold(r)}

\* Choosing a new time replaces the buyer's earlier holds that nobody is paying for.
Replaced(q) == {r \in Quotes : /\ BuyerOf[r] = BuyerOf[q] /\ quoteState[r] = "held"
                               /\ IsHold(r) /\ ~HasAttempt(r)}

UnderHoldLimit(q) ==
    Cardinality({r \in Quotes \ Replaced(q) : BuyerOf[r] = BuyerOf[q] /\ HoldValid(r)})
        < MaxHolds

PlaceHold(q, lapsed, freed) ==
    /\ TimeFree(q, freed)
    /\ quoteState' = [r \in Quotes |->
            IF r = q THEN "held"
            ELSE IF r \in lapsed \cup {f \in freed : quoteState[f] = "held"} THEN "expired"
            ELSE quoteState[r]]
    /\ holdActive' = [r \in Quotes |-> r = q \/ (holdActive[r] /\ r \notin freed)]
    /\ holdLive' = [holdLive EXCEPT ![q] = TRUE]
    /\ UNCHANGED <<holdKind, bookingState, offerState, payments, events, charge,
                   seller, verifier, faults>>

\* A quote at the listed price.
CreateQuote(q) ==
    /\ quoteState[q] = "none" /\ OfferOf[q] = None
    /\ ~paused /\ SlotOf[q] \in bookable
    /\ UnderHoldLimit(q)
    /\ PlaceHold(q, {r \in Quotes : quoteState[r] = "held" /\ ~holdLive[r]},
                 Replaced(q) \cup StaleInTheWay(q))

\* A quote at an agreed price: one valid hold per offer, and the offer's own
\* dead holds go first.
CreateOfferQuote(q) ==
    LET o == OfferOf[q]
        mine == {r \in Quotes : OfferOf[r] = o}
        lapsed == {r \in mine : quoteState[r] = "held" /\ ~holdLive[r]}
        dead == {r \in mine : IsHold(r) /\ (quoteState[r] = "expired" \/ r \in lapsed)}
    IN  /\ quoteState[q] = "none" /\ o \in Offers
        /\ offerState[o] = "agreed"
        /\ ~paused /\ SlotOf[q] \in bookable
        /\ \A r \in mine : ~HoldValid(r)
        /\ UnderHoldLimit(q)
        /\ PlaceHold(q, lapsed, dead \cup Replaced(q) \cup StaleInTheWay(q))

\* The expiry of a hold in force passes; nothing in the database changes.
HoldLapses(q) ==
    /\ IsHold(q) /\ holdLive[q]
    /\ holdLive' = [holdLive EXCEPT ![q] = FALSE]
    /\ UNCHANGED <<quoteState, holdActive, holdKind, bookingState, offerState,
                   payments, events, charge, seller, verifier, faults>>

\* Reading a lapsed quote expires it and gives up its hold.
GetQuote(q) ==
    /\ quoteState[q] = "held" /\ ~holdLive[q]
    /\ quoteState' = [quoteState EXCEPT ![q] = "expired"]
    /\ holdActive' = [holdActive EXCEPT ![q] = IF holdKind[q] = "hold" THEN FALSE ELSE @]
    /\ UNCHANGED <<holdKind, holdLive, bookingState, offerState, payments, events,
                   charge, seller, verifier, faults>>

\* The agreement's window closes.  A hold taken or extended under it moves the
\* window along, but a reclaimed hold does not: it may close at any time.
OfferLapses(o) ==
    /\ offerState[o] = "agreed"
    /\ offerState' = [offerState EXCEPT ![o] = "expired"]
    /\ UNCHANGED <<holds, bookingState, payments, events, charge, seller, verifier, faults>>

\* The seller pauses or reopens the link.
SetPaused ==
    /\ paused' = ~paused
    /\ UNCHANGED <<holds, bookingState, offerState, payments, events, charge,
                   bookable, verifier, faults>>

\* A time stops being bookable (it is near, or the hours or the calendar
\* changed), or comes back.
SetBookable(s) ==
    /\ bookable' = IF s \in bookable THEN bookable \ {s} ELSE bookable \cup {s}
    /\ UNCHANGED <<holds, bookingState, offerState, payments, events, charge,
                   paused, verifier, faults>>

\* A participant cancels: the booking's time is released.
CancelBooking(q) ==
    /\ bookingState[q] = "confirmed"
    /\ bookingState' = [bookingState EXCEPT ![q] = "cancelled"]
    /\ holdActive' = [holdActive EXCEPT ![q] = FALSE]
    /\ UNCHANGED <<quoteState, holdKind, holdLive, offerState, payments, events,
                   charge, seller, verifier, faults>>

(***************************************************************************)
(* Starting to pay.                                                        *)
(***************************************************************************)

\* A hosted page still waiting for the buyer is reused; a transfer account may
\* be within two minutes of its end at any time, and is then replaced.
Reusable(a) ==
    \E b \in AttemptsOf(QuoteOf[a]) :
        /\ MethodOf[b] = MethodOf[a] /\ MethodOf[b] = "hosted"
        /\ attemptState[b] = "awaiting_payment"

\* The hold is extended in a transaction of its own, which locks it no longer.
ExtendHold(a) ==
    /\ attemptState[a] = "none"
    /\ HoldValid(QuoteOf[a]) /\ ~paused /\ ~Reusable(a)
    /\ attemptState' = [attemptState EXCEPT ![a] = "starting"]
    /\ UNCHANGED <<holds, bookingState, offerState, attemptBooking, refunds, events,
                   charge, seller, verifier, faults>>

\* Then the next reference is saved and claimed, whatever became of the hold.
SaveAttempt(a) ==
    /\ attemptState[a] = "starting"
    /\ attemptState' = [attemptState EXCEPT ![a] = "initialization_started"]
    /\ UNCHANGED <<holds, bookingState, offerState, attemptBooking, refunds, events,
                   charge, seller, verifier, faults>>

\* Kora opened a page or a transfer account and the buyer is shown it.  An
\* account is shown only while the hold can still be extended.
OpenCharge(a) ==
    /\ attemptState[a] = "initialization_started"
    /\ MethodOf[a] = "transfer" => HoldValid(QuoteOf[a])
    /\ attemptState' = [attemptState EXCEPT ![a] = "awaiting_payment"]
    /\ charge' = [charge EXCEPT ![a] = "open"]
    /\ UNCHANGED <<holds, bookingState, offerState, attemptBooking, refunds, events,
                   seller, verifier, faults>>

\* Kora did not answer: the buyer is shown nothing and may start again.
MarkInitializationUnknown(a) ==
    /\ attemptState[a] = "initialization_started" /\ Fault
    /\ attemptState' = [attemptState EXCEPT ![a] = "initialization_unknown"]
    /\ UNCHANGED <<holds, bookingState, offerState, attemptBooking, refunds, events,
                   charge, seller, verifier>>

(***************************************************************************)
(* Kora: the buyer pays, in full or not, or gives up.                      *)
(***************************************************************************)

KoraCharge(a, outcome) ==
    /\ charge[a] = "open"
    /\ charge' = [charge EXCEPT ![a] = outcome]
    /\ UNCHANGED <<holds, bookingState, offerState, payments, events, seller,
                   verifier, faults>>

\* The signed webhook of a finished charge; the same notice twice is one row.
KoraWebhook(a) ==
    /\ charge[a] \in Charged \cup {"failed"} /\ eventState[a] = "none"
    /\ eventState' = [eventState EXCEPT ![a] = "queued"]
    /\ UNCHANGED <<holds, bookingState, offerState, payments, eventTries, requeues,
                   charge, seller, verifier, faults>>

(***************************************************************************)
(* Verifying a charge.  A worker claims an event, or a browser asks; Kora  *)
(* is asked about the charge; the answer is applied in one transaction,    *)
(* which locks the attempt, looks for a booking, and locks the quote.      *)
(***************************************************************************)

ClaimableOnce(a) == eventState[a] \in {"queued", "retry"}

\* An event that is due, or whose claim is older than the two-minute lease.
Claimable(a) == eventState[a] \in {"queued", "retry", "processing"}

ClaimEvent(w, a) ==
    /\ pc[w] = "idle" /\ Claimable(a)
    /\ eventState' = [eventState EXCEPT ![a] = "processing"]
    /\ eventTries' = [eventTries EXCEPT ![a] = @ + 1]
    /\ pc' = [pc EXCEPT ![w] = "claimed"]
    /\ job' = [job EXCEPT ![w] = a]
    /\ UNCHANGED <<holds, bookingState, offerState, payments, requeues, charge,
                   seller, seen, faults>>

QueryCharge(w) ==
    /\ pc[w] = "claimed"
    /\ pc' = [pc EXCEPT ![w] = "verified"]
    /\ seen' = [seen EXCEPT ![w] = charge[job[w]]]
    /\ UNCHANGED <<holds, bookingState, offerState, payments, events, charge,
                   seller, job, faults>>

\* The buyer's return page asks about any attempt of theirs.
Poll(b, a) ==
    /\ pc[b] = "idle" /\ charge[a] # "none"
    /\ pc' = [pc EXCEPT ![b] = "verified"]
    /\ job' = [job EXCEPT ![b] = a]
    /\ seen' = [seen EXCEPT ![b] = charge[a]]
    /\ UNCHANGED <<holds, bookingState, offerState, payments, events, charge,
                   seller, faults>>

Rest(v) ==
    /\ pc' = [pc EXCEPT ![v] = "idle"]
    /\ job' = [job EXCEPT ![v] = None]
    /\ seen' = [seen EXCEPT ![v] = "none"]

\* The transaction commits.  A worker still has the event to mark.
Applied(v) ==
    IF v \in Browsers THEN Rest(v)
    ELSE pc' = [pc EXCEPT ![v] = "applied"] /\ UNCHANGED <<job, seen>>

\* The attempt is in the open transaction of at most one verifier.
AttemptFree(v) == \A u \in Verifiers : pc[u] = "locked" => job[u] # job[v]

\* The unique index: one refund of an exception that has not failed.
Live(x) == \E i \in DOMAIN refunds[x] : refunds[x][i].state # "failed"

\* The exception is recorded once; a refund is created unless one is live: a
\* failed refund does not stand in the way of another.  With automatic refunds
\* off it waits for an operator.
ReturnMoney(a, kind) ==
    /\ attemptState' = [attemptState EXCEPT ![a] = "exception"]
    /\ \E on \in RefundsOn :
           LET row == [state |-> IF on THEN "queued" ELSE "pending_approval",
                       kora |-> FALSE, retries |-> 0]
           IN  refunds' = [refunds EXCEPT ![<<a, kind>>] =
                               IF Live(<<a, kind>>) THEN @ ELSE Append(@, row)]
    /\ UNCHANGED attemptBooking

NotedAlways(a, answer) == IF answer = "open" THEN "pending" ELSE "failed"

\* The state noted for an unpaid charge, unless the attempt was already decided.
Noted(a, answer) ==
    IF attemptState[a] \in {"success", "exception"} THEN attemptState[a]
    ELSE IF answer = "open" THEN "pending" ELSE "failed"

RecordUnpaid(v) ==
    /\ pc[v] = "verified" /\ AttemptFree(v)
    /\ seen[v] \in {"open", "failed"}
    /\ attemptState' = [attemptState EXCEPT ![job[v]] = Noted(job[v], seen[v])]
    /\ Applied(v)
    /\ UNCHANGED <<holds, bookingState, offerState, attemptBooking, refunds,
                   events, charge, seller, faults>>

PaidAnything(v) == seen[v] \in {"paid", "paid_wrong"}

\* The amount, currency and reference are those of the attempt.
PaidInFull(v) == seen[v] = "paid"

\* An answer that does not fit is only recorded, for an operator to look into.
RecordOnly(v) ==
    /\ pc[v] = "verified" /\ AttemptFree(v)
    /\ seen[v] = "unmatched"
    /\ attemptState' = [attemptState EXCEPT ![job[v]] = "exception"]
    /\ Applied(v)
    /\ UNCHANGED <<holds, bookingState, offerState, attemptBooking, refunds,
                   events, charge, seller, faults>>

RejectWrongAmount(v) ==
    /\ pc[v] = "verified" /\ AttemptFree(v)
    /\ seen[v] = "paid_wrong" /\ ~PaidInFull(v)
    /\ ReturnMoney(job[v], "wrong_amount")
    /\ Applied(v)
    /\ UNCHANGED <<holds, bookingState, offerState, events, charge, seller, faults>>

HasBooking(q) == bookingState[q] # "none"

\* Another attempt has already paid for the quote.
RejectDuplicate(v) ==
    /\ pc[v] = "verified" /\ AttemptFree(v)
    /\ PaidInFull(v) /\ HasBooking(QuoteOf[job[v]]) /\ ~attemptBooking[job[v]]
    /\ ReturnMoney(job[v], "duplicate_charge")
    /\ Applied(v)
    /\ UNCHANGED <<holds, bookingState, offerState, events, charge, seller, faults>>

\* This attempt made the booking: an answer that comes again changes nothing.
Reconfirm(v) ==
    /\ pc[v] = "verified" /\ AttemptFree(v)
    /\ PaidInFull(v) /\ HasBooking(QuoteOf[job[v]]) /\ attemptBooking[job[v]]
    /\ attemptState' = [attemptState EXCEPT ![job[v]] = "success"]
    /\ Applied(v)
    /\ UNCHANGED <<holds, bookingState, offerState, attemptBooking, refunds,
                   events, charge, seller, faults>>

\* No booking yet: the verifier goes on to wait for the quote's row.
LockAttempt(v) ==
    /\ pc[v] = "verified" /\ AttemptFree(v)
    /\ PaidInFull(v) /\ ~HasBooking(QuoteOf[job[v]])
    /\ pc' = [pc EXCEPT ![v] = "locked"]
    /\ UNCHANGED <<holds, bookingState, offerState, payments, events, charge,
                   seller, job, seen, faults>>

ReclaimableAnyState(q) == SlotOf[q] \in bookable /\ TimeFree(q, {})

\* A lapsed hold is taken up again if the time is still bookable and no other
\* reservation, lapsed or not, is active on it.
Reclaimable(q) ==
    /\ quoteState[q] \in {"held", "expired"}
    /\ SlotOf[q] \in bookable
    /\ TimeFree(q, {})

HasTime(q) == HoldValid(q) \/ Reclaimable(q)

OfferNotAsked(q) == OfferOf[q] \in Offers \cup {None}

\* An agreement that lapsed after the hold was taken still stands.
OfferOpen(q) == OfferOf[q] \in Offers => offerState[OfferOf[q]] \in {"agreed", "expired"}

\* The hold the payment has, or has reclaimed; it outlives a refusal below.
KeepTime(q) ==
    /\ quoteState' = [quoteState EXCEPT ![q] = "held"]
    /\ holdActive' = [holdActive EXCEPT ![q] = TRUE]
    /\ holdLive' = [holdLive EXCEPT ![q] = TRUE]
    /\ UNCHANGED holdKind

RejectNoTime(v) ==
    /\ pc[v] = "locked" /\ ~HasTime(QuoteOf[job[v]])
    /\ ReturnMoney(job[v], "payment_without_slot")
    /\ Applied(v)
    /\ UNCHANGED <<holds, bookingState, offerState, events, charge, seller, faults>>

RejectPaused(v) ==
    /\ pc[v] = "locked" /\ HasTime(QuoteOf[job[v]]) /\ paused
    /\ KeepTime(QuoteOf[job[v]])
    /\ ReturnMoney(job[v], "payment_without_slot")
    /\ Applied(v)
    /\ UNCHANGED <<bookingState, offerState, events, charge, seller, faults>>

RejectOffer(v) ==
    /\ pc[v] = "locked" /\ HasTime(QuoteOf[job[v]]) /\ ~paused
    /\ ~OfferOpen(QuoteOf[job[v]])
    /\ KeepTime(QuoteOf[job[v]])
    /\ ReturnMoney(job[v], "offer_conflict")
    /\ Applied(v)
    /\ UNCHANGED <<bookingState, offerState, events, charge, seller, faults>>

Book(v) ==
    LET a == job[v]
        q == QuoteOf[a]
    IN  /\ pc[v] = "locked" /\ HasTime(q) /\ ~paused /\ OfferOpen(q)
        /\ bookingState' = [bookingState EXCEPT ![q] = "confirmed"]
        /\ attemptState' = [attemptState EXCEPT ![a] = "success"]
        /\ attemptBooking' = [attemptBooking EXCEPT ![a] = TRUE]
        /\ quoteState' = [quoteState EXCEPT ![q] = "converted"]
        /\ offerState' = [o \in Offers |->
                              IF o = OfferOf[q] THEN "converted" ELSE offerState[o]]
        /\ holdActive' = [holdActive EXCEPT ![q] = TRUE]
        /\ holdKind' = [holdKind EXCEPT ![q] = "booking"]
        /\ holdLive' = [holdLive EXCEPT ![q] = FALSE]
        /\ Applied(v)
        /\ UNCHANGED <<refunds, events, charge, seller, faults>>

FinishEvent(w) ==
    /\ pc[w] = "applied"
    /\ eventState' = [eventState EXCEPT ![job[w]] = "processed"]
    /\ Rest(w)
    /\ UNCHANGED <<holds, bookingState, offerState, payments, eventTries, requeues,
                   charge, seller, faults>>

DeferredOrDropped(a) == IF eventTries[a] < MaxTries THEN "retry" ELSE "processed"

Deferred(a) == IF eventTries[a] < MaxTries THEN "retry" ELSE "failed"

\* Kora does not answer, or the transaction is rolled back.
FailEvent(w) ==
    /\ pc[w] \in {"claimed", "verified", "locked"} /\ Fault
    /\ eventState' = [eventState EXCEPT ![job[w]] = Deferred(job[w])]
    /\ Rest(w)
    /\ UNCHANGED <<holds, bookingState, offerState, payments, eventTries, requeues,
                   charge, seller>>

\* The process stops, or the page is closed; the open transaction is lost.
Crash(v) ==
    /\ pc[v] # "idle" /\ Fault
    /\ Rest(v)
    /\ UNCHANGED <<holds, bookingState, offerState, payments, events, charge, seller>>

\* The lifecycle worker puts a failed event back.
RequeueEvent(a) ==
    /\ eventState[a] = "failed" /\ requeues[a] < MaxRequeues
    /\ eventState' = [eventState EXCEPT ![a] = "queued"]
    /\ eventTries' = [eventTries EXCEPT ![a] = 0]
    /\ requeues' = [requeues EXCEPT ![a] = @ + 1]
    /\ UNCHANGED <<holds, bookingState, offerState, payments, charge, seller,
                   verifier, faults>>

(***************************************************************************)
(* The refunds of payments that became no booking.                         *)
(***************************************************************************)

SetRefund(x, i, row) ==
    /\ refunds' = [refunds EXCEPT ![x][i] = row]
    /\ UNCHANGED <<holds, bookingState, offerState, attemptState, attemptBooking,
                   events, charge, seller, verifier>>

\* The refund worker sends a queued refund, and Kora takes it.
RefundSubmitted(x, i) ==
    /\ refunds[x][i].state = "queued" /\ UNCHANGED faults
    /\ SetRefund(x, i, [refunds[x][i] EXCEPT !.state = "submitted", !.kora = TRUE])

\* Kora has paid, or an operator's record is finalised.
RefundProcessed(x, i) ==
    /\ refunds[x][i].state = "submitted" /\ UNCHANGED faults
    /\ SetRefund(x, i, [refunds[x][i] EXCEPT !.state = "processed"])

\* Kora refuses it, or fails or does not know what was submitted.
RefundFails(x, i) ==
    /\ refunds[x][i].state \in {"queued", "submitted"} /\ Fault
    /\ SetRefund(x, i, [refunds[x][i] EXCEPT !.state = "failed"])

\* A failed refund that Kora never accepted.
Refused(x, i) == refunds[x][i].state = "failed" /\ ~refunds[x][i].kora

Retryable(x, i) == Refused(x, i) /\ refunds[x][i].retries < MaxRequeues

\* The lifecycle worker puts such a refund back, unless the index refuses.
RetryRefund(x, i) ==
    /\ Retryable(x, i) /\ ~Live(x) /\ UNCHANGED faults
    /\ SetRefund(x, i, [refunds[x][i] EXCEPT !.state = "queued", !.retries = @ + 1])

\* The worker updates every failed refund that is due in one statement, and the
\* failed events in the next.  Two rows of one exception violate the index: the
\* statement is undone and the next is not reached, this time and every time.
RetryBlocked ==
    \E x \in Attempts \X Kinds : \E i \in DOMAIN refunds[x] :
        /\ Retryable(x, i)
        /\ \E j \in DOMAIN refunds[x] \ {i} :
               refunds[x][j].state # "failed" \/ Retryable(x, j)

ApproveRefund(x, i) ==
    /\ refunds[x][i].state = "pending_approval" /\ TRUE \in RefundsOn
    /\ UNCHANGED faults
    /\ SetRefund(x, i, [refunds[x][i] EXCEPT !.state = "queued"])

RetryByHand(x, i) ==
    /\ Refused(x, i) /\ ~Live(x) /\ UNCHANGED faults
    /\ SetRefund(x, i, [refunds[x][i] EXCEPT !.state = "queued"])

\* An operator paid elsewhere and says so; the record is finalised after that.
RecordByHand(x, i) ==
    /\ \/ refunds[x][i].state = "pending_approval"
       \/ refunds[x][i].state = "failed" /\ ~Live(x)
    /\ UNCHANGED faults
    /\ SetRefund(x, i, [refunds[x][i] EXCEPT !.state = "submitted"])

RefundWorker(x, i) ==
    RefundSubmitted(x, i) \/ RefundProcessed(x, i) \/ RefundFails(x, i) \/ RetryRefund(x, i)

Operator(x, i) == ApproveRefund(x, i) \/ RetryByHand(x, i) \/ RecordByHand(x, i)

Decide(v) ==
    \/ RecordUnpaid(v) \/ RecordOnly(v) \/ RejectWrongAmount(v)
    \/ RejectDuplicate(v) \/ Reconfirm(v) \/ LockAttempt(v)

Convert(v) == RejectNoTime(v) \/ RejectPaused(v) \/ RejectOffer(v) \/ Book(v)

Next ==
    \/ \E q \in Quotes :
           \/ CreateQuote(q) \/ CreateOfferQuote(q) \/ HoldLapses(q) \/ GetQuote(q)
           \/ CancelBooking(q)
    \/ \E o \in Offers : OfferLapses(o)
    \/ SetPaused
    \/ \E s \in Slots : SetBookable(s)
    \/ \E a \in Attempts :
           \/ ExtendHold(a) \/ SaveAttempt(a)
           \/ OpenCharge(a) \/ MarkInitializationUnknown(a)
           \/ \E outcome \in Charged \cup {"failed"} : KoraCharge(a, outcome)
           \/ KoraWebhook(a) \/ RequeueEvent(a)
           \/ \E w \in Workers : ClaimEvent(w, a)
           \/ \E b \in Browsers : Poll(b, a)
    \/ \E w \in Workers : QueryCharge(w) \/ FinishEvent(w) \/ FailEvent(w)
    \/ \E v \in Verifiers : Decide(v) \/ Convert(v) \/ Crash(v)
    \/ \E x \in Attempts \X Kinds : \E i \in DOMAIN refunds[x] :
           RefundWorker(x, i) \/ Operator(x, i)

Spec == Init /\ [][Next]_vars

\* Every loop is a ticker that never stops, Kora repeats a webhook until it is
\* acknowledged, and a row lock is granted in the order it was asked for: the
\* wait for an attempt that others keep locking ends (SF).
Fairness ==
    /\ \A a \in Attempts :
           WF_vars(KoraWebhook(a)) /\ WF_vars(~RetryBlocked /\ RequeueEvent(a))
    /\ \A w \in Workers :
           /\ WF_vars(\E a \in Attempts : ClaimEvent(w, a))
           /\ WF_vars(QueryCharge(w)) /\ SF_vars(Decide(w)) /\ WF_vars(FinishEvent(w))
    /\ \A v \in Verifiers : WF_vars(Convert(v))
    /\ \A x \in Attempts \X Kinds :
           /\ WF_vars(\E i \in DOMAIN refunds[x] :
                          RefundSubmitted(x, i) \/ RefundProcessed(x, i))
           /\ WF_vars(~RetryBlocked /\ \E i \in DOMAIN refunds[x] : RetryRefund(x, i))

FairSpec == Spec /\ Fairness

(***************************************************************************)
(* Properties.                                                             *)
(***************************************************************************)

Standing(q) ==
    IF bookingState[q] = "confirmed" THEN "booked"
    ELSE IF bookingState[q] = "cancelled" THEN "over"
    ELSE IF holdActive[q] THEN "held" ELSE "free"

TimeOf(q) == IF quoteState[q] = "none" THEN None ELSE SlotOf[q]

\* Two times that have a tick in common.
Meeting == {x \in Slots \X Slots : x[1] \cap x[2] # {}}

Times == INSTANCE SellerTimes WITH
    Clients <- Quotes,
    Times <- Slots,
    Nowhere <- None,
    Conflicts <- Meeting,
    standing <- [q \in Quotes |-> Standing(q)],
    time <- [q \in Quotes |-> TimeOf(q)]

\* Through lapsed holds, clean-ups, late payments and refusals, a step does to the
\* seller's times what SellerTimes permits: one client gets a free time, in the
\* place of holds that give way at once, and no other booking is touched.
KeepsTimes == Times!TimesSpec

Settled == {"success", "exception"}
Returned(x) == refunds[x] # <<>>

\* What the code leaves to an operator: an answer that does not fit, a refund to be
\* approved, one that failed for good, an event that failed for good.
WaitsForPerson(a) ==
    \/ attemptState[a] = "exception" /\ charge[a] = "unmatched"
    \/ \E k \in Kinds : \E i \in DOMAIN refunds[<<a, k>>] :
           \/ refunds[<<a, k>>][i].state = "pending_approval"
           \/ refunds[<<a, k>>][i].state = "failed" /\ ~Retryable(<<a, k>>, i)
    \/ eventState[a] = "failed" /\ requeues[a] >= MaxRequeues

\* A confirmed booking keeps its time until it is cancelled, whatever happens to
\* other holds: nobody's clean-up takes it and nobody is booked over it.
BookedTimeReserved ==
    /\ \A q \in Quotes : bookingState[q] = "confirmed" =>
                             holdActive[q] /\ holdKind[q] = "booking"
    /\ \A q, r \in Quotes :
           q # r /\ bookingState[q] = "confirmed" /\ bookingState[r] = "confirmed"
               => ~Overlap(q, r)

\* However many attempts, workers and return pages settle a quote's charges, one
\* attempt makes its one booking, and the quote can be sold to nobody again.
BookingPaidOnce ==
    /\ \A q \in Quotes : HasBooking(q) =>
           /\ quoteState[q] = "converted"
           /\ \E a \in AttemptsOf(q) : attemptBooking[a]
    /\ \A a \in Attempts : attemptBooking[a] => HasBooking(QuoteOf[a])
    /\ \A a, b \in Attempts :
           attemptBooking[a] /\ attemptBooking[b] /\ QuoteOf[a] = QuoteOf[b] => a = b

\* No decision without money, and money is given back only where it was taken: a
\* success has its booking and was paid in full; an exception was charged and has
\* a refund, unless Kora's answer did not fit; what was paid wrongly, and nothing
\* else, is returned as such; one refund of an exception at most is live.
PaidChargeAccounted ==
    /\ \A a \in Attempts :
           /\ attemptState[a] = "success" => attemptBooking[a] /\ charge[a] = "paid"
           /\ attemptState[a] = "exception" =>
                  \/ charge[a] = "unmatched"
                  \/ \E k \in Kinds : Returned(<<a, k>>)
    /\ \A a \in Attempts, k \in Kinds : Returned(<<a, k>>) =>
           charge[a] = IF k = "wrong_amount" THEN "paid_wrong" ELSE "paid"
    /\ \A x \in Attempts \X Kinds : \A i, j \in DOMAIN refunds[x] :
           refunds[x][i].state # "failed" /\ refunds[x][j].state # "failed" => i = j

\* An event is marked processed only after its charge was decided, whichever
\* worker marks it, with whatever lease, after whatever crash.
ProcessedIsDecided ==
    \A a \in Attempts : eventState[a] = "processed" /\ charge[a] \in Charged =>
                            attemptState[a] \in Settled

\* An agreement is sold once, however many quotes were taken under it.
OneBookingPerOffer ==
    \A q, r \in Quotes : HasBooking(q) /\ HasBooking(r) /\ OfferOf[q] \in Offers
                         /\ OfferOf[q] = OfferOf[r] => q = r

\* A late or stale answer of Kora never reopens a decided attempt, and a booking
\* never leaves the attempt that paid for it.
DecisionStands ==
    [][\A a \in Attempts :
           /\ attemptState[a] \in Settled => attemptState'[a] \in Settled
           /\ attemptBooking[a] => attemptBooking'[a]]_vars

\* The buyer has been shown an account to transfer to: the hold was extended a
\* second time when the attempt was there for all to see.
AccountShown(q) ==
    \E a \in AttemptsOf(q) :
        /\ MethodOf[a] = "transfer"
        /\ attemptState[a] \in {"awaiting_payment", "pending", "failed", "success", "exception"}

\* A time that a buyer has been shown an account for is lost only by its own expiry
\* or its own booking, never to another buyer or to the buyer's other choices.
HoldOfPayerKept ==
    [][\A q \in Quotes : HoldValid(q) /\ AccountShown(q) =>
           \/ HoldValid(q)' \/ HasBooking(q)'
           \/ quoteState'[q] = "held" /\ IsHold(q)' /\ ~holdLive'[q]]_vars

\* What initializeQuoteCheckout tells the buyer when Kora does not answer, "Your time
\* is still held; try again.": unless it has lapsed, the time is held.
HeldWhenToldSo ==
    [][\A a \in Attempts :
           attemptState[a] = "initialization_started"
           /\ attemptState'[a] = "initialization_unknown" =>
               HoldValid(QuoteOf[a]) \/ ~holdLive[QuoteOf[a]] \/ HasBooking(QuoteOf[a])]_vars

\* Money that Kora took ends in a booking, back with the buyer or before an operator,
\* through crashes, lost leases, failed events and refused refunds.
PaidIsSettled ==
    \A a \in Attempts :
        charge[a] \in Charged ~>
            \/ attemptBooking[a] \/ WaitsForPerson(a)
            \/ \E k \in Kinds : \E i \in DOMAIN refunds[<<a, k>>] :
                   refunds[<<a, k>>][i].state = "processed"

\* What the code says of autoRetryFailures, "puts failed refunds (never accepted
\* by Kora), payment events and emails back in their queues, up to three times
\* each": a failed event does not stay failed while it has a retry left.
FailedEventRetried ==
    \A a \in Attempts :
        eventState[a] = "failed" /\ requeues[a] < MaxRequeues ~> eventState[a] # "failed"

\* What the code says of applyVerifiedCharge, "It is idempotent": a charge is
\* booked or returned, once.
SettledOnce ==
    \A a \in Attempts :
        Cardinality({k \in Kinds : Returned(<<a, k>>)})
            + (IF attemptBooking[a] THEN 1 ELSE 0) <= 1

\* What the code says of late payments, "only a time someone else has taken is
\* refunded": a refusal for want of a time, by an open seller, of a time still
\* bookable, means that somebody is booked there or holds it in force.
StaleHoldNeverBlocks ==
    [][\A a \in Attempts :
           LET q == QuoteOf[a] IN
           /\ ~Returned(<<a, "payment_without_slot">>)
           /\ Returned(<<a, "payment_without_slot">>)'
           /\ quoteState[q] \in {"held", "expired"} /\ ~paused /\ SlotOf[q] \in bookable
           => \E r \in Quotes \ {q} : /\ Overlap(q, r) /\ holdActive[r]
                                      /\ (holdKind[r] = "booking" \/ holdLive[r])]_vars

=============================================================================
