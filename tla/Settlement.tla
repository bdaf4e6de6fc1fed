------------------------------ MODULE Settlement ------------------------------
(***************************************************************************)
(* What happens to a paid booking after it was made, and how the buyer     *)
(* gets money back.                                                        *)
(*                                                                         *)
(* A booking is moved, cancelled, held, reported as a problem or as a no-  *)
(* show; each of these may create a refund, of which a booking has one     *)
(* that did not fail.  The lifecycle worker settles what nobody answered   *)
(* and takes refunds to Kora; an operator decides disputes, retries a      *)
(* failed refund or records one made elsewhere.  The seller's payout is    *)
(* held while anything is open, and then fixed less the seller's share.    *)
(*                                                                         *)
(* Clocks are abstracted: a booking moves through phases, a response       *)
(* window passes at any time, and a refund is due whenever it may be.      *)
(***************************************************************************)
EXTENDS Integers, SequencesExt

CONSTANTS
    Bookings,
    None,           \* no booking: an agent at rest
    Price,          \* gross_minor
    Deduction,      \* the platform's part of the price
    Fee,            \* buyer_fee_minor: what the buyer paid on top
    Part,           \* the amount of a part refund
    Workers,        \* lifecycle workers, one per API instance
    MaxRefunds,     \* bound: refunds a booking may have
    MaxTries,       \* refundMaxAttempts
    MaxAuto,        \* len(autoRetryLadder)
    MaxFaults,      \* bound: crashes and answers that do not come
    MaxAsks         \* bound: what participants and operators ask for

ASSUME SettlementConstants ==
    /\ Price \in Nat /\ Deduction \in Nat /\ Fee \in Nat /\ Part \in Nat
    /\ Deduction < Price /\ 0 < Part /\ Part < Price
    /\ None \notin Bookings
    /\ MaxRefunds \in Nat \ {0} /\ MaxTries \in Nat \ {0}
    /\ MaxAuto \in Nat /\ MaxFaults \in Nat /\ MaxAsks \in Nat

VARIABLES
    phase,      \* how far the booking is from its time
    state,      \* bookings.state
    completed,  \* who confirmed that it took place
    payment,    \* payment_state
    problem,    \* the issue_ columns
    report,     \* no_show_reports.state; "due" once resolves_at has passed
    absent,     \* absent_role
    overdue,    \* due reports, in the order of resolves_at
    refunds,    \* the refunds of a booking, in the order they were created
    kora,       \* the refund at Kora, by its reference
    outside,    \* refunds made in Kora's dashboard by an operator
    payout,
    automatic,  \* REFUNDS_ENABLED
    worker,     \* where a worker is, the refund or payout it works on, what it was told
    listed,     \* unanswered problems a worker has read
    operator,   \* a refund recorded as done elsewhere and not yet finalized
    faults, asked

lifecycle == <<phase, state, completed, problem, report, absent, overdue>>
money == <<payment, refunds, kora, outside, payout>>
agents == <<worker, listed, operator>>
bounds == <<faults, asked>>
vars == <<lifecycle, money, automatic, agents, bounds>>

Phases == {"early", "late", "started", "begun", "over", "past"}
Roles == {"buyer", "seller"}
Slots == 1 .. MaxRefunds
NoRefund == [state |-> "none", amount |-> 0, share |-> 0, liability |-> "payable",
             sent |-> FALSE, tries |-> 0, auto |-> 0, counted |-> FALSE]
Resting == [pc |-> "idle", booking |-> None, slot |-> 1, told |-> "none"]

RefundStates == {"none", "pending_approval", "queued", "submitted", "processed", "failed"}
KoraStates == {"none", "processing", "success", "failed"}

TypeOK ==
    /\ phase \in [Bookings -> Phases]
    /\ state \in [Bookings -> {"confirmed", "completed", "cancelled",
                               "no_show_buyer", "no_show_seller"}]
    /\ completed \in [Bookings -> SUBSET Roles]
    /\ payment \in [Bookings -> {"paid", "partially_refunded", "refunded"}]
    /\ problem \in [Bookings -> {"none", "open", "disputed", "seller", "resolved"}]
    /\ report \in [Bookings -> {"none", "open", "due", "disputed", "accepted", "rejected"}]
    /\ absent \in [Bookings -> Roles]
    /\ overdue \in Seq(Bookings)
    /\ refunds \in [Bookings -> [Slots ->
            [state : RefundStates, amount : 0 .. Price + Fee, share : 0 .. Price,
             liability : {"payable", "receivable"}, sent : BOOLEAN,
             tries : 0 .. MaxTries, auto : 0 .. MaxAuto, counted : BOOLEAN]]]
    /\ kora \in [Bookings -> [Slots -> KoraStates]]
    /\ outside \in [Bookings -> SUBSET Slots]
    /\ payout \in [Bookings -> {"scheduled", "released", "cancelled"}]
    /\ automatic \in BOOLEAN
    /\ worker \in [Workers ->
            [pc : {"idle", "claimed", "missing", "answered", "finalizing", "releasing"},
             booking : Bookings \cup {None}, slot : Slots, told : KoraStates]]
    /\ listed \in [Workers -> SUBSET Bookings]
    /\ operator \in [booking : Bookings \cup {None}, slot : Slots]
    /\ faults \in 0 .. MaxFaults /\ asked \in 0 .. MaxAsks

Init ==
    /\ phase = [b \in Bookings |-> "early"]
    /\ state = [b \in Bookings |-> "confirmed"]
    /\ completed = [b \in Bookings |-> {}]
    /\ payment = [b \in Bookings |-> "paid"]
    /\ problem = [b \in Bookings |-> "none"]
    /\ report = [b \in Bookings |-> "none"]
    /\ absent = [b \in Bookings |-> "seller"]
    /\ overdue = <<>>
    /\ refunds = [b \in Bookings |-> [i \in Slots |-> NoRefund]]
    /\ kora = [b \in Bookings |-> [i \in Slots |-> "none"]]
    /\ outside = [b \in Bookings |-> {}]
    /\ payout = [b \in Bookings |-> "scheduled"]
    /\ automatic \in BOOLEAN
    /\ worker = [w \in Workers |-> Resting]
    /\ listed = [w \in Workers |-> {}]
    /\ operator = [booking |-> None, slot |-> 1]
    /\ faults = 0 /\ asked = 0

Fault == faults < MaxFaults /\ faults' = faults + 1

Ask == asked < MaxAsks /\ asked' = asked + 1 /\ UNCHANGED faults

\* The rows of the booking and of its payout, while a worker releases the payout.
Locked(b) == \E w \in Workers : worker[w].pc = "releasing" /\ worker[w].booking = b

-------------------------------------------------------------------------------
(* Refunds: what a booking's other operations create. *)

LiveUntilSent(b) ==
    \E i \in Slots : refunds[b][i].state \in {"pending_approval", "queued", "processed"}

\* refunds_one_per_booking: the index leaves failed refunds out.
Live(b) == \E i \in Slots : refunds[b][i].state \notin {"none", "failed"}

PlatformShareSwapped(amount) == (amount * Price) \div Deduction

\* In proportion to the platform's part of the price.
PlatformShare(amount) == (amount * Deduction) \div Price

SellerShare(amount) == amount - PlatformShare(amount)

LiabilityUntilCancelled(b) == IF payout[b] = "cancelled" THEN "receivable" ELSE "payable"

\* While the payout is held, or is nothing, the share comes out of it.
LiabilityOf(b) == IF payout[b] = "released" THEN "receivable" ELSE "payable"

\* A seller who did not come, or cancelled, costs the platform the fee too.
WithFee(amount, reason) ==
    IF reason \in {"seller_cancelled", "seller_no_show"} /\ amount = Price
    THEN amount + Fee ELSE amount

NextSlot(b, i) ==
    /\ refunds[b][i].state = "none"
    /\ \A j \in 1 .. i - 1 : refunds[b][j].state # "none"

CreateRefund(b, amount, reason) ==
    /\ payment[b] = "paid" /\ ~Live(b)
    /\ \E i \in Slots :
        /\ NextSlot(b, i)
        /\ refunds' = [refunds EXCEPT ![b][i] =
                [NoRefund EXCEPT !.state = IF automatic THEN "queued" ELSE "pending_approval",
                                 !.amount = WithFee(amount, reason),
                                 !.share = SellerShare(amount),
                                 !.liability = LiabilityOf(b)]]

\* A booking without a payment that can be refunded is settled without one.
CreateRefundIfPaid(b, amount, reason) ==
    IF payment[b] = "paid" THEN CreateRefund(b, amount, reason) ELSE UNCHANGED refunds

SetRefund(b, i, r) == refunds' = [refunds EXCEPT ![b][i] = r]

-------------------------------------------------------------------------------
(* The booking: time, moves, cancellation, completion. *)

After == [early |-> "late", late |-> "started", started |-> "begun",
          begun |-> "over", over |-> "past"]

TimePasses(b) ==
    /\ phase[b] # "past"
    /\ phase' = [phase EXCEPT ![b] = After[@]]
    /\ UNCHANGED <<state, completed, problem, report, absent, overdue, money, automatic,
                   agents, bounds>>

Upcoming(b) == state[b] = "confirmed" /\ phase[b] \in {"early", "late"}

\* The other participant accepts a new time, a day away or sooner.
Reschedule(b) ==
    /\ Ask
    /\ Upcoming(b)
    /\ \E to \in {"early", "late"} \ {phase[b]} : phase' = [phase EXCEPT ![b] = to]
    /\ UNCHANGED <<state, completed, problem, report, absent, overdue, money, automatic,
                   agents>>

BuyerRefundPercent(b) == IF phase[b] = "early" THEN 100 ELSE 0

CancelBooking(b, role) ==
    /\ Ask
    /\ Upcoming(b)
    /\ state' = [state EXCEPT ![b] = "cancelled"]
    /\ IF role = "seller" THEN CreateRefund(b, Price, "seller_cancelled")
       ELSE IF BuyerRefundPercent(b) > 0 THEN CreateRefund(b, Price, "buyer_cancelled")
       ELSE UNCHANGED refunds
    /\ UNCHANGED <<phase, completed, problem, report, absent, overdue, payment, kora,
                   outside, payout, automatic, agents>>

CompleteBooking(b, role) ==
    /\ Ask /\ ~Locked(b)
    /\ state[b] = "confirmed" /\ phase[b] \in {"over", "past"}
    /\ completed' = [completed EXCEPT ![b] = @ \cup {role}]
    /\ state' = [state EXCEPT ![b] = IF completed'[b] = Roles THEN "completed" ELSE @]
    /\ UNCHANGED <<phase, problem, report, absent, overdue, money, automatic, agents>>

-------------------------------------------------------------------------------
(* Problems: the seller answers, is silent, or disagrees. *)

ReportBookingIssue(b, role) ==
    /\ Ask /\ ~Locked(b)
    /\ state[b] \in {"confirmed", "completed"}
    /\ role = "buyer" => phase[b] # "past"
    /\ problem[b] \in {"none", "resolved"}
    /\ problem' = [problem EXCEPT ![b] = IF role = "buyer" THEN "open" ELSE "seller"]
    /\ UNCHANGED <<phase, state, completed, report, absent, overdue, money, automatic,
                   agents>>

SettleProblemIfFree(b, amount) ==
    /\ problem[b] \in {"open", "disputed", "seller"} /\ ~Locked(b)
    /\ problem' = [problem EXCEPT ![b] = "resolved"]
    /\ CreateRefundIfPaid(b, amount, "problem_upheld")
    /\ ~Live(b)
    /\ UNCHANGED <<phase, state, completed, report, absent, overdue, payment, kora,
                   outside, payout, automatic, bounds>>

\* Only that the problem is still open is asked, not whether it was answered.
SettleProblem(b, amount) ==
    /\ problem[b] \in {"open", "disputed", "seller"} /\ ~Locked(b)
    /\ problem' = [problem EXCEPT ![b] = "resolved"]
    /\ IF amount > 0 /\ ~Live(b)
       THEN CreateRefundIfPaid(b, amount, "problem_upheld")
       ELSE UNCHANGED refunds
    /\ UNCHANGED <<phase, state, completed, report, absent, overdue, payment, kora,
                   outside, payout, automatic, bounds>>

SellerDisagrees(b) ==
    /\ problem[b] = "open" /\ ~Locked(b)
    /\ problem' = [problem EXCEPT ![b] = "disputed"]
    /\ UNCHANGED <<phase, state, completed, report, absent, overdue, money, automatic,
                   agents, bounds>>

SellerRefunds(b, amount) ==
    /\ problem[b] = "open"
    /\ SettleProblem(b, amount)
    /\ UNCHANGED agents

\* The worker reads which answers are overdue, and settles them one by one.
ListUnanswered(w) ==
    /\ worker[w] = Resting /\ listed[w] = {}
    /\ \E due \in SUBSET {b \in Bookings : problem[b] = "open"} :
        /\ due # {}
        /\ listed' = [listed EXCEPT ![w] = due]
    /\ UNCHANGED <<lifecycle, money, automatic, worker, operator, bounds>>

SettleUnanswered(w, b) ==
    /\ worker[w] = Resting /\ b \in listed[w]
    /\ SettleProblem(b, Price)
    /\ listed' = [listed EXCEPT ![w] = @ \ {b}]
    /\ UNCHANGED <<worker, operator>>

\* A problem closed meanwhile, or one that cannot be settled, is passed over.
PassOver(w, b) ==
    /\ worker[w] = Resting /\ b \in listed[w] /\ problem[b] \in {"none", "resolved"}
    /\ listed' = [listed EXCEPT ![w] = @ \ {b}]
    /\ UNCHANGED <<lifecycle, money, automatic, worker, operator, bounds>>

\* An operator closes any open problem, with or without a refund.
OpsResolveBookingIssue(b, amount) ==
    /\ problem[b] \in {"open", "disputed", "seller"} /\ ~Locked(b)
    /\ problem' = [problem EXCEPT ![b] = "resolved"]
    /\ IF amount > 0 THEN CreateRefund(b, amount, "problem_upheld") ELSE UNCHANGED refunds
    /\ UNCHANGED <<phase, state, completed, report, absent, overdue, payment, kora,
                   outside, payout, automatic, agents, bounds>>

-------------------------------------------------------------------------------
(* No-shows: an undisputed report stands once its window has passed. *)

OtherRole(role) == IF role = "buyer" THEN "seller" ELSE "buyer"

ReportNoShow(b, role) ==
    /\ Ask
    /\ state[b] = "confirmed" /\ phase[b] \in {"begun", "over"}
    /\ role \notin completed[b]
    /\ report[b] = "none"
    /\ report' = [report EXCEPT ![b] = "open"]
    /\ absent' = [absent EXCEPT ![b] = OtherRole(role)]
    /\ UNCHANGED <<phase, state, completed, problem, overdue, money, automatic, agents>>

DisputeNoShow(b) ==
    /\ report[b] = "open"
    /\ report' = [report EXCEPT ![b] = "disputed"]
    /\ UNCHANGED <<phase, state, completed, problem, absent, overdue, money, automatic,
                   agents, bounds>>

NoShowLapses(b) ==
    /\ report[b] = "open"
    /\ report' = [report EXCEPT ![b] = "due"]
    /\ overdue' = Append(overdue, b)
    /\ UNCHANGED <<phase, state, completed, problem, absent, money, automatic, agents,
                   bounds>>

\* The whole settlement is one transaction: a refund that cannot be created
\* for a second one being in the way undoes it.
SettleNoShow(b, who, outcome) ==
    /\ ~Locked(b)
    /\ report' = [report EXCEPT ![b] = outcome]
    /\ overdue' = RemoveFirst(overdue, b)
    /\ IF outcome = "accepted" /\ state[b] = "confirmed"
       THEN /\ state' = [state EXCEPT ![b] = IF who = "seller" THEN "no_show_seller"
                                             ELSE "no_show_buyer"]
            /\ IF who = "seller" THEN CreateRefundIfPaid(b, Price, "seller_no_show")
               ELSE UNCHANGED refunds
       ELSE UNCHANGED <<state, refunds>>
    /\ UNCHANGED <<phase, completed, problem, absent, payment, kora, outside, payout,
                   automatic, agents, bounds>>

\* The worker takes the oldest first and stops at the first that fails.
ResolveNoShows(w) ==
    /\ worker[w] = Resting /\ listed[w] = {} /\ overdue # <<>>
    /\ SettleNoShow(Head(overdue), absent[Head(overdue)], "accepted")

OpsResolveNoShow(b, who, outcome) ==
    /\ report[b] \in {"open", "due", "disputed"}
    /\ SettleNoShow(b, who, outcome)

-------------------------------------------------------------------------------
(* Refunds: the operator's actions. *)

OpsCreateRefund(b, amount) ==
    /\ Ask /\ ~Locked(b)
    /\ CreateRefund(b, amount, "operator")
    /\ UNCHANGED <<lifecycle, payment, kora, outside, payout, automatic, agents>>

SetAutomatic ==
    /\ Ask
    /\ automatic' = ~automatic
    /\ UNCHANGED <<lifecycle, money, agents>>

OpsApprove(b, i) ==
    /\ automatic /\ refunds[b][i].state = "pending_approval"
    /\ SetRefund(b, i, [refunds[b][i] EXCEPT !.state = "queued"])
    /\ UNCHANGED <<lifecycle, payment, kora, outside, payout, automatic, agents, bounds>>

\* The index lets a refund return to the queue only when no other is live.
Requeue(b, i) ==
    /\ refunds[b][i].state = "failed" /\ ~refunds[b][i].sent /\ ~Live(b)
    /\ UNCHANGED <<lifecycle, payment, kora, outside, payout, automatic, agents, bounds>>

OpsRetry(b, i) ==
    /\ Requeue(b, i)
    /\ SetRefund(b, i, [refunds[b][i] EXCEPT !.state = "queued", !.tries = 0])

AutoRetryFailures(b, i) ==
    /\ Requeue(b, i) /\ refunds[b][i].auto < MaxAuto
    /\ SetRefund(b, i, [refunds[b][i] EXCEPT !.state = "queued", !.tries = 0,
                                             !.auto = @ + 1])

\* What may be recorded as done elsewhere.
Recordable(b, i) ==
    \/ refunds[b][i].state = "pending_approval"
    \/ refunds[b][i].state = "failed" /\ ~Live(b)

\* The operator has paid the buyer back; the record is committed, and finalized
\* in a transaction of its own.
OpsRecord(b, i) ==
    /\ operator.booking = None /\ Recordable(b, i)
    /\ SetRefund(b, i, [refunds[b][i] EXCEPT !.state = "submitted"])
    /\ outside' = [outside EXCEPT ![b] = @ \cup {i}]
    /\ operator' = [booking |-> b, slot |-> i]
    /\ UNCHANGED <<lifecycle, payment, kora, payout, automatic, worker, listed, bounds>>

PaymentAfter(amount) == IF amount >= Price THEN "refunded" ELSE "partially_refunded"

\* Idempotent: a refund already processed stays as it is.  A failed refund that
\* another one has replaced cannot be.
FinalizeRefund(b, i) ==
    IF \/ refunds[b][i].state = "processed"
       \/ refunds[b][i].state = "failed" /\ Live(b)    \* the index refuses it
    THEN UNCHANGED <<refunds, payment>>
    ELSE /\ SetRefund(b, i, [refunds[b][i] EXCEPT !.state = "processed"])
         /\ payment' = [payment EXCEPT ![b] = PaymentAfter(refunds[b][i].amount)]

OpsFinalize ==
    /\ operator.booking # None /\ ~Locked(operator.booking)
    /\ FinalizeRefund(operator.booking, operator.slot)
    /\ operator' = [booking |-> None, slot |-> 1]
    /\ UNCHANGED <<lifecycle, kora, outside, payout, automatic, worker, listed, bounds>>

\* The process stops, or the transaction fails, before the refund is finalized.
OpsStops ==
    /\ operator.booking # None /\ Fault
    /\ operator' = [booking |-> None, slot |-> 1]
    /\ UNCHANGED <<lifecycle, money, automatic, worker, listed, asked>>

-------------------------------------------------------------------------------
(* Refunds: the worker takes one to Kora, always under the same reference. *)

Move(w, pc, told) ==
    worker' = [worker EXCEPT ![w].pc = pc, ![w].told = told]

Rest(w) == worker' = [worker EXCEPT ![w] = Resting]

DueOnce(b, i) == refunds[b][i].state = "queued"

\* A refund that Kora is working on is asked about again.
Due(b, i) == refunds[b][i].state \in {"queued", "submitted"}

ClaimDueRefunds(w, b, i) ==
    /\ worker[w] = Resting /\ listed[w] = {}
    /\ Due(b, i)
    /\ SetRefund(b, i, [refunds[b][i] EXCEPT
                !.tries = IF @ < MaxTries THEN @ + 1 ELSE @])
    \* what was read: whether the refund may still be sent
    /\ worker' = [worker EXCEPT ![w] = [pc |-> "claimed", booking |-> b, slot |-> i,
            told |-> IF refunds[b][i].state = "queued" THEN "none" ELSE "processing"]]
    /\ UNCHANGED <<lifecycle, payment, kora, outside, payout, automatic, listed, operator,
                   bounds>>

\* MarkRefundFailed leaves a refund alone that is processed or failed already.
MarkRefundFailed(b, i) ==
    IF refunds[b][i].state \in {"queued", "submitted", "pending_approval"}
    THEN SetRefund(b, i, [refunds[b][i] EXCEPT !.state = "failed"])
    ELSE UNCHANGED refunds

MarkRefundSubmitted(b, i) ==
    IF refunds[b][i].state \in {"queued", "submitted"}
    THEN SetRefund(b, i, [refunds[b][i] EXCEPT !.state = "submitted", !.sent = TRUE])
    ELSE UNCHANGED refunds

\* An answer that does not come: later, until the attempts are used up.
RetryRefund(b, i) ==
    IF refunds[b][i].tries >= MaxTries THEN MarkRefundFailed(b, i) ELSE UNCHANGED refunds

\* Ask Kora for the reference before anything is sent.
QueryRefund(w) ==
    LET b == worker[w].booking  i == worker[w].slot IN
    /\ worker[w].pc = "claimed"
    /\ \/ kora[b][i] # "none" /\ Move(w, "answered", kora[b][i])
          /\ UNCHANGED <<refunds, faults>>
       \/ kora[b][i] = "none" /\ worker[w].told = "none" /\ Move(w, "missing", "none")
          /\ UNCHANGED <<refunds, faults>>
       \/ kora[b][i] = "none" /\ worker[w].told # "none" /\ Rest(w)
          /\ MarkRefundFailed(b, i) /\ UNCHANGED faults
       \/ Fault /\ Rest(w) /\ RetryRefund(b, i)
    /\ UNCHANGED <<lifecycle, payment, kora, outside, payout, automatic, listed, operator, asked>>

SendRefund(w) ==
    LET b == worker[w].booking  i == worker[w].slot IN
    /\ worker[w].pc = "missing"
    /\ \/ \* accepted
          /\ kora' = [kora EXCEPT ![b][i] = IF @ = "none" THEN "processing" ELSE @]
          /\ Move(w, "answered", "processing")
          /\ UNCHANGED <<refunds, faults>>
       \/ \* refused: nothing was sent
          /\ MarkRefundFailed(b, i) /\ Rest(w)
          /\ UNCHANGED <<kora, faults>>
       \/ \* no answer: it may have arrived or not
          /\ Fault /\ RetryRefund(b, i) /\ Rest(w)
          /\ \E got \in BOOLEAN :
                kora' = IF got /\ kora[b][i] = "none"
                        THEN [kora EXCEPT ![b][i] = "processing"] ELSE kora
    /\ UNCHANGED <<lifecycle, payment, outside, payout, automatic, listed, operator, asked>>

RecordAnswer(w) ==
    LET b == worker[w].booking  i == worker[w].slot IN
    /\ worker[w].pc = "answered"
    /\ \/ worker[w].told = "success" /\ MarkRefundSubmitted(b, i) /\ Move(w, "finalizing", "success")
       \/ worker[w].told = "failed" /\ MarkRefundFailed(b, i) /\ Rest(w)
       \/ worker[w].told = "processing" /\ MarkRefundSubmitted(b, i) /\ Rest(w)
    /\ UNCHANGED <<lifecycle, payment, kora, outside, payout, automatic, listed, operator,
                   bounds>>

WorkerFinalizes(w) ==
    /\ worker[w].pc = "finalizing" /\ ~Locked(worker[w].booking)
    /\ FinalizeRefund(worker[w].booking, worker[w].slot)
    /\ Rest(w)
    /\ UNCHANGED <<lifecycle, kora, outside, payout, automatic, listed, operator, bounds>>

Crash(w) ==
    /\ worker[w] # Resting /\ Fault
    /\ Rest(w)
    /\ UNCHANGED <<lifecycle, money, automatic, listed, operator, asked>>

KoraSettles(b, i) ==
    /\ kora[b][i] = "processing"
    /\ \E to \in {"success", "failed"} : kora' = [kora EXCEPT ![b][i] = to]
    /\ UNCHANGED <<lifecycle, payment, refunds, outside, payout, automatic, agents, bounds>>

-------------------------------------------------------------------------------
(* The payout: held while anything is open, then fixed. *)

Held(b) ==
    \/ problem[b] \in {"open", "disputed"}
    \/ report[b] \in {"open", "due", "disputed"} /\ absent[b] = "seller"
    \/ \E i \in Slots : refunds[b][i].state = "failed" /\ refunds[b][i].liability = "payable"

Deducted(b, i) ==
    /\ refunds[b][i].liability = "payable"
    /\ refunds[b][i].state \notin {"none", "failed"}

Entitlement == Price - Deduction

Shares(b, I) == MapThenSumSet(LAMBDA i : refunds[b][i].share, I)

\* The payout and its booking are locked, and it is asked whether anything holds
\* the payout.
LockPayout(w, b) ==
    /\ worker[w] = Resting /\ listed[w] = {}
    /\ payout[b] = "scheduled" /\ phase[b] = "past" /\ ~Held(b) /\ ~Locked(b)
    /\ worker' = [worker EXCEPT ![w].pc = "releasing", ![w].booking = b]
    /\ UNCHANGED <<lifecycle, money, automatic, listed, operator, bounds>>

\* The refunds are summed in a statement of its own, and not locked.
ReleasePayout(w) ==
    LET b == worker[w].booking
        deducted == {i \in Slots : Deducted(b, i)} IN
    /\ worker[w].pc = "releasing"
    /\ payout' = [payout EXCEPT ![b] =
            IF Shares(b, deducted) >= Entitlement THEN "cancelled" ELSE "released"]
    /\ refunds' = [refunds EXCEPT ![b] =
            [i \in Slots |-> [refunds[b][i] EXCEPT !.counted = i \in deducted]]]
    /\ Rest(w)
    /\ UNCHANGED <<lifecycle, payment, kora, outside, automatic, listed, operator, bounds>>

-------------------------------------------------------------------------------

Amounts == {Part, Price}

Participants(b) ==
    \/ TimePasses(b) \/ Reschedule(b) \/ SellerDisagrees(b)
    \/ DisputeNoShow(b) \/ NoShowLapses(b)
    \/ \E amount \in Amounts : SellerRefunds(b, amount)
    \/ \E role \in Roles :
        CancelBooking(b, role) \/ CompleteBooking(b, role)
        \/ ReportBookingIssue(b, role) \/ ReportNoShow(b, role)

Operator(b) ==
    \/ \E amount \in Amounts : OpsCreateRefund(b, amount)
    \/ \E amount \in Amounts \cup {0} : OpsResolveBookingIssue(b, amount)
    \/ \E who \in Roles : OpsResolveNoShow(b, who, "accepted")
    \/ OpsResolveNoShow(b, absent[b], "rejected")
    \/ \E i \in Slots : OpsApprove(b, i) \/ OpsRetry(b, i) \/ OpsRecord(b, i)

\* What a worker does with what it has taken up.
Proceed(w) ==
    \/ QueryRefund(w) \/ SendRefund(w) \/ RecordAnswer(w) \/ WorkerFinalizes(w)
    \/ ReleasePayout(w)
    \/ \E b \in Bookings : SettleUnanswered(w, b) \/ PassOver(w, b)

Worker(w) ==
    \/ ListUnanswered(w) \/ ResolveNoShows(w)
    \/ Proceed(w) \/ Crash(w)
    \/ \E b \in Bookings : LockPayout(w, b)
    \/ \E b \in Bookings, i \in Slots : ClaimDueRefunds(w, b, i)

Next ==
    \/ SetAutomatic \/ OpsFinalize \/ OpsStops
    \/ \E b \in Bookings : Participants(b) \/ Operator(b)
    \/ \E b \in Bookings, i \in Slots : AutoRetryFailures(b, i) \/ KoraSettles(b, i)
    \/ \E w \in Workers : Worker(w)

Spec == Init /\ [][Next]_vars

\* The worker goes through all its duties in every cycle, each from a state at
\* rest, and takes what has waited longest; Kora settles what it accepted.
\* Nobody else must act.
Fairness ==
    /\ \A b \in Bookings, i \in Slots : WF_vars(KoraSettles(b, i))
    /\ \A w \in Workers :
        /\ WF_vars(Proceed(w))
        /\ SF_vars(ResolveNoShows(w))
        /\ \A b \in Bookings :
            /\ SF_vars(ListUnanswered(w) /\ b \in listed'[w])
            /\ SF_vars(\E i \in Slots : ClaimDueRefunds(w, b, i))

FairSpec == Spec /\ Fairness

-------------------------------------------------------------------------------
(* Properties. *)

Given(b) == {i \in Slots : kora[b][i] \in {"processing", "success"}}

Amount(b, I) == MapThenSumSet(LAMBDA i : refunds[b][i].amount, I)

\* A refund cannot be more than the amount paid: all refunds of a booking, at
\* Kora and recorded as made elsewhere, are within what the buyer paid.
RefundWithinPrice ==
    \A b \in Bookings : Amount(b, Given(b)) + Amount(b, outside[b]) <= Price + Fee

\* As long as the process runs and Kora answers, Kora pays back at most one
\* refund of a booking, however often refunds fail, are retried and are replaced.
KoraPaysOnce ==
    faults = 0 => \A b \in Bookings : Cardinality(Given(b)) <= 1

\* Once the seller is paid, the share of a refund the buyer got is borne in one
\* way: it was deducted, or it is owed back.
ShareBorne ==
    \A b \in Bookings, i \in Slots :
        payout[b] = "released" /\ refunds[b][i].state = "processed" =>
            (refunds[b][i].counted <=> refunds[b][i].liability = "payable")

\* A problem the seller disagrees about is closed by a person, not by a worker
\* that listed it while it was unanswered.
DisputeNeedsPerson ==
    [][\A b \in Bookings :
        problem[b] = "disputed" /\ problem'[b] = "resolved" => listed' = listed]_vars

\* What the code says of reportBookingIssue, "A buyer can report one until the
\* dispute window after the session closes": until then the buyer's report is open
\* to them, or made already.
BuyerCanReport ==
    \A b \in Bookings :
        state[b] \in {"confirmed", "completed"} /\ phase[b] # "past"
            => problem[b] \in {"none", "resolved", "open", "disputed"}

\* A bound of the model: every refund the booking may have has failed.
NoSlotLeft(b) == \A i \in Slots : refunds[b][i].state = "failed"

\* A report that would have the buyer refunded cannot be settled while a refund
\* of the booking waits for an operator.
Stuck(b) ==
    /\ absent[b] = "seller" /\ state[b] = "confirmed" /\ payment[b] = "paid"
    /\ NoSlotLeft(b) \/ \E i \in Slots : refunds[b][i].state = "pending_approval"

\* Reports nobody disputed are settled in the end, also those a refund on its way
\* is in the way of, and those behind them; unless one of them stays stuck, which
\* stops the others.
ReportSettled ==
    (\A b \in Bookings : <>[]~Stuck(b)) =>
        \A b \in Bookings : report[b] = "due" ~> report[b] # "due"

\* Reports are accepted once their window has passed: each that can be settled is,
\* whatever becomes of other bookings.
UndisputedStands ==
    \A b \in Bookings : report[b] = "due" ~> report[b] # "due" \/ Stuck(b)

\* A seller's silence does not leave a buyer's problem open.
ProblemAnswered ==
    \A b \in Bookings : problem[b] = "open" ~> problem[b] # "open" \/ NoSlotLeft(b)

\* A refund on its way arrives, or fails and is shown to an operator.
RefundEnds ==
    \A b \in Bookings, i \in Slots :
        refunds[b][i].state \in {"queued", "submitted"}
            ~> refunds[b][i].state \in {"processed", "failed"}

===============================================================================
