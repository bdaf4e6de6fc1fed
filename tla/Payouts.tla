------------------------------- MODULE Payouts -------------------------------
(***************************************************************************)
(* How one seller is paid for what was booked.                             *)
(*                                                                         *)
(* A payout waits until its booking is over and nothing holds it back; the *)
(* worker then fixes the amount, less a refund to the buyer and less what  *)
(* the seller owes for earlier refunds, and transfers it under a reference *)
(* that is new for every retry.  Kora is asked before every transfer and   *)
(* after it.  A webhook that a transfer failed after it was paid takes the *)
(* payment back.                                                           *)
(*                                                                         *)
(* Clocks are abstracted: a payout becomes due again at any time after it  *)
(* was put off, and a worker's claim puts it off as a wait does.           *)
(***************************************************************************)
EXTENDS Integers, FiniteSets, FiniteSetsExt

CONSTANTS
    Payouts,        \* seller_payouts, one per paid booking
    None,           \* no payout: an agent at rest
    Entitlement,    \* entitlement_minor
    Share,          \* the seller's share of the booking's refund, if there is one
    RecoveryMaxBps, \* REFUND_RECOVERY_MAX_BPS, of 10000
    Workers,        \* lifecycle workers, one per API instance
    Handlers,       \* requests that bring a transfer.failed webhook
    MaxGenerations, \* bound: references a payout may use
    MaxFaults       \* bound: crashes, refusals and answers that do not come

ASSUME PayoutConstants ==
    /\ Entitlement \in [Payouts -> Nat \ {0}]
    /\ Share \in [Payouts -> Nat \ {0}]
    /\ \A p \in Payouts : Share[p] <= Entitlement[p]
    /\ None \notin Payouts /\ Workers \cap Handlers = {}
    /\ RecoveryMaxBps \in 0 .. 10000
    /\ MaxGenerations \in Nat \ {0} /\ MaxFaults \in Nat

VARIABLES
    payoutState, generation,
    amount,       \* amount_minor, 0 before the release
    recovery,     \* recovery_minor
    due,          \* next_attempt_at <= now()
    blocked,      \* a buyer's problem or a no-show report is open, or it is too early
    refundState,  \* the refund of the payout's booking
    liability,    \* whose share it takes: of the held payout, or back from the seller
    owed,         \* the seller's open recoveries
    usable,       \* the seller has a payout account past its safety hold
    transfer,     \* at Kora, by the generation of its reference
    sentBooked,   \* generations with a "payout" journal
    returnBooked, \* generations with a "payout_reversal" journal
    pc, job, ref, answer,  \* a worker or a handler: where it is, what it read and was told
    faults

payout  == <<payoutState, generation, amount, recovery, due>>
booking == <<blocked, refundState, liability, owed, usable>>
ledger  == <<sentBooked, returnBooked>>
agent   == <<pc, job, ref, answer>>
vars == <<payout, booking, transfer, ledger, agent, faults>>

Agents == Workers \cup Handlers
Generations == 1 .. MaxGenerations
Statuses == {"none", "pending", "success", "failed", "reversed"}

TypeOK ==
    /\ payoutState \in [Payouts -> {"scheduled", "processing", "paid", "failed", "cancelled"}]
    /\ generation \in [Payouts -> Generations]
    /\ amount \in [Payouts -> Nat] /\ recovery \in [Payouts -> Nat]
    /\ \A p \in Payouts : recovery[p] <= amount[p]
    /\ due \in [Payouts -> BOOLEAN] /\ blocked \in [Payouts -> BOOLEAN]
    /\ refundState \in [Payouts -> {"none", "queued", "failed", "processed"}]
    /\ liability \in [Payouts -> {"none", "payable", "receivable"}]
    /\ owed \in Nat /\ usable \in BOOLEAN
    /\ transfer \in [Payouts -> [Generations -> Statuses]]
    /\ sentBooked \in [Payouts -> SUBSET Generations]
    /\ returnBooked \in [Payouts -> SUBSET Generations]
    /\ pc \in [Agents -> {"idle", "claimed", "locked", "ready", "looking", "sending",
                          "checking", "answered"}]
    /\ job \in [Agents -> Payouts \cup {None}]
    /\ ref \in [Agents -> Generations]
    /\ answer \in [Agents -> Statuses \cup {"rejected"}]
    /\ faults \in Nat

Init ==
    /\ payoutState = [p \in Payouts |-> "scheduled"]
    /\ generation = [p \in Payouts |-> 1]
    /\ amount = [p \in Payouts |-> 0]
    /\ recovery = [p \in Payouts |-> 0]
    /\ due = [p \in Payouts |-> TRUE]
    /\ blocked = [p \in Payouts |-> TRUE]
    /\ refundState = [p \in Payouts |-> "none"]
    /\ liability = [p \in Payouts |-> "none"]
    /\ owed = 0 /\ usable = FALSE
    /\ transfer = [p \in Payouts |-> [g \in Generations |-> "none"]]
    /\ sentBooked = [p \in Payouts |-> {}]
    /\ returnBooked = [p \in Payouts |-> {}]
    /\ pc = [a \in Agents |-> "idle"]
    /\ job = [a \in Agents |-> None]
    /\ ref = [a \in Agents |-> 1]
    /\ answer = [a \in Agents |-> "none"]
    /\ faults = 0

Fault == faults < MaxFaults /\ faults' = faults + 1

Rest(a) ==
    /\ pc' = [pc EXCEPT ![a] = "idle"]
    /\ job' = [job EXCEPT ![a] = None]
    /\ ref' = [ref EXCEPT ![a] = 1]
    /\ answer' = [answer EXCEPT ![a] = "none"]

Turn(a, to, told) ==
    /\ pc' = [pc EXCEPT ![a] = to]
    /\ answer' = [answer EXCEPT ![a] = told]
    /\ UNCHANGED <<job, ref>>

\* A release in progress has the payout's row and the booking's.
Locked(p) == \E w \in Workers : pc[w] = "locked" /\ job[w] = p

(***************************************************************************)
(* The booking: what holds the payout back, its refund, the account.       *)
(***************************************************************************)

\* A report is opened or settled, the booking is moved, time passes.
SetBlocked(p) ==
    /\ ~Locked(p)
    /\ blocked' = [blocked EXCEPT ![p] = ~@]
    /\ UNCHANGED <<payout, refundState, liability, owed, usable, transfer, ledger,
                   agent, faults>>

LiableUntilPaid(p) == IF payoutState[p] # "paid" THEN "payable" ELSE "receivable"

\* While the payout is held, or is nothing, the share comes out of it.
LiabilityOf(p) ==
    IF payoutState[p] \in {"scheduled", "cancelled"} THEN "payable" ELSE "receivable"

CreateRefund(p) ==
    /\ refundState[p] = "none" /\ ~Locked(p)
    /\ refundState' = [refundState EXCEPT ![p] = "queued"]
    /\ liability' = [liability EXCEPT ![p] = LiabilityOf(p)]
    /\ UNCHANGED <<payout, blocked, owed, usable, transfer, ledger, agent, faults>>

OwedForAny(p) == Share[p]

\* What a refund makes the seller owe.
OwedFor(p) == IF liability[p] = "receivable" THEN Share[p] ELSE 0

\* Finalizing writes the payment state of the booking, which a release has locked.
FinalizeRefund(p) ==
    /\ refundState[p] = "queued" /\ ~Locked(p)
    /\ refundState' = [refundState EXCEPT ![p] = "processed"]
    /\ owed' = owed + OwedFor(p)
    /\ UNCHANGED <<payout, blocked, liability, usable, transfer, ledger, agent, faults>>

\* The refund worker is the same loop as the payout worker, of some instance.  A
\* failure and a retry write the refund alone, and a release reads refunds without
\* a lock: they happen while a payout is locked.
RefundFails(w, p) ==
    /\ pc[w] = "idle"
    /\ refundState[p] = "queued" /\ Fault
    /\ refundState' = [refundState EXCEPT ![p] = "failed"]
    /\ UNCHANGED <<payout, blocked, liability, owed, usable, transfer, ledger, agent>>

RetryRefund(p) ==
    /\ refundState[p] = "failed"
    /\ refundState' = [refundState EXCEPT ![p] = "queued"]
    /\ UNCHANGED <<payout, blocked, liability, owed, usable, transfer, ledger, agent, faults>>

\* A first account is usable at once; one that replaces another, a day later.
AccountUsable ==
    /\ ~usable /\ usable' = TRUE
    /\ UNCHANGED <<payout, blocked, refundState, liability, owed, transfer, ledger,
                   agent, faults>>

ReplaceAccount ==
    /\ usable /\ usable' = FALSE
    /\ UNCHANGED <<payout, blocked, refundState, liability, owed, transfer, ledger,
                   agent, faults>>

(***************************************************************************)
(* The worker releases a payout that is due.                               *)
(***************************************************************************)

\* payoutHoldSQL, and the time of release.
HeldBack(p) ==
    blocked[p] \/ (refundState[p] = "failed" /\ liability[p] = "payable")

ClaimableScheduled(p) == payoutState[p] = "scheduled" /\ ~HeldBack(p)

Claimable(p) ==
    \/ payoutState[p] = "processing"
    \/ payoutState[p] = "scheduled" /\ ~HeldBack(p)

TimePasses(p) ==
    /\ ~due[p] /\ payoutState[p] \in {"scheduled", "processing"}
    /\ due' = [due EXCEPT ![p] = TRUE]
    /\ UNCHANGED <<payoutState, generation, amount, recovery, booking, transfer, ledger,
                   agent, faults>>

Claim(w, p) ==
    /\ pc[w] = "idle" /\ due[p] /\ Claimable(p) /\ ~Locked(p)
    /\ due' = [due EXCEPT ![p] = FALSE]
    /\ pc' = [pc EXCEPT ![w] = "claimed"]
    /\ job' = [job EXCEPT ![w] = p]
    /\ UNCHANGED <<payoutState, generation, amount, recovery, booking, transfer, ledger,
                   ref, answer, faults>>

\* The share of a refund on its way to the buyer, or there.
Refunded(p) ==
    IF liability[p] = "payable" /\ refundState[p] # "failed" THEN Share[p] ELSE 0

TakenUncapped(left) == (left * RecoveryMaxBps) \div 10000

\* takeRecovery: earlier refunds are repaid from at most this part of a payout.
Taken(left) == Min({owed, (left * RecoveryMaxBps) \div 10000})

TrustsClaim(p) == TRUE

\* Asked again under the locks of the payout and of its booking.
MayRelease(p) == ~HeldBack(p)

LockPayout(w) ==
    /\ pc[w] = "claimed" /\ ~Locked(job[w])
    /\ payoutState[job[w]] = "scheduled" /\ MayRelease(job[w])
    /\ Turn(w, "locked", "none")
    /\ UNCHANGED <<payout, booking, transfer, ledger, faults>>

\* Another worker has released it, or it waits again.
PassOver(w) ==
    /\ pc[w] = "claimed" /\ ~Locked(job[w])
    /\ \/ payoutState[job[w]] # "scheduled"
       \/ ~MayRelease(job[w])
    /\ IF payoutState[job[w]] = "processing" THEN Turn(w, "ready", "none") ELSE Rest(w)
    /\ UNCHANGED <<payout, booking, transfer, ledger, faults>>

NothingLeft(w) ==
    LET p == job[w] IN
    /\ pc[w] = "locked" /\ Entitlement[p] - Refunded(p) <= 0
    /\ payoutState' = [payoutState EXCEPT ![p] = "cancelled"]
    /\ amount' = [amount EXCEPT ![p] = 0]
    /\ Rest(w)
    /\ UNCHANGED <<generation, recovery, due, booking, transfer, ledger, faults>>

AwaitAccount(w) ==
    LET p == job[w] IN
    /\ pc[w] = "locked" /\ Entitlement[p] - Refunded(p) > 0 /\ ~usable
    /\ due' = [due EXCEPT ![p] = FALSE]
    /\ Rest(w)
    /\ UNCHANGED <<payoutState, generation, amount, recovery, booking, transfer, ledger,
                   faults>>

\* A payout that goes to repaying an earlier refund entirely is paid at once.
Release(w) ==
    LET p == job[w]
        left == Entitlement[p] - Refunded(p)
        take == Taken(left)
    IN  /\ pc[w] = "locked" /\ left > 0 /\ usable
        /\ amount' = [amount EXCEPT ![p] = left]
        /\ recovery' = [recovery EXCEPT ![p] = take]
        /\ owed' = owed - take
        /\ due' = [due EXCEPT ![p] = TRUE]
        /\ payoutState' = [payoutState EXCEPT ![p] = IF take = left THEN "paid" ELSE "processing"]
        /\ IF take = left THEN Rest(w) ELSE Turn(w, "ready", "none")
        /\ UNCHANGED <<generation, blocked, refundState, liability, usable, transfer,
                       ledger, faults>>

(***************************************************************************)
(* The worker sends the transfer, or finds the one that was sent.          *)
(***************************************************************************)

ReadPayout(w) ==
    LET p == job[w] IN
    /\ pc[w] = "ready"
    /\ IF payoutState[p] = "processing"
         THEN /\ pc' = [pc EXCEPT ![w] = "looking"]
              /\ ref' = [ref EXCEPT ![w] = generation[p]]
              /\ UNCHANGED <<job, answer>>
         ELSE Rest(w)
    /\ UNCHANGED <<payout, booking, transfer, ledger, faults>>

AtKora(a) == transfer[job[a]][ref[a]]

NeverFound(w) == AtKora(w) \in {"success", "failed", "reversed"}

Found(w) == AtKora(w) # "none"

\* Always look first.
FindTransfer(w) ==
    /\ pc[w] = "looking" /\ w \in Workers
    /\ IF Found(w) THEN Turn(w, "answered", AtKora(w)) ELSE Turn(w, "sending", "none")
    /\ UNCHANGED <<payout, booking, transfer, ledger, faults>>

Wait(w) ==
    /\ due' = [due EXCEPT ![job[w]] =
                   IF payoutState[job[w]] \in {"scheduled", "processing"} THEN FALSE ELSE @]
    /\ Rest(w)

\* Kora takes the transfer; it refuses a reference it knows.
SendTransfer(w) ==
    /\ pc[w] = "sending"
    /\ IF AtKora(w) = "none"
         THEN /\ transfer' = [transfer EXCEPT ![job[w]][ref[w]] = "pending"]
              /\ Turn(w, "checking", "pending")
         ELSE /\ Turn(w, "answered", "rejected")
              /\ UNCHANGED transfer
    /\ UNCHANGED <<payout, booking, ledger, faults>>

\* The account cannot be read, or Kora refuses it.
RefuseTransfer(w) ==
    /\ pc[w] = "sending" /\ AtKora(w) = "none" /\ Fault
    /\ Turn(w, "answered", "rejected")
    /\ UNCHANGED <<payout, booking, transfer, ledger>>

\* Kora does not answer the lookup or the transfer, which it may have taken all
\* the same, or its balance does not hold the funds yet.
Unanswered(w) ==
    /\ w \in Workers /\ pc[w] \in {"looking", "sending"} /\ Fault
    /\ \/ UNCHANGED transfer
       \/ /\ pc[w] = "sending" /\ AtKora(w) = "none"
          /\ transfer' = [transfer EXCEPT ![job[w]][ref[w]] = "pending"]
    /\ Wait(w)
    /\ UNCHANGED <<payoutState, generation, amount, recovery, booking, ledger>>

\* The lookup is the authority, if it answers.
CheckTransfer(w) ==
    /\ pc[w] = "checking"
    /\ \E told \in {answer[w], AtKora(w)} : Turn(w, "answered", told)
    /\ UNCHANGED <<payout, booking, transfer, ledger, faults>>

PaidUnlessFailed(w) == answer[w] \in {"success", "pending"}

Succeeded(w) == answer[w] = "success"

SameJournal(p) == 1

\* Each reference has a journal of its own.
JournalOf(p) == generation[p]

MarkPaid(w) ==
    LET p == job[w] IN
    /\ pc[w] = "answered" /\ w \in Workers /\ Succeeded(w)
    /\ IF payoutState[p] = "processing"
         THEN /\ payoutState' = [payoutState EXCEPT ![p] = "paid"]
              /\ sentBooked' = [sentBooked EXCEPT ![p] = @ \cup {JournalOf(p)}]
         ELSE UNCHANGED <<payoutState, sentBooked>>
    /\ Rest(w)
    /\ UNCHANGED <<generation, amount, recovery, due, booking, transfer, returnBooked, faults>>

FailPayout(w) ==
    LET p == job[w] IN
    /\ pc[w] = "answered" /\ w \in Workers
    /\ answer[w] \in {"failed", "reversed", "rejected"}
    /\ payoutState' = [payoutState EXCEPT ![p] = IF @ = "processing" THEN "failed" ELSE @]
    /\ Rest(w)
    /\ UNCHANGED <<generation, amount, recovery, due, booking, transfer, ledger, faults>>

AwaitTransfer(w) ==
    /\ pc[w] = "answered" /\ answer[w] = "pending" /\ ~Succeeded(w)
    /\ Wait(w)
    /\ UNCHANGED <<payoutState, generation, amount, recovery, booking, transfer, ledger, faults>>

\* The process stops; a handler whose lookup fails gives its notice up as well.
Crash(a) ==
    /\ pc[a] # "idle" /\ Fault
    /\ Rest(a)
    /\ UNCHANGED <<payout, booking, transfer, ledger>>

\* A failed payout goes again, under the next reference: by itself, when the
\* seller saved an account, or when an operator says so.
RetryPayout(p) ==
    /\ payoutState[p] = "failed" /\ usable /\ generation[p] < MaxGenerations
    /\ payoutState' = [payoutState EXCEPT ![p] = "processing"]
    /\ generation' = [generation EXCEPT ![p] = @ + 1]
    /\ due' = [due EXCEPT ![p] = TRUE]
    /\ UNCHANGED <<amount, recovery, booking, transfer, ledger, agent, faults>>

(***************************************************************************)
(* Kora, and its webhook of a transfer the bank sent back.                 *)
(***************************************************************************)

KoraTransfer(p, g) ==
    /\ transfer[p][g] = "pending"
    /\ \E outcome \in {"success", "failed"} :
           transfer' = [transfer EXCEPT ![p][g] = outcome]
    /\ UNCHANGED <<payout, booking, ledger, agent, faults>>

KoraReturn(p, g) ==
    /\ transfer[p][g] = "success"
    /\ transfer' = [transfer EXCEPT ![p][g] = "reversed"]
    /\ UNCHANGED <<payout, booking, ledger, agent, faults>>

\* The notice of a payout recorded as paid; it may come more than once.
Notice(h, p) ==
    /\ pc[h] = "idle" /\ payoutState[p] = "paid"
    /\ transfer[p][generation[p]] \in {"failed", "reversed"}
    /\ pc' = [pc EXCEPT ![h] = "looking"]
    /\ job' = [job EXCEPT ![h] = p]
    /\ ref' = [ref EXCEPT ![h] = generation[p]]
    /\ UNCHANGED <<payout, booking, transfer, ledger, answer, faults>>

ConfirmReturn(h) ==
    /\ pc[h] = "looking" /\ h \in Handlers
    /\ Turn(h, "answered", AtKora(h))
    /\ UNCHANGED <<payout, booking, transfer, ledger, faults>>

\* The payment is taken back, whatever the payout's reference is by now; its
\* journal is that of the reference in the notice.
Reverse(h) ==
    LET p == job[h] IN
    /\ pc[h] = "answered" /\ h \in Handlers
    /\ IF payoutState[p] = "paid"
         THEN /\ payoutState' = [payoutState EXCEPT ![p] = "failed"]
              /\ returnBooked' = [returnBooked EXCEPT ![p] = @ \cup {ref[h]}]
         ELSE UNCHANGED <<payoutState, returnBooked>>
    /\ Rest(h)
    /\ UNCHANGED <<generation, amount, recovery, due, booking, transfer, sentBooked, faults>>

Send(w) ==
    \/ ReadPayout(w) \/ FindTransfer(w) \/ SendTransfer(w) \/ RefuseTransfer(w)
    \/ Unanswered(w) \/ CheckTransfer(w) \/ MarkPaid(w) \/ FailPayout(w)
    \/ AwaitTransfer(w)

Decide(w) == LockPayout(w) \/ PassOver(w) \/ NothingLeft(w) \/ AwaitAccount(w) \/ Release(w)

Next ==
    \/ \E p \in Payouts :
           \/ SetBlocked(p) \/ CreateRefund(p) \/ FinalizeRefund(p) \/ RetryRefund(p)
           \/ TimePasses(p) \/ RetryPayout(p)
           \/ \E w \in Workers : Claim(w, p) \/ RefundFails(w, p)
           \/ \E g \in Generations : KoraTransfer(p, g) \/ KoraReturn(p, g)
           \/ \E h \in Handlers : Notice(h, p)
    \/ AccountUsable \/ ReplaceAccount
    \/ \E w \in Workers : Decide(w) \/ Send(w)
    \/ \E h \in Handlers : ConfirmReturn(h) \/ Reverse(h)
    \/ \E a \in Agents : Crash(a)

Spec == Init /\ [][Next]_vars

\* The worker's loop never stops and puts payouts off for a bounded time; Kora
\* settles what it took.  A retry waits for an account the seller may replace
\* meanwhile (SF): each stays usable for many cycles.
Fairness ==
    /\ \A p \in Payouts :
           /\ WF_vars(TimePasses(p)) /\ SF_vars(RetryPayout(p))
           /\ \A g \in Generations : WF_vars(KoraTransfer(p, g))
           /\ \A w \in Workers : WF_vars(Claim(w, p))
    /\ WF_vars(AccountUsable)
    /\ \A w \in Workers : WF_vars(Decide(w)) /\ WF_vars(Send(w))

FairSpec == Spec /\ Fairness

(***************************************************************************)
(* Properties.                                                             *)
(***************************************************************************)

\* A transfer that went out is adopted, never sent again: of all the references
\* of a payout at most one is paid or on its way.
NeverSentTwice ==
    \A p \in Payouts :
        Cardinality({g \in Generations : transfer[p][g] \in {"pending", "success"}}) <= 1

\* A payout is recorded as paid only when its own transfer was, or when there
\* was nothing to transfer.
PaidMeansSent ==
    \A p \in Payouts : payoutState[p] = "paid" =>
        \/ amount[p] = recovery[p]
        \/ transfer[p][generation[p]] \in {"success", "reversed"}

\* Every payment in the ledger is matched by its return, but for that of a
\* payout now paid: the ledger says what the payout says.
LedgerMatchesPayout ==
    \A p \in Payouts :
        Cardinality(sentBooked[p]) - Cardinality(returnBooked[p])
            = IF payoutState[p] = "paid" /\ amount[p] # recovery[p] THEN 1 ELSE 0

\* A payout that a problem, a no-show report or an unfinished refund holds back
\* is not released, whenever the report comes.
HeldStays ==
    [][\A p \in Payouts :
           payoutState[p] = "scheduled" /\ HeldBack(p) => payoutState'[p] = "scheduled"]_vars

\* The seller bears a refund once: out of the payout, or as a debt, never both
\* and never neither, in whatever order release and refund happen.
ShareBorneOnce ==
    \A p \in Payouts :
        /\ payoutState[p] # "scheduled" =>
               amount[p] = Entitlement[p] - IF liability[p] = "payable" THEN Share[p] ELSE 0
        /\ payoutState[p] = "scheduled" => liability[p] # "receivable"

\* What the seller owed for refunds is what was taken from payouts and what is
\* still open.
RecoveriesBalance ==
    owed + MapThenSumSet(LAMBDA p : recovery[p], Payouts)
        = MapThenSumSet(LAMBDA p : IF liability[p] = "receivable" /\ refundState[p] = "processed"
                                     THEN Share[p] ELSE 0, Payouts)

\* A released payout is paid in the end, or has failed under every reference.
ReleasedIsPaid ==
    \A p \in Payouts :
        payoutState[p] = "processing" ~>
            \/ payoutState[p] = "paid"
            \/ payoutState[p] = "failed" /\ generation[p] = MaxGenerations

\* What the docs say of a refund started while the payout is held, "the seller
\* share simply reduces the payout": once the buyer has the money, it has.
RefundReducesPayout ==
    \A p \in Payouts :
        liability[p] = "payable" /\ refundState[p] = "processed"
            /\ payoutState[p] # "scheduled" => amount[p] = Entitlement[p] - Share[p]

\* What the code says of checkPayoutReversal, "the money is back in the balance
\* and owed to the seller again": what was paid fails only if its transfer came back.
ReturnIsReal ==
    [][\A p \in Payouts :
           payoutState[p] = "paid" /\ payoutState'[p] = "failed" =>
               transfer[p][generation[p]] \in {"failed", "reversed"}]_vars

=============================================================================
