# WantMyTime: specifications and proofs

WantMyTime sells time. A buyer takes a time of a seller, which holds it; pays
through Kora; and the payment becomes a booking. After the booking the seller is
paid out, less refunds. The Go API (`src/services/core/cmd/api`) serves requests
and runs the workers, in one or more instances that share one PostgreSQL
database; the Svelte client (`src/apps/web`) keeps no state the server trusts.

This directory holds TLA+ modules of the API: its money, its times, its queues and
its people; the TLC configurations that check them on small instances; and TLAPS
proofs for every instance. `PROJECT.json` maps each definition to the lines it
stands for.

    tlc -workers 2 -config MCConversion_contention.cfg MCConversion
    tlapm ConversionProofs.tla      (and Sums, PayoutsProofs, SettlementProofs,
                                     OutboxProofs, SellerTimesProofs,
                                     SellerCalendarProofs, AccountsProofs)

## The system

| Part | State it keeps | Operations | What is hard, and what must hold |
|---|---|---|---|
| Holding a time (`quotes.go`, `holds.go`) | `quotes`, `slot_reservations` under an exclusion constraint | take a quote at the listed or an agreed price, read it, expire it | holds lapse by the clock while their row stays active; clean-ups by several parties. A booked time is never taken; a hold being paid for is not replaced |
| Checkout (`checkout.go`) | `payment_attempts` | start, reuse, extend the hold, open a page or a transfer account | two transactions, between which the hold has no attempt; several attempts of one quote, all payable. One of them books |
| Verification and conversion (`payment_processing.go`, `unbooked.go`, `kora.go`) | `provider_events`, `payment_attempts`, `bookings`, `payment_exceptions` | webhook, claim, ask Kora, apply; the return page does the same | answers applied late and twice, answers that do not fit, leases that expire, crashes. Every charge is booked, returned or before an operator, once |
| Payouts (`payouts.go`, `payout_provider.go`, `ledger.go`) | `seller_payouts`, `seller_recoveries`, ledger journals | release, look up, send, confirm, fail, retry, reverse | two systems without a common transaction. Paid once, and the ledger agrees |
| Booking refunds (`refunds.go`) | `refunds` | create, approve, send, poll, finalise, record by hand | races with the payout. The seller bears each refund once |
| Automatic retries (`automation.go`) | `auto_retries` of each failed row | put failed rows back | one bad row stops the rest |
| Cancellation (`cancellation.go`, `policy.go`) | `bookings`, cancellation requests | cancel, review | refund by policy; releases the time |
| Problems, no-shows, completion (`bookings.go`, `noshow.go`, `reviews.go`) | `bookings.issue_*`, `no_show_reports` | report, answer, escalate, settle, complete | deadlines against the payout's release; an open report holds the payout |
| Reschedules (`bookings.go`) | `reschedule_requests`, the reservation | ask, accept, decline, expire | the new time may be taken; the old one stays until then |
| Offers (`offers.go`) | `offers`, `offer_versions` | make, counter, agree, decline, lapse | two parties answer at once; an agreement is sold once |
| Availability (`availability.go`) | rules, exceptions | list slots, check a time | the list and the check agree, also on a date whose clock is moved |
| Notifications, push, announcements (`notifications.go`, `push.go`, `marketing.go`) | `notification_outbox`, `push_outbox`, `broadcast_deliveries` | enqueue in the caller's transaction, claim, deliver, retry | claims that expire; stale content; nothing sent after it is withdrawn |
| Calendar sync (`calendar.go`, `google.go`) | `calendar_jobs`, busy times | enqueue, claim, create or move or remove the event | the last state of the booking wins |
| Sign-in and sessions (`auth.go`) | identities, challenges, sessions | ask for a code, verify, revoke | a request is authenticated in one transaction and carried out in another |
| Deleting an account (`privacy.go`) | nearly every table | what blocks it, delete | everything that names the person, beside requests, deliveries and payments under way |
| Rate limits (`ratelimit.go`, `redis.go`) | windows in Redis or in memory | allow | fallback when Redis fails |
| Watchdog (`observability.go`) | `operational_alerts`, worker heartbeats | evaluate, notify, resolve | one instance at a time; every condition is told and closed |
| Operator console, finance (`ops.go`, `finance_read.go`) | audit events | approve, retry, record, resolve, announce | acts on rows the workers hold |
| Process (`main.go`) | none | starts one of every worker per instance | instances run side by side during a deployment |

Parts meet in the database: a request or a worker locks rows, changes them and
queues work for another worker in the same transaction. Kora is asked outside
transactions, and its webhooks only queue events or bring work forward.

## Modules

### `Conversion`

One seller's times, from a quote to a booking or a refund.

* `quoteState`, `holdActive`, `holdKind`, `holdLive` are a quote and its
  reservation. A time is a set of ticks, so two times may overlap without being
  equal; `TimeFree` is the exclusion constraint. `holdLive` stands for
  `expires_at > now()`, of the quote and its hold together, and may end at any step.
* `attemptState` and `attemptBooking` are payment attempts, `charge` what Kora
  knows of each, `eventState`, `eventTries`, `requeues` the webhook's event.
* `refunds` are the rows of the refunds of an attempt's exception of a kind, oldest first:
  the unique index (`Live`) allows many failed ones beside one that has not failed. A row
  knows whether Kora ever accepted it and how often it was put back: the worker puts back
  only what Kora never accepted, up to `MaxRequeues` times (`RetryRefund`), an operator
  without such a limit (`RetryByHand`), or records a refund made elsewhere
  (`RecordByHand`). While `RefundsOn` may be false a refund may begin as
  `pending_approval` and wait for `ApproveRefund`.
* An answer of Kora that does not fit the attempt (`unmatched`: another reference, no
  amount, a negative fee) makes the attempt an exception without a refund (`RecordOnly`).
* `pc`, `job`, `seen` are the verifiers: event workers and return pages. A
  verifier claims (or polls), asks Kora, and applies. `applyVerifiedCharge` locks
  the attempt, reads whether the quote is booked, then locks the quote: what it
  decides from the attempt alone is one action (`RecordUnpaid`,
  `RejectWrongAmount`, `RejectDuplicate`, `Reconfirm`), and otherwise the attempt
  stays locked (`LockAttempt`) while others may still move, until `RejectNoTime`,
  `RejectPaused`, `RejectOffer` or `Book`.
* A claimed event may be claimed again at any time: the two-minute lease is not
  a guard. Clocks, hours and the seller's calendar are `SetBookable`, `HoldLapses`
  and `OfferLapses`.
* Extending the hold and saving the attempt are two transactions (`ExtendHold`,
  `SaveAttempt`). In between the attempt is `starting`, which nobody else can see: a new
  quote of the same buyer may replace the hold, or the clock end it, and the attempt is
  saved all the same. `OpenCharge` of a transfer extends the hold once more, and from then
  on `AccountShown` holds and `HoldOfPayerKept` speaks of the quote.

### `Payouts`

One seller's payouts and the refunds of their bookings.

* `payoutState`, `generation`, `amount`, `recovery`, `due` are a payout;
  a reference at Kora is a payout and its generation. `transfer` is what Kora has
  under each reference, and may change behind the system's back.
* `blocked` is an open problem or no-show report, or a release date still ahead,
  and may rise and fall at any step. In the code a report can no longer be
  opened when the release date has come (`payout_provider.go`, `payoutDelay`):
  the model allows more. `owed` is what the seller owes for refunds paid after
  their payout had gone.
* A worker claims a payout, asks for holds under the locks of the payout and the
  booking (`LockPayout`), then sums the refunds, which it does not lock, and
  releases (`Release`, `NothingLeft`, `AwaitAccount`). It looks the reference up
  (`FindTransfer`), sends (`SendTransfer`), looks again (`CheckTransfer`) and applies
  the answer (`MarkPaid`, `FailPayout`, `AwaitTransfer`). Each call to Kora is a
  step, and any of them may go unanswered.
* A webhook handler confirms a returned transfer and takes the payment back
  (`Notice`, `ConfirmReturn`, `Reverse`).
* The lifecycle worker does refunds and payouts one after the other in one loop
  (`reviews.go`, `runLifecycleWorker`); that is why `RefundFails` needs an idle
  worker, and why the race of `RefundReducesPayout` takes two instances. `FinalizeRefund`
  writes the booking and waits for its lock; `RefundFails` writes only the refund.
* Retries by the worker, by the seller who saves an account, and by an operator
  are one action, `RetryPayout`. `sentBooked` and `returnBooked` are the ledger's
  journals; those of refunds and recoveries are posted once each and left out.

### `Settlement`

What happens to a paid booking afterwards, and how the buyer gets money back.

* `phase`, `state`, `completed`, `payment` are the booking. The clock is the phase: the
  deadlines of the policy, of completion and of the payout are its boundaries.
* `problem` is the `issue_` columns, `report`, `absent` and `overdue` the no-show report
  and the order in which the worker takes due ones. Windows pass at any step
  (`NoShowLapses`; `ListUnanswered` takes any subset of the open problems).
* `refunds` are the refunds of a booking in the order of their creation; `Live` is the
  unique index that leaves failed ones out. `kora` is what Kora has under each
  reference, `outside` what an operator has paid by hand.
* A worker claims a refund (`ClaimDueRefunds`), asks Kora for it (`QueryRefund`), sends it
  (`SendRefund`), records the answer (`RecordAnswer`) and finalises it (`WorkerFinalizes`):
  five transactions and calls, between which others act and it may stop. Unanswered
  problems are listed first and settled one by one (`SettleUnanswered`, `PassOver`).
* The operator's record of a refund made elsewhere is committed first and finalised
  afterwards (`OpsRecord`, `OpsFinalize`, `OpsStops`).
* `LockPayout` takes the locks of the payout and the booking and asks for holds;
  `ReleasePayout` sums the refunds and notes which it counted. What needs the booking's row
  waits meanwhile (`Locked`); what touches only a refund does not.
* A failed refund goes back to the queue (`Requeue`) if Kora never accepted it and no other
  refund of its booking is live: whatever an operator is doing with it.

### `Outbox` and `JobQueue`

Emails and browser notifications about one booking, which is moved, cancelled and refunded.

* An email is a kind and a key; queueing it again does nothing (`QueuedByMove` and the
  others follow `ON CONFLICT`). `mail` is its row, `lapsed` a claim older than five minutes.
* `worker` holds a batch, reads the booking (`ReadContext`), sends (`DeliverEmail`) and
  records (`FinishNotification`). The provider drops a repetition by its key, so
  `accepted` is set once.
* `push` is the other queue: a claim is only a later due date (`back`), and nothing drops a
  repetition, so `shown` counts.
* `JobQueue` is the abstract specification of such a queue, without workers or claims: a
  job is decided once, it is `sent` only if it was delivered, and one that failed is opened
  again a bounded number of times. `IsJobQueue` is the refinement: `queued` and claimed are
  `open`.

### `SellerCalendar`

The times of one seller, and the copy of the bookings in Google's calendar.

* `booking`, `reservation` and `request` are two bookings through a hold, a (late) payment,
  a move agreed in two steps, and a cancellation. `Taken` is the exclusion constraint,
  `TakenAfterSweep` what it is once lapsed holds are cleaned up, `DaySlots` what the public
  page shows, `ValidScheduledTime` the check of a time that is asked for.
* `job` is `calendar_jobs` with one queued job per booking; a worker reads the booking,
  calls Google (`event` is what Google has), saves the link and finishes. A call may be
  refused or its answer lost, and the connection withdrawn, cut and made again. Reading or
  saving may fail: without its booking a job has failed for good, otherwise it is tried
  again, and what Google has may stay unnoted.

### `Hours`

The windows of one local date whose clock is moved once, by `Shift` at `Jump`. The code works
them out in two ways, and so does the module: the page adds the duration to the minutes of
the clock (`Listed`), the check asks that the time lies between the instants at which a
window begins and ends (`Within`). `LocalInstants` has none for a time the clock leaves out
and two for one it repeats. `SellerCalendar` takes both from here.

### `SellerTimes`

What `Conversion` and `SellerCalendar` both promise of a seller's times, without quotes,
payments, clocks or clean-ups. A client (a quote or a booking) is `free`, `held`, `booked`
or `over`, and has a `time`. `Have` is the one way to get a time: nothing that meets it may
be in force, save holds that give way in the same step. `KeepsTimes` in each module is the
refinement: a reservation that is active is a hold, lapsed or not, unless there is a
booking, whose own state decides. So a lapse is no step, a late payment that has lost its
hold takes the time again, and a move leaves the old time in the step that takes the new.
`Conversion` has no moves, `SellerCalendar` no offers and no refusals: that both implement
`SellerTimes` is what ties their bookings together.

### `Offers`, `Announcements` and `Accounts`

* `Offers` is a negotiation: an answer names the version its sender has seen.
* `Announcements` is consent to news and an announcement sent by several instances, each
  inside the transaction that holds the row of the delivery.
* `Accounts` composes both with people: codes, identities, sessions, and requests that are
  authenticated first (`Enter`) and carried out afterwards, perhaps when the account has
  been deleted. `DeleteAccount` changes all three at once. What such a late request
  touches is marked `late`.

`MC...` modules hold the instances, `...Proofs` modules the theorems. Definitions above
another of the same purpose and arity (`StaleOfAnyKind` above `StaleInTheWay`) are the
mistakes the properties are tried against: with each put in place of the real one, its run
must fail.

## Runs

| Run | Instance | Shows |
|---|---|---|
| `contention` | 2 buyers, 2 overlapping times, 2 attempts, a worker and a page | `BookedTimeReserved`, `PaidChargeAccounted`, `DecisionStands` |
| `leases` | 1 quote, 2 attempts, 2 workers, a crash | `BookingPaidOnce`, `ProcessedIsDecided` |
| `offer` | 1 buyer, 3 quotes, 1 agreement, 2 attempts, by transfer and by page | `OneBookingPerOffer`, `HoldOfPayerKept`, `KeepsTimes` |
| `liveness` | 1 quote, 1 attempt, a worker and a page, 1 fault, refunds on or off | `PaidIsSettled` |
| `paid` | 1 payout, 2 references, a worker, a handler, 2 faults | `NeverSentTwice`, `PaidMeansSent`, `LedgerMatchesPayout`, `HeldStays`, `ReleasedIsPaid` |
| `shares` | 2 payouts, 2 refunds, a worker, 1 fault | `TypeOK`, `ShareBorneOnce`, `RecoveriesBalance` |
| `settled` | as `leases`, with 1 attempt, a worker and a page | disagreement 1 below |
| `returns` | 1 booking, 2 refunds, a worker, 1 fault, 2 requests of participants or operators | `TypeOK`, `KoraPaysOnce`, `ShareBorne` |
| `ends` | 2 bookings that are over, 2 refunds, 2 attempts and 1 automatic retry each, a worker, 1 fault | `ReportSettled`, `ProblemAnswered`, `RefundEnds` |
| `messages` | 1 booking, 1 move, 3 kinds of email, 2 workers, 2 pushers, 1 fault | `TypeOK`, `ReminderNamesItsTime`, `PushedOnce`, `IsJobQueue`, `MailEnds` |
| `moves` | 2 bookings, the quarter hours of an autumn day, 2 jobs each, a worker, 1 error and 1 break | `BookedTimesApart`, `ShownCanBeHeld`, `EventMatchesBooking`, `KeepsTimes`, `SellersLinkStays`, `JobsEnd` |
| `people` | a seller and 2 buyers' accounts on 2 addresses, 2 requests, 2 senders, 1 fault | `TypeOK`, `AgreedAsShown`, `OverIsOver`, `OneEmailEach`, `DeletedIsErased`, `AnnouncementEnds` |

Bounds. Two overlapping times and two attempts are the smallest in which one
payment can take another's time or settle a quote twice; a third party adds no
new conflict, since every guard and every clean-up is about pairs (the proofs
settle it for all sizes). `MaxTries` 2 and `MaxRequeues` 1 stand for 8 and 3: one
step that stays under the limit and one that reaches it. `MaxFaults` bounds crashes,
unanswered calls and refused refunds in one behaviour; in `contention` and `offer`
it is 0, because a crash only returns a verifier to idle there, and `leases` has it
with the claims it matters for. In `liveness` refunds may be switched off and on, so that
one waits for approval; its one fault is a refund that fails and is put back (with two, the
retries are used up, which `WaitsForPerson` allows for). Two generations of a payout are one
retry. In `shares` half of 2 or 3 is taken at most, which leaves a remainder to round in
`Taken`; the batch of ten payouts is taken one at a time. `paid` has one worker and one
handler; disagreements 4 to 6 show what two do. The
type invariants of `Conversion` and `SellerCalendar` are proved and are in no run: a run
is kept for what can go wrong between them and `SellerTimes`.

In `Settlement`, two refunds of a booking are one that fails and one that replaces it;
`automatic` is true or false at the start and may change, as far as `MaxAsks` allows.
`NoSlotLeft` says that a booking has used them up, which the database knows nothing of: the
liveness properties leave those states out. `ends` begins where bookings may have come
(`Over` in `MCSettlement`): the first with a refund an operator created, or without; the
second paid out and refunded. Either both are reported and due (`Reported`, with no fault
left), so that the first may stand in the way of the second; or the buyer of the first has
a problem open (`Troubled`). The constraint `Whole` leaves out problems settled with a part
of the price, which `returns` has. The other run begins with a new booking.

In `Outbox`, times 2 and 3 and a clock up to 2 put a reminder before, at and after its due
date on both sides of a move.
In `SellerCalendar`, the clock of `moves` shows 1, 2, 2, 3, 4, 5: with a window from 1 to 4
times 1, 2 and 3 of length 2 can be booked, 2 and 3 at the same time of the clock, and they
overlap in pairs and not in all. A day with no change of the clock is a case of the theorem.
In `Accounts`, two accounts for one address are a person who leaves and comes back.

`messages`, `moves` and `people` state a constraint, `Apart`, with which TLC leaves out
products of things that do not meet: emails under way beside notifications under way,
which share only the booking; jobs of both bookings at once, which share only the
worker; an offer beside an announcement beside a payment, which meet only in a deletion.
What the constraint leaves out is in reach of the theorems, which know no constraint.
A liveness property under a constraint is about the behaviours that stay inside it.

`MaxAsks`, `MaxMoves`, `Horizon` and the like bound what people ask for and how far the
clock goes. In the runs of `MCSettlement`, `MCOutbox`, `MCSellerCalendar` and `MCAccounts` everything may
then be done, so they say `CHECK_DEADLOCK FALSE`; in the others deadlock is checked. Symmetry is not used: the
instances give each quote and attempt its own role.

### Fairness

`FairSpec` of `Conversion`: every worker is a ticker that never stops, so claiming,
asking, marking and putting back failed rows are weakly fair, the last while no two failed
refunds of one exception block the statement (`RetryBlocked`); a refund on its way is sent
and processed, and one that Kora never accepted is put back as long as it has a retry left:
whatever else (an approval, a refund that failed at Kora, an answer that does not fit) waits
for an operator, whom `PaidIsSettled` does not count on (`WaitsForPerson`); Kora repeats a
webhook that was not acknowledged; a row lock is granted in the order of request, so a verifier
whose attempt is locked again and again by others still gets it (strong fairness of
`Decide`). Return pages owe nothing until they hold a lock. Buyers, sellers and clocks
owe nothing. In `Payouts` the worker's steps are weakly fair and Kora settles each
transfer it took; a retry waits for an account that the seller may replace
again and again, each usable for many cycles (strong fairness of `RetryPayout`).

In `Settlement`, Kora settles what it accepted and a worker goes on with what it has taken
up (weak fairness of `KoraSettles` and `Proceed`); a worker at rest begins with each of its
duties in every cycle of its loop, but between them it is not at rest, so these are
strongly fair (`ResolveNoShows`, `ListUnanswered` and `ClaimDueRefunds` of each booking,
which are taken in the order of their dates). In `Outbox` and `SellerCalendar` it is enough
that something goes on: a tick, a worker, or a claim that expires (`Progress`). In
`Accounts` a sender wakes every twenty seconds on every instance (`Sending`). People,
operators and faults owe nothing anywhere.

## Where the code and its documents disagree

The first is refuted by TLC in its run, with the quotation in `PROJECT.json`. The others are
properties of the modules that no run checks; the instance that refutes each is named, and
differs from that of a run as said.

1. `SettledOnce` (run `settled`): `applyVerifiedCharge` is called idempotent, but never asks
   whether the charge is already an exception; verified again, a refunded charge is booked.
2. `StaleHoldNeverBlocks` (as `contention`): a late payment is refunded because of another
   buyer's lapsed hold, which a new quote would have cleared away.
3. `FailedEventRetried` (as `liveness`, `MaxFaults = 3`): two failed refunds of one exception
   violate a unique index when they are put back, and failed events and emails are never
   reached.
4. `NeverSentTwice` (as `paid`, `Workers = {w1, w2}`, `Handlers = {}`): "a retry never pays
   twice" (`SECURITY.md`, line 26), but a release ends the claim that protects the payout,
   and the second sender's refusal fails a payout whose transfer is on its way.
5. `ReturnIsReal` (as `paid`, `Handlers = {h1, h2}`): a second, stale notice of a return fails
   the retry's good payment.
6. `RefundReducesPayout` (as `paid`, `Workers = {w1, w2}`): "the seller share simply reduces
   the payout" (`MONEY_FLOW.md`, line 86), but a refund that fails between the check for
   holds and the sum of refunds is neither waited for nor deducted.
7. `RefundWithinPrice` (as `returns`): an operator's record is committed as `submitted`
   (`refunds.go`, line 326) and the process stops before `finalizeRefund`; the worker finds
   nothing at Kora, fails the refund, and the automatic retry pays the buyer again. It needs
   no stop: a worker that claims the record between the two statements does the same.
8. `DisputeNeedsPerson` (as `ends`): "Only a genuine disagreement ... waits for a person"
   (`automation.go`), but the settlement asks only that the problem is open still, so one
   that the seller disputes after it was listed is refunded by the worker.
9. `RemindersQueued` (as `messages`): "On accept: ... reminders are re-queued"
   (`FLOW_WALKTHROUGH.md`, line 60), but a booking that is moved back to a time it had
   before finds the key of its first reminder, which was withdrawn, and gets none.
10. `EventRemoved` (as `moves`): the event "is removed if the booking stops being confirmed"
    (`OPERATIONS.md`, line 70); when the answer of its creation was lost, the booking does
    not know of an event, and the cancellation removes none.
11. `NoMoneyMoving` (as `people`, with `Spec`): `deletionBlockers` lists "what must finish
    before an account can be deleted: money still moving", but asks nothing of attempts and
    charges. A charge paid before the deletion and verified after it finds no identity
    (`VerifiedEmailForUser`), and its event fails for good.
12. `HeldWhenToldSo` (as `offer`, `MaxFaults = 1`): "Your time is still held; try again"
    (`checkout.go`, lines 280 and 293), but between extending the hold and saving the attempt
    the buyer may choose another time in another tab, which gives the first one up.
13. `UndisputedStands` (as `ends`): "`resolveNoShows` accepts undisputed reports once their
    window has passed" (`noshow.go`, line 133), but it stops at the first that fails, and one
    whose booking has a refund waiting for approval fails every time.
14. `BuyerCanReport` (as `returns`): "A buyer can report one until the dispute window after
    the session closes" (`bookings.go`, line 573), but not while a problem the seller has
    reported is open, which does not hold the payout.
15. `ShownWithinHours` (as `moves`, `Shift = 1`): `sellerDaySlots` returns start instants "honouring
    weekly windows" (`availability.go`, line 384), but on a day whose clock is moved forward
    it shows starts that end after the window does, which the check then refuses.

4 to 6 are what `Apart`, `NoticesApart` and `RefundsHold` exclude in the proofs.

Two more, of which no document says otherwise: `opsSendBroadcast` counts the recipients and
queues their deliveries in two statements, so an announcement may go to another number than
was confirmed; and a request authenticated before a deletion, carried out after it, brings
back a named offer or a contact (`late` in `DeletedIsErased`).

## Proofs

`ConversionProofs` proves, for all sets of quotes, times, buyers, offers, attempts,
workers and pages, under `ConstantTypes` (the functions of the instance have their
types, workers are not pages, limits are numbers) and `SlotsAreTimes` (a time has a
tick):

| Theorem | Property |
|---|---|
| `TypeCorrect` | `TypeOK` (in no run) |
| `BookedTimeStays` | `BookedTimeReserved` |
| `OnePaymentPerBooking` | `BookingPaidOnce` |
| `OfferSoldOnce` | `OneBookingPerOffer` |
| `MoneyAccounted` | `PaidChargeAccounted` |
| `DecisionsStand` | `DecisionStands` |
| `PayerKeepsHold` | `HoldOfPayerKept` |
| `ProcessedDecided` | `ProcessedIsDecided` |
| `ImplementsTimes` | `KeepsTimes`: `Spec` implements `SellerTimes` |

The argument. `Safe == Typed /\ Reserved /\ Charges /\ Sold` is inductive, one lemma per
conjunct and one step per action.

* `Typed` is `TypeOK`, and that a verifier at work has an attempt in hand (`JobKnown`).
* `Reserved`: active reservations never overlap, a confirmed booking's is active, and a
  quote is booked exactly when it is converted and its reservation is of kind booking.
  The clean-ups touch only holds (`PlaceHoldReserved`), and `TimeFree` guards each
  activation (`TimeKept`).
* `Charges`: Kora's charge is not open before the attempt was, and an answer that a
  verifier carries from before its lock is Kora's answer still if it was a final one
  (`VerdictStands`, `FinalStays`): that is why a late answer is harmless.
* `Sold` ties attempts, bookings and agreements: a booking is paid for by one attempt,
  whose charge was paid, and the agreement of a booked quote is converted. Without that
  last part `OneBookingPerOffer` is not inductive: it says nothing of an agreement that is
  sold already. `BookSold` is the step that matters.
* `PaidChargeAccounted` is inductive beside `Safe` (`AccountedStep`). An exception has a
  refund or an answer that did not fit, and the answer a verifier carries is Kora's, so that
  `RecordOnly` is right; that one refund at most is live is the index, which `RetryRefund`,
  `RetryByHand` and `RecordByHand` ask.
* `Events`: an event exists only for a finished charge, a worker's answer is the charge it
  works on, and a worker about to mark its event has a decided attempt if the charge took
  money. It makes `ProcessedIsDecided` inductive.
* `DecisionStands` follows from types alone (`DecisionStep`), by the writers of an
  attempt's state; `HoldOfPayerKept` from `Typed /\ Reserved` (`PayerStep`): every
  clean-up spares a hold in force with an attempt (`PlaceHoldSpares`), and an account is
  shown only when the attempt had been saved and the hold was in force after that.
* `ImplementsTimes` needs, beside `Typed` and `Reserved`, that a quote nobody has asked for
  holds nothing (`Unasked`). `OnlyTimesMove` sets aside the actions that touch no time; of
  the others, `PlaceHoldTakes`, `KeepTimeTakes`, `BookConfirms` and `LetGo` each name the
  step of `SellerTimes` they are. `FreeIsClear` says that the exclusion constraint, on
  `active` rows, sees everything that is in force.

`PayoutsProofs` proves, for all payouts, entitlements and shares, limits and numbers of
retries and faults, under `PayoutConstants` (amounts are positive, a share is at most its
entitlement, workers are not handlers):

| Theorem | Property | Assumes |
|---|---|---|
| `TypeCorrect` | `TypeOK` | nothing more |
| `BorneOnce` | `ShareBorneOnce` | `[][RefundsHold]_vars` |
| `HeldIsKept` | `HeldStays` | `[][RefundsHold]_vars` |
| `SentOnce` | `NeverSentTwice` | `[]Apart` |
| `PaidWasSent` | `PaidMeansSent` | `[]Apart` |
| `LedgerAgrees` | `LedgerMatchesPayout` | `[]NoticesApart` |
| `OwedIsTakenOrOpen` | `RecoveriesBalance` | the payouts are finitely many |

Any number of workers and handlers may run. What is assumed is the one thing each proof
needs and the code does not enforce: `RefundsHold`, that no refund fails between the two
reads of a release of its payout; `NoticesApart`, that no two notices of one payout are
handled at once; `Apart`, that besides no two workers are between reading a released payout
and recording what became of its transfer. A claim keeps workers apart while it lasts, and a
release ends it early. Behaviours outside these assumptions are disagreements 4, 5 and 6:
none of them can be dropped.

* Types alone are not inductive: that the recovery of a cancelled payout is at most its
  amount, 0, takes `Fresh` (no amounts before the release) and `Releasing` (a locked
  payout is scheduled, and locked once). `TakenBounds` is the arithmetic of a recovery.
* `ReleaseInv` adds `Kept` (what is locked is not held back until it is released: this is
  where `RefundsHold` is used) and `Liable`
  (a share is someone's from the moment there is a refund). `LeftOfPayout` then equates
  the sum a release takes with the share it should take.
* `SendInv` says what an agent knows of a transfer while it holds a payout without a
  lock: `Knows` (the payout is still processing under the reference the worker read, a
  refusal means nothing was sent, a failure is final) and `Noticed` for the handler.
  `Agrees` ties each payout to what Kora has under its references, `Booked` to the
  ledger. Steps that touch none of it are dealt with together (`StillOrMoving`,
  `StillKeeps`); the others have a lemma each.
* `OwedIsTakenOrOpen` is about two sums over all payouts. `Sums` has what it needs: a sum
  is an integer, a sum of zeros is 0 (`SumOfZeros`), and when one term changes the sum
  changes as much (`SumOfChanged`). Two steps move a term: a refund finalised after its
  payout had gone, and a release that recovers; `Fresh` and `Releasing` say that what the
  release writes over was 0. Any number of workers may run.

`Sums` is the one place with an induction. The induction theorems of the library take a
predicate, which the provers here cannot instantiate; but `WFMin`, that a non-empty set has
a minimal element, takes a set. The finite subsets of a set under inclusion are well
founded, so a set of subsets that has each one whose proper subsets it has is all of them
(`SubsetInduction`). From this the recursion behind `MapThenSumSet` has one solution
(`SumByRecursion`), and the facts above follow.

`SettlementProofs` proves, for all bookings, amounts, limits and faults, under
`SettlementConstants`:

| Theorem | Property | Assumes |
|---|---|---|
| `TypeCorrect` | `TypeOK` | nothing more |
| `ShareIsBorne` | `ShareBorne` | `[][RefundsHold]_vars` (no refund fails while the payout of its booking is being released) |
| `KoraPaysOneRefund` | `KoraPaysOnce` | `[]Apart` (no two workers are at one refund) |

* Types first, and with them the bounds on money: a refund is at most `Price + Fee` and its
  share at most `Price`, whoever decides its amount (`PlatformShare` rounds down and
  stays between). Each variable is kept by one lemma per group of actions. That `overdue`
  stays a sequence of bookings is the one fact about a sequence: taking out the first place
  of a booking moves the later ones up.
* `ShareInv`: before the release every share is `payable`, after it exactly those that were
  counted are (`SharesSettled`); whoever works on a refund works on one there is
  (`AgentsKnow`); and a payout that is being released is scheduled, locked once and not held. `NextChange` says once what all actions do to `refunds`: one is worked on
  or created, or a payout is released.
* `KoraInv`: one refund of a booking is live (`OneLive`, the index), and while nothing has
  failed what Kora has is live (`PaidLive`), because a worker that fails a refund, or sends
  one, still knows what it was told (`KoraKnows`) and an operator's record is not in the
  queue (`OperatorRecorded`). `Way` is what may become of a refund's state while no worker
  touches it. Without `KoraKnows` a refund could be failed that Kora has, and replaced.

`OutboxProofs` proves, under `OutboxConstants` and `NoMessage`:

| Theorem | Property |
|---|---|
| `TypeCorrect` | `TypeOK` |
| `ReminderNames` | `ReminderNamesItsTime` |
| `PushedOnceEach` | `PushedOnce` |
| `OutboxIsJobQueue` | `IsJobQueue`: `Spec` implements `JobQueue` |

* `MailInv`: an open reminder is for the booking's time (`OpenForItsTime`: a move withdraws
  those of the old time), and so is what a worker has read (`ReadForItsTime`); what was
  accepted had been queued, and a worker that was told so is right (`WorkerSound`).
* The refinement: initial states map to initial states (`QueueInit`), and under `MailInv`
  every step moves each email by one of the ways of `Fate`, which `JobQueue` permits
  (`QueueStep`).
* `PushInv`: as long as nothing failed, what was claimed is with one worker (`PushOrder`).

`SellerCalendarProofs` proves, under `CalendarConstants`:

| Theorem | Property | Assumes |
|---|---|---|
| `TypeCorrect` | `TypeOK` (in no run) | nothing more |
| `ConfirmedApart` | `BookedTimesApart` | nothing more |
| `ShownIsHoldable` | `ShownCanBeHeld` | `Shift <= 0` (the clock is not moved forward on that date) |
| `LinkStays` | `SellersLinkStays` | nothing more |
| `EventsMatch` | `EventMatchesBooking` | `[]Apart` (no two workers have jobs of one booking in hand) |
| `ImplementsTimes` | `KeepsTimes`: `Spec` implements `SellerTimes` | nothing more |

* `TimesInv`: active reservations are apart and a confirmed booking has reserved its own
  time (`TimesMeant`); `ReserveApart` is the lemma about taking a time after the sweep of
  lapsed holds. `WorkTyped` adds what the workers hold.
* `ShownIsHoldable` compares two computations in one state and rests on `ListedIsWithin`:
  a time the page reaches by adding minutes lies between the instants at which its window
  begins and ends. That takes arithmetic on the moved clock: with `Shift <= 0` the clock
  shows at most what has passed, and the latest of two instants that show the window's end
  is the one to name. With `Shift > 0` it is false (disagreement 15).
* `EventInv`, for what becomes of Google's calendar. `EventMatchesBooking` only speaks when
  all jobs are done, so the invariant has to carry what makes it true until then:
  `NothingMissed` (while the calendar is linked and a booking has no job in the queue, what
  the worker that has its jobs in hand has read of it is right still, and what it is about to
  close agrees with Google), `DoneRight` (the same once nobody works on it), `InHand` (a job being worked on
  is claimed, once) and `Asked` (what is asked of Google follows from what was read).
  `Unbroken` is for cancellations: as long as nothing broke, a booking knows of its event,
  so that a cancellation queues its removal. Disagreement 10 is a behaviour outside it.
  Every change of a booking leaves a job in the queue (`ChangeQueued`). That needs a free
  number for it, and therefore that the jobs of a booking are numbered `1 .. n`
  (`CalendarConstants`, `NextFree`).
* `Apart` is what two workers break: the slower of two can write an older time last. Workers
  that have jobs of different bookings in hand do not disturb each other (`OthersAlone`).
* `ImplementsTimes`: as in `ConversionProofs`, from `TimesInv`, and `Unreserved`: a booking
  that has reserved nothing has no time. `SweepTakes` is the step that releases lapsed holds
  and takes their place; `PaymentConfirms` is a payment, in time or late.

`SellerTimesProofs` proves `PromisedApart`: `SellerTimes` by itself keeps what is held and
booked apart, if of two times that meet each meets the other. With the two refinements,
this is the argument for double booking in its shortest form.

`AccountsProofs` proves, under the assumptions of the three modules, of each component by
itself and of the composition:

| Theorem | Says |
|---|---|
| `OffersAgreedAsShown` | `OffersSpec` keeps `AgreedAsShown` |
| `AnnouncementsOver` | `AnnouncementsSpec` keeps `OverIsOver` |
| `ImplementsOffers`, `ImplementsAnnouncements` | every step of `Accounts` is one of `Offers`, and of `Announcements`, or a stutter |
| `SafeAgreedAsShown`, `SafeOverIsOver` | hence both hold with accounts and deletions |
| `SafeOneEmailEach` | `OneEmailEach` |
| `SafeDeletedIsErased` | `DeletedIsErased` |
| `TypeCorrect` | `TypeOK` |

* `OffersInv` adds whose turn it is (`Turns`); `NewsInv` that a sender at work holds a queued
  delivery nobody else holds (`AtWork`), that deliveries are queued only while the
  announcement is being sent (`QueuedInTime`), and what the operator counted.
* `MailedByFaults`: an outstanding email was mailed before only by failures.
* `PeopleInv`: an account has one address, a request that is under way is of the account of
  its address unless that was deleted, and a deleted account has neither (`OneAccount`). It
  tells which late requests are marked, and makes `Erased` inductive: a deleted account has
  no open or named offer, and an address without an account is on no list, but for `late`.

Model-checked only: liveness (`PaidIsSettled`, `ReleasedIsPaid`, `ReportSettled`,
`ProblemAnswered`, `RefundEnds`, `MailEnds`, `JobsEnd`, `AnnouncementEnds`), which is beyond
this prover. Every invariant and every action property of a passing run is a theorem.

## Not modelled

* Amounts in `Conversion` (paid in full or not); fees and the split of a price; formats,
  wording, mail transports, files, pages, settlement imports, read models, the local payment
  simulator, account verification at Kora, Google's OAuth exchange.
* Which windows a date has (weekly hours, exceptions) and the rules of time zones: `Hours`
  takes the windows of one date and at most one change of its clock.
* Rate limits (one atomic script in Redis, one mutex otherwise) and the watchdog (queries
  against thresholds under one lock, which change nothing the others read).
* Reviews and cancellation requests: single statements that touch neither the booking nor
  its money.
* Retention, which deletes rows by age; the sweep for missing payments; the hourly limits of
  codes; the bookings in a guest session's scope and single-use links to other devices.
* The times of two sellers: everything is per seller or per booking, and no constraint of
  the database reaches further.
* Row locks and deadlocks: a transaction that takes its locks and commits is one action, or
  several where it reads without a lock. PostgreSQL breaks a deadlock by failing one of the
  two, which the failures of the models include.

`PROJECT.json` gives each part its status and the reason.

## What could follow

`Settlement` has a booking of its own, which is tied to those of `Conversion` and
`SellerCalendar` by nothing yet: an abstract booking, paid, moved and cancelled, would be
to it what `SellerTimes` is to times. Emails about offers and payouts go through the statements of `Outbox` and could be
added as kinds. A fix of disagreements 4 to 7 can be tried on the model: the property then
moves to a passing run, and the assumption of its theorem goes. In `Conversion` two checkouts
that compute the same reference are still apart.
