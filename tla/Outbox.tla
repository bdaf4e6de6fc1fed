-------------------------------- MODULE Outbox --------------------------------
(***************************************************************************)
(* The messages about one booking: emails in notification_outbox and       *)
(* browser notifications in push_outbox.                                   *)
(*                                                                         *)
(* Every message has a key; queueing it again does nothing.  Workers of    *)
(* several API instances claim what is due: an email is theirs for five    *)
(* minutes and its provider drops a repetition, a notification comes back  *)
(* after two minutes and nobody drops it.  Meanwhile the booking is moved, *)
(* cancelled or refunded, and its time comes.                              *)
(***************************************************************************)
EXTENDS Integers, FiniteSets, FiniteSetsExt

CONSTANTS
    None,
    Workers,        \* email workers, one per API instance
    Pushers,        \* notification workers, one per API instance
    Kinds,          \* the kinds of email looked at
    Starts,         \* times the booking may be moved to
    Horizon,        \* bound: the last moment of the clock
    Lead,           \* how long before the start a reminder is due
    Batch,          \* the batch of ClaimDueNotifications
    MaxTries,       \* the attempts of an email
    MaxAuto,        \* len(autoRetryLadder)
    MaxPushTries,   \* the attempts of a notification
    MaxMoves,       \* bound: how often the booking is moved
    MaxFaults       \* bound: lost answers, outages, stopped and slow workers

ASSUME OutboxConstants ==
    /\ Horizon \in Nat /\ Lead \in Nat \ {0}
    /\ Starts \subseteq Nat \ {0} /\ Starts # {}
    /\ Batch \in Nat \ {0} /\ MaxTries \in Nat \ {0} /\ MaxAuto \in Nat
    /\ MaxPushTries \in Nat \ {0} /\ MaxMoves \in Nat /\ MaxFaults \in Nat

Message(kind, key) == [kind |-> kind, key |-> key]

Mails ==
    {m \in {Message("confirmed", 0), Message("cancelled", 0)}
           \cup {Message(kind, s) : kind \in {"reminder", "review"}, s \in Starts}
           \cup {Message("moved", n) : n \in 1 .. MaxMoves} : m.kind \in Kinds}

Pushes == {Message("new", 0)} \cup {Message("soon", s) : s \in Starts}

ASSUME NoMessage == None \notin Mails /\ None \notin Pushes /\ None \notin Nat

VARIABLES
    now,
    booking,        \* its start, its state, how often it was moved
    mail,           \* notification_outbox; "lapsed" is being processed under a
                    \* claim older than five minutes
    accepted,       \* what the provider accepted: the time it names, or None
    worker,         \* the emails of its batch, the one it is sending
    push,           \* push_outbox
    back,           \* claimed notifications that are due again
    browser,        \* whether the recipient has one subscribed
    shown,          \* how often a notification was shown
    pusher,
    faults

bookingVars == <<now, booking>>
mailVars == <<mail, accepted, worker>>
pushVars == <<push, back, browser, shown, pusher>>
vars == <<bookingVars, mailVars, pushVars, faults>>

MailStates == {"none", "queued", "processing", "lapsed", "sent", "cancelled", "failed"}
PushStates == {"none", "queued", "sent", "skipped", "failed"}

Waiting == [pc |-> "idle", batch |-> {}, job |-> None, about |-> None, ok |-> FALSE]
AtRest == [pc |-> "idle", tried |-> [j \in {} |-> 0], job |-> None, result |-> "queued"]

TypeOK ==
    /\ now \in 0 .. Horizon
    /\ booking \in [start : Starts, state : {"confirmed", "cancelled", "refunded"},
                    moves : 0 .. MaxMoves]
    /\ mail \in [Mails -> [state : MailStates, tries : 0 .. MaxTries, auto : 0 .. MaxAuto]]
    /\ accepted \in [Mails -> Nat \cup {None}]
    /\ worker \in [Workers -> [pc : {"idle", "batch", "read", "answered"},
                               batch : SUBSET Mails, job : Mails \cup {None},
                               about : Nat \cup {None}, ok : BOOLEAN]]
    /\ push \in [Pushes -> [state : PushStates, tries : Nat]]
    /\ back \subseteq Pushes
    /\ browser \in BOOLEAN
    /\ shown \in [Pushes -> Nat]
    /\ \A p \in Pushers :
        /\ pusher[p].pc \in {"idle", "batch", "answered"}
        /\ DOMAIN pusher[p].tried \subseteq Pushes
        /\ pusher[p].job \in Pushes \cup {None}
        /\ pusher[p].result \in PushStates
    /\ faults \in 0 .. MaxFaults

NoMail == [state |-> "none", tries |-> 0, auto |-> 0]
Queued == [NoMail EXCEPT !.state = "queued"]

\* The first messages are queued by the transaction that makes the booking.
Init ==
    /\ now = 0
    /\ booking \in [start : Starts, state : {"confirmed"}, moves : {0}]
    /\ mail = [m \in Mails |->
            IF \/ m \in {Message("confirmed", 0), Message("review", booking.start)}
               \/ m = Message("reminder", booking.start) /\ booking.start > Lead
            THEN Queued ELSE NoMail]
    /\ accepted = [m \in Mails |-> None]
    /\ worker = [w \in Workers |-> Waiting]
    /\ browser \in BOOLEAN
    /\ push = [p \in Pushes |-> [state |-> IF p.kind = "new" /\ browser THEN "queued"
                                           ELSE "none", tries |-> 0]]
    /\ back = {}
    /\ shown = [p \in Pushes |-> 0]
    /\ pusher = [p \in Pushers |-> AtRest]
    /\ faults = 0

Fault == faults < MaxFaults /\ faults' = faults + 1

-------------------------------------------------------------------------------
(* The booking. *)

Upcoming == booking.state = "confirmed" /\ booking.start > now

Tick ==
    /\ now < Horizon /\ now' = now + 1
    /\ UNCHANGED <<booking, mailVars, pushVars, faults>>

\* When a message is due: some depend on the start they were queued for.
DueAt(m) ==
    CASE m.kind = "reminder" -> m.key - Lead
      [] m.kind = "review" -> m.key + 1
      [] OTHER -> 0

\* A message that has its key already is not queued again.
Enqueued(m) == IF mail[m].state = "none" THEN Queued ELSE mail[m]

\* CancelPendingBookingReminders: those being delivered too.
TimeBound == {"reminder", "review"}

Processing(m) == mail[m].state \in {"processing", "lapsed"}

\* Mutant: reminders that a worker has claimed are left alone.
WithdrawnUnclaimed(m) == m.kind \in TimeBound /\ mail[m].state = "queued"

WithdrawnByMove(m) == m.kind \in TimeBound /\ (mail[m].state = "queued" \/ Processing(m))

\* The reminders of the new time; one that is due already is left out.
NewlyQueued(m, s, n) ==
    \/ m = Message("reminder", s) /\ DueAt(m) > now
    \/ m \in {Message("review", s), Message("moved", n)}

\* Everything that is open is withdrawn before the new ones are queued.
QueuedByMove(m, s, n) ==
    IF WithdrawnByMove(m) THEN [mail[m] EXCEPT !.state = "cancelled"]
    ELSE IF NewlyQueued(m, s, n) THEN Enqueued(m)
    ELSE mail[m]

AcceptReschedule(s) ==
    LET n == booking.moves + 1 IN
    /\ Upcoming /\ s # booking.start /\ s > now /\ booking.moves < MaxMoves
    /\ booking' = [booking EXCEPT !.start = s, !.moves = n]
    /\ mail' = [m \in Mails |-> QueuedByMove(m, s, n)]
    /\ UNCHANGED <<now, accepted, worker, pushVars, faults>>

\* CancelUpcomingBookingMail: only what nobody has claimed.
WithdrawnByCancel(m) == m.kind \in TimeBound /\ mail[m].state = "queued"

ApplyCancellation ==
    /\ Upcoming
    /\ booking' = [booking EXCEPT !.state = "cancelled"]
    /\ mail' = [m \in Mails |->
            IF m.kind = "cancelled" THEN Enqueued(m)
            ELSE IF WithdrawnByCancel(m) THEN [mail[m] EXCEPT !.state = "cancelled"]
            ELSE mail[m]]
    /\ UNCHANGED <<now, accepted, worker, pushVars, faults>>

FinalizeRefund ==
    /\ booking.state = "cancelled"
    /\ booking' = [booking EXCEPT !.state = "refunded"]
    /\ UNCHANGED <<now, mailVars, pushVars, faults>>

-------------------------------------------------------------------------------
(* Emails. *)

\* Mutant: an expired claim is not taken up.
ClaimableUnclaimed ==
    {m \in Mails : mail[m].tries < MaxTries /\ mail[m].state = "queued" /\ DueAt(m) <= now}

Claimable ==
    {m \in Mails :
        /\ mail[m].tries < MaxTries
        /\ \/ mail[m].state = "queued" /\ DueAt(m) <= now
           \/ mail[m].state = "lapsed"}

\* FailExhaustedNotifications
Exhausted(m) == mail[m].tries >= MaxTries /\ (mail[m].state = "queued" \/ Processing(m))

\* Retries are put off by a backoff, so any may be the first to be due again.
NextBatch(B) ==
    /\ B \subseteq Claimable
    /\ Cardinality(B) = Min({Batch, Cardinality(Claimable)})

ProcessNotificationBatch(w) ==
    /\ worker[w].pc = "idle"
    /\ \E B \in SUBSET Mails :
        /\ NextBatch(B)
        /\ B # {} \/ \E m \in Mails : Exhausted(m)
        /\ mail' = [m \in Mails |->
                IF Exhausted(m) THEN [mail[m] EXCEPT !.state = "failed"]
                ELSE IF m \in B
                THEN [mail[m] EXCEPT !.state = "processing", !.tries = @ + 1]
                ELSE mail[m]]
        /\ worker' = [worker EXCEPT ![w] = IF B = {} THEN Waiting
                                           ELSE [Waiting EXCEPT !.pc = "batch", !.batch = B]]
    /\ UNCHANGED <<bookingVars, accepted, pushVars, faults>>

\* bookingEmail: what is not to be sent any more.
Stale(m) ==
    CASE m.kind = "reminder" -> ~Upcoming
      [] m.kind = "review" -> booking.state # "confirmed"
      [] m.kind = "cancelled" -> booking.state = "confirmed"
      [] OTHER -> FALSE

\* A confirmation needs the payment it confirms.
Unverified(m) == m.kind = "confirmed" /\ booking.state = "refunded"

\* Back to the worker's batch; idle once it is empty.
Done(w) ==
    LET rest == worker[w].batch IN
    worker' = [worker EXCEPT ![w] = IF rest = {} THEN Waiting
                                    ELSE [Waiting EXCEPT !.pc = "batch", !.batch = rest]]

\* The time an email names, as far as it is looked at.
Named(m) == IF m.kind \in TimeBound THEN booking.start ELSE m.key

TakeUp(w, m) ==
    LET rest == worker[w].batch \ {m} IN
    worker' = [worker EXCEPT ![w] = [pc |-> "read", batch |-> rest, job |-> m,
                                     about |-> Named(m), ok |-> FALSE]]

LeaveOut(w, m) ==
    LET rest == worker[w].batch \ {m} IN
    worker' = [worker EXCEPT ![w] = IF rest = {} THEN Waiting
                                    ELSE [@ EXCEPT !.batch = rest]]

\* Mutant: a failure is recorded whatever has become of the email.
MarkFailedAnyway(m) ==
    mail' = [mail EXCEPT ![m].state = IF mail[m].tries >= MaxTries THEN "failed" ELSE "queued"]

\* MarkNotificationFailed, MarkNotificationSent and MarkNotificationCancelled
\* leave alone what is not being processed.
MarkFailed(m) ==
    mail' = IF ~Processing(m) THEN mail
            ELSE [mail EXCEPT ![m].state = IF mail[m].tries >= MaxTries THEN "failed"
                                           ELSE "queued"]

MarkSent(m) ==
    mail' = IF ~Processing(m) THEN mail
            ELSE [mail EXCEPT ![m].state = "sent"]

\* NotificationTarget and NotificationContext, from which the email is written.
ReadContext(w, m) ==
    /\ worker[w].pc = "batch" /\ m \in worker[w].batch
    /\ \/ ~Processing(m) /\ LeaveOut(w, m) /\ UNCHANGED mail
       \/ /\ Processing(m) /\ Stale(m)
          /\ mail' = [mail EXCEPT ![m].state = "cancelled"]
          /\ LeaveOut(w, m)
       \/ /\ Processing(m) /\ Unverified(m)
          /\ MarkFailed(m) /\ LeaveOut(w, m)
       \/ /\ Processing(m) /\ ~Stale(m) /\ ~Unverified(m)
          /\ TakeUp(w, m) /\ UNCHANGED mail
    /\ UNCHANGED <<bookingVars, accepted, pushVars, faults>>

\* The provider accepts an email once, under the id of its job.
Accept(w) ==
    LET m == worker[w].job IN
    accepted' = [accepted EXCEPT ![m] = IF @ = None THEN worker[w].about ELSE @]

DeliverEmail(w) ==
    /\ worker[w].pc = "read"
    /\ \/ Accept(w) /\ worker' = [worker EXCEPT ![w].pc = "answered", ![w].ok = TRUE]
          /\ UNCHANGED faults
       \/ \* refused, or the answer is lost
          /\ Fault /\ worker' = [worker EXCEPT ![w].pc = "answered"]
          /\ Accept(w) \/ UNCHANGED accepted
    /\ UNCHANGED <<bookingVars, mail, pushVars>>

FinishNotification(w) ==
    /\ worker[w].pc = "answered"
    /\ IF worker[w].ok THEN MarkSent(worker[w].job) ELSE MarkFailed(worker[w].job)
    /\ Done(w)
    /\ UNCHANGED <<bookingVars, accepted, pushVars, faults>>

WorkerStops(w) ==
    /\ worker[w].pc # "idle" /\ Fault
    /\ worker' = [worker EXCEPT ![w] = Waiting]
    /\ UNCHANGED <<bookingVars, mail, accepted, pushVars>>

HeldByWorker(m) == \E w \in Workers : m \in worker[w].batch \cup {worker[w].job}

\* Five minutes pass: of course when the worker has stopped, and also when it
\* is slow.
ClaimLapses(m) ==
    /\ mail[m].state = "processing"
    /\ IF HeldByWorker(m) THEN Fault ELSE UNCHANGED faults
    /\ mail' = [mail EXCEPT ![m].state = "lapsed"]
    /\ UNCHANGED <<bookingVars, accepted, worker, pushVars>>

\* Mutant: the ladder has no end.
AutoRetryWithoutEnd(m) ==
    /\ mail[m].state = "failed"
    /\ mail' = [mail EXCEPT ![m] = [state |-> "queued", tries |-> 0, auto |-> @.auto + 1]]
    /\ UNCHANGED <<bookingVars, accepted, worker, pushVars, faults>>

AutoRetryFailures(m) ==
    /\ mail[m].state = "failed" /\ mail[m].auto < MaxAuto
    /\ mail' = [mail EXCEPT ![m] = [state |-> "queued", tries |-> 0, auto |-> @.auto + 1]]
    /\ UNCHANGED <<bookingVars, accepted, worker, pushVars, faults>>

-------------------------------------------------------------------------------
(* Browser notifications. *)

SetBrowser ==
    /\ browser' = ~browser
    /\ UNCHANGED <<bookingVars, mailVars, push, back, shown, pusher, faults>>

Soon(s) == s - now \in 1 .. Lead

\* Each cycle queues what starts soon, once for each start time.
RemindSoon ==
    LET j == Message("soon", booking.start) IN
    /\ booking.state = "confirmed" /\ Soon(booking.start) /\ browser
    /\ push[j].state = "none"
    /\ push' = [push EXCEPT ![j].state = "queued"]
    /\ UNCHANGED <<bookingVars, mailVars, back, browser, shown, pusher, faults>>

HeldByPusher(j) == \E p \in Pushers : j \in DOMAIN pusher[p].tried \cup {pusher[p].job}

\* Mutant: a claim does not put off the notification.
DueThoughClaimed == {j \in Pushes : push[j].state = "queued"}

DuePushes == {j \in Pushes : push[j].state = "queued"
                             /\ (j \in back \/ push[j].tries = 0)}

\* A claim is nothing but a due date two minutes away.
ClaimPushes(p) ==
    /\ pusher[p].pc = "idle" /\ DuePushes # {}
    /\ push' = [j \in Pushes |-> IF j \in DuePushes THEN [push[j] EXCEPT !.tries = @ + 1]
                                 ELSE push[j]]
    /\ back' = back \ DuePushes
    /\ pusher' = [pusher EXCEPT ![p] = [AtRest EXCEPT !.pc = "batch",
                        !.tried = [j \in DuePushes |-> push[j].tries + 1]]]
    /\ UNCHANGED <<bookingVars, mailVars, browser, shown, faults>>

\* Two minutes pass.
PushDueAgain(j) ==
    /\ push[j].state = "queued" /\ push[j].tries > 0 /\ j \notin back
    /\ IF HeldByPusher(j) THEN Fault ELSE UNCHANGED faults
    /\ back' = back \cup {j}
    /\ UNCHANGED <<bookingVars, mailVars, push, browser, shown, pusher>>

\* A call that has just begun may still be announced; how far away it is, is
\* not asked.
Pointless(j) ==
    \/ booking.state # "confirmed"
    \/ j.kind = "new" /\ booking.start <= now
    \/ j.kind = "soon" /\ booking.start < now

Answer(p, j, result) ==
    pusher' = [pusher EXCEPT ![p] = [pc |-> "answered", job |-> j, result |-> result,
            tried |-> [k \in DOMAIN @.tried \ {j} |-> @.tried[k]]]]

\* The last attempt is the last, as this worker counted when it claimed.
Again(p, j) == IF pusher[p].tried[j] >= MaxPushTries THEN "failed" ELSE "queued"

DeliverPush(p, j) ==
    /\ pusher[p].pc = "batch" /\ j \in DOMAIN pusher[p].tried
    /\ \/ /\ Pointless(j) \/ ~browser
          /\ Answer(p, j, "skipped") /\ UNCHANGED <<browser, shown, faults>>
       \/ /\ ~Pointless(j) /\ browser
          /\ \/ Answer(p, j, "sent") /\ shown' = [shown EXCEPT ![j] = @ + 1]
                /\ UNCHANGED <<browser, faults>>
             \/ \* the subscription is gone
                Answer(p, j, "skipped") /\ browser' = FALSE /\ UNCHANGED <<shown, faults>>
             \/ Fault /\ Answer(p, j, Again(p, j)) /\ UNCHANGED <<browser, shown>>
    /\ UNCHANGED <<bookingVars, mailVars, push, back>>

\* Whatever has become of it meanwhile.
FinishPush(p) ==
    LET j == pusher[p].job IN
    /\ pusher[p].pc = "answered"
    /\ push' = IF pusher[p].result = "queued" THEN push
               ELSE [push EXCEPT ![j].state = pusher[p].result]
    /\ pusher' = [pusher EXCEPT ![p] = IF DOMAIN @.tried = {} THEN AtRest
                    ELSE [AtRest EXCEPT !.pc = "batch", !.tried = pusher[p].tried]]
    /\ UNCHANGED <<bookingVars, mailVars, back, browser, shown, faults>>

PusherStops(p) ==
    /\ pusher[p].pc # "idle" /\ Fault
    /\ pusher' = [pusher EXCEPT ![p] = AtRest]
    /\ UNCHANGED <<bookingVars, mailVars, push, back, browser, shown>>

-------------------------------------------------------------------------------

Booking == Tick \/ ApplyCancellation \/ FinalizeRefund \/ \E s \in Starts : AcceptReschedule(s)

MailWorker(w) ==
    \/ ProcessNotificationBatch(w) \/ DeliverEmail(w) \/ FinishNotification(w)
    \/ \E m \in Mails : ReadContext(w, m)

PushWorker(p) ==
    \/ ClaimPushes(p) \/ FinishPush(p)
    \/ \E j \in Pushes : DeliverPush(p, j)

Next ==
    \/ Booking \/ SetBrowser \/ RemindSoon
    \/ \E w \in Workers : MailWorker(w) \/ WorkerStops(w)
    \/ \E m \in Mails : ClaimLapses(m) \/ AutoRetryFailures(m)
    \/ \E p \in Pushers : PushWorker(p) \/ PusherStops(p)
    \/ \E j \in Pushes : PushDueAgain(j)

Spec == Init /\ [][Next]_vars

\* As long as the clock can go on, a worker has something to do or a claim can
\* expire, one of these happens: the workers are restarted when they stop.
Progress ==
    \/ Tick
    \/ \E w \in Workers : MailWorker(w)
    \/ \E m \in Mails : ClaimLapses(m)

FairSpec == Spec /\ WF_vars(Progress)

-------------------------------------------------------------------------------
(* Properties. *)

JobStatus(m) ==
    IF mail[m].state = "queued" \/ Processing(m) THEN "open" ELSE mail[m].state

Queue == INSTANCE JobQueue WITH
    Jobs <- Mails,
    MaxReopen <- MaxAuto,
    status <- [m \in Mails |-> JobStatus(m)],
    reopened <- [m \in Mails |-> mail[m].auto],
    delivered <- {m \in Mails : accepted[m] # None}

\* The outbox is a queue of jobs: through expired claims, two instances, moves
\* and cancellations an email is decided once, is marked sent only when the
\* provider has it, and reopened by the automatic retry alone.
IsJobQueue == Queue!JobSpec

\* Until the automatic retry brings it back, a reminder names the time it was
\* queued for, however the booking moves and is cancelled around its workers.
ReminderNamesItsTime ==
    \A m \in Mails :
        m.kind = "reminder" /\ mail[m].auto = 0 /\ accepted[m] # None =>
            accepted[m] = m.key

\* Without a failure, two instances show a notification once.
PushedOnce ==
    faults = 0 => \A j \in Pushes : shown[j] <= 1

\* An email that is due is sent, withdrawn or given up in the end, also when its
\* worker stopped: again and again nothing due is left open.
MailEnds ==
    []<>(\A m \in Mails : ~Processing(m) /\ (mail[m].state = "queued" => DueAt(m) > now))

\* After a move, the reminders of the new time are queued, unless they are due
\* already.
RemindersQueued ==
    [][\A s \in Starts :
        AcceptReschedule(s) /\ s - Lead > now =>
            mail'[Message("reminder", s)].state = "queued"]_vars

===============================================================================
