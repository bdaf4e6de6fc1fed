----------------------------- MODULE OutboxProofs -----------------------------
(***************************************************************************)
(* That the outbox is a queue of jobs and that a reminder names its own    *)
(* time, for any messages, workers, times and limits.                      *)
(***************************************************************************)
EXTENDS Outbox, TLAPS

BookingType == [start : Starts, state : {"confirmed", "cancelled", "refunded"},
                moves : 0 .. MaxMoves]
MailType == [state : MailStates, tries : 0 .. MaxTries, auto : 0 .. MaxAuto]
WorkerType == [pc : {"idle", "batch", "read", "answered"}, batch : SUBSET Mails,
               job : Mails \cup {None}, about : Nat \cup {None}, ok : BOOLEAN]

MailTyped ==
    /\ now \in 0 .. Horizon
    /\ booking \in BookingType
    /\ mail \in [Mails -> MailType]
    /\ \A m \in Mails : mail[m].state = "none" => mail[m].auto = 0
    /\ accepted \in [Mails -> Nat \cup {None}]
    /\ worker \in [Workers -> WorkerType]

\* A worker has only emails that were queued; one it is sending names a time, and
\* what it was told is accepted is.
WorkerSound(w) ==
    /\ \A m \in worker[w].batch : mail[m].state # "none"
    /\ worker[w].pc \in {"read", "answered"} =>
        /\ worker[w].job \in Mails /\ mail[worker[w].job].state # "none"
        /\ worker[w].about \in Nat
    /\ worker[w].pc = "read" => ~worker[w].ok
    /\ worker[w].pc = "answered" /\ worker[w].ok => accepted[worker[w].job] # None

AcceptedQueued == \A m \in Mails : accepted[m] # None => mail[m].state # "none"

Open(m) == mail[m].state \in {"queued", "processing", "lapsed"}

\* Reminders that are open are for the booking's time, unless the automatic retry
\* brought them back.
OpenForItsTime ==
    \A m \in Mails : m.kind = "reminder" /\ mail[m].auto = 0 /\ Open(m) =>
        m.key = booking.start

\* So is what a worker has read of the booking.
ReadForItsTime(w) ==
    worker[w].pc \in {"read", "answered"} /\ worker[w].job.kind = "reminder"
    /\ mail[worker[w].job].auto = 0 => worker[w].about = worker[w].job.key

MailInv ==
    /\ MailTyped
    /\ \A w \in Workers : WorkerSound(w) /\ ReadForItsTime(w)
    /\ AcceptedQueued
    /\ OpenForItsTime
    /\ ReminderNamesItsTime

-------------------------------------------------------------------------------

\* What becomes of an email in one step.
Fate(m) ==
    \/ /\ JobStatus(m)' = JobStatus(m) /\ mail'[m].auto = mail[m].auto
    \/ /\ mail[m].state = "none" /\ mail'[m].state = "queued"
       /\ mail'[m].auto = mail[m].auto
    \/ /\ Open(m) /\ mail'[m].state \in {"cancelled", "failed"}
       /\ mail'[m].auto = mail[m].auto
    \/ /\ Open(m) /\ mail'[m].state = "sent" /\ accepted[m] # None
       /\ mail'[m].auto = mail[m].auto
    \/ /\ mail[m].state = "failed" /\ mail'[m].state = "queued" /\ mail[m].auto < MaxAuto
       /\ mail'[m].auto = mail[m].auto + 1

\* What a step does to the emails, apart from what it does to the booking.
MailStep ==
    /\ mail' \in [Mails -> MailType]
    /\ accepted' \in [Mails -> Nat \cup {None}]
    /\ \A m \in Mails : Fate(m)
    /\ \A m \in Mails : accepted[m] # None => accepted'[m] = accepted[m]
    /\ \A m \in Mails : accepted'[m] # None => accepted[m] # None \/ mail[m].state # "none"

LEMMA Untouched ==
    ASSUME NEW m \in Mails, mail'[m] = mail[m]
    PROVE  Fate(m)
BY DEF Fate, JobStatus, Processing

LEMMA OneMore ==
    ASSUME NEW most \in Nat, NEW n \in 0 .. most, n < most
    PROVE  n + 1 \in 0 .. most
OBVIOUS

LEMMA KeyIsTime == \A m \in Mails : m.key \in Nat
BY OutboxConstants DEF Mails, Message

LEMMA KindsOfMail ==
    \A m \in Mails : m \in [kind : {"confirmed", "cancelled", "reminder", "review", "moved"},
                            key : Nat]
BY OutboxConstants DEF Mails, Message

\* Nothing happens to the emails.
LEMMA NothingMailed ==
    ASSUME MailTyped, UNCHANGED <<mail, accepted>>
    PROVE  MailStep
BY DEF MailStep, MailTyped, Fate, JobStatus, Processing

\* Every email takes one of the ways of Fate, and the provider is not asked.
LEMMA MailSteps ==
    ASSUME MailTyped, UNCHANGED accepted, mail' = [m \in Mails |-> mail'[m]],
           \A m \in Mails : mail'[m] \in MailType /\ Fate(m)
    PROVE  MailStep
BY DEF MailStep, MailTyped

-------------------------------------------------------------------------------
(* The ways of each action. *)

LEMMA MoveMail ==
    ASSUME MailTyped, NEW s \in Starts, AcceptReschedule(s)
    PROVE  MailStep
<1>1. PICK n : UNCHANGED accepted /\ mail' = [m \in Mails |-> QueuedByMove(m, s, n)]
  BY DEF AcceptReschedule
<1>2. ASSUME NEW m \in Mails PROVE mail'[m] \in MailType /\ Fate(m)
  <2>1. /\ mail[m] \in MailType /\ mail'[m] = QueuedByMove(m, s, n)
        /\ mail[m].state = "none" => mail[m].auto = 0
    BY <1>1 DEF MailTyped
  <2>2. CASE WithdrawnByMove(m)
    <3>1. mail'[m] = [mail[m] EXCEPT !.state = "cancelled"] /\ Open(m)
      BY <2>1, <2>2 DEF QueuedByMove, WithdrawnByMove, Open, Processing
    <3>2. mail'[m].state = "cancelled" /\ mail'[m].auto = mail[m].auto /\ mail'[m] \in MailType
      BY <2>1, <3>1 DEF MailType, MailStates
    <3> QED BY <3>1, <3>2 DEF Fate
  <2>3. CASE ~WithdrawnByMove(m)
    <3>1. mail'[m] = mail[m] \/ (mail[m].state = "none" /\ mail'[m] = Queued)
      <4>1. mail'[m] = IF NewlyQueued(m, s, n) THEN Enqueued(m) ELSE mail[m]
        BY <2>1, <2>3 DEF QueuedByMove
      <4>2. CASE NewlyQueued(m, s, n)
        BY <4>1, <4>2 DEF NewlyQueued, Enqueued
      <4>3. CASE ~NewlyQueued(m, s, n)
        BY <4>1, <4>3 DEF NewlyQueued
      <4> QED BY <4>2, <4>3
    <3>2. CASE mail'[m] = mail[m]
      BY <2>1, <3>2 DEF Fate, JobStatus, Processing
    <3>3. CASE mail[m].state = "none" /\ mail'[m] = Queued
      BY <2>1, <3>3, OutboxConstants DEF Fate, Queued, NoMail, MailType, MailStates
    <3> QED BY <3>1, <3>2, <3>3
  <2> QED BY <2>2, <2>3
<1> QED BY <1>1, <1>2, MailSteps

\* Reminders are queued by a move alone.
NoNewReminder ==
    \A m \in Mails : m.kind = "reminder" /\ mail[m].state = "none" => mail'[m] = mail[m]

LEMMA CancelMail ==
    ASSUME MailTyped, ApplyCancellation
    PROVE  MailStep /\ NoNewReminder
<1>1. /\ UNCHANGED accepted
      /\ mail' = [m \in Mails |->
            IF m.kind = "cancelled" THEN Enqueued(m)
            ELSE IF WithdrawnByCancel(m) THEN [mail[m] EXCEPT !.state = "cancelled"]
            ELSE mail[m]]
  BY DEF ApplyCancellation
<1>2. ASSUME NEW m \in Mails
      PROVE  /\ mail'[m] \in MailType /\ Fate(m)
             /\ m.kind = "reminder" /\ mail[m].state = "none" => mail'[m] = mail[m]
  <2>1. mail[m] \in MailType /\ (mail[m].state = "none" => mail[m].auto = 0)
    BY DEF MailTyped
  <2>2. \/ mail'[m] = mail[m]
        \/ m.kind = "cancelled" /\ mail[m].state = "none" /\ mail'[m] = Queued
        \/ mail[m].state = "queued" /\ mail'[m] = [mail[m] EXCEPT !.state = "cancelled"]
    BY <1>1 DEF Enqueued, WithdrawnByCancel
  <2>3. CASE mail'[m] = mail[m]
    BY <2>1, <2>3 DEF Fate, JobStatus, Processing
  <2>4. CASE m.kind = "cancelled" /\ mail[m].state = "none" /\ mail'[m] = Queued
    BY <2>1, <2>4, OutboxConstants DEF Fate, Queued, NoMail, MailType, MailStates
  <2>5. CASE mail[m].state = "queued" /\ mail'[m] = [mail[m] EXCEPT !.state = "cancelled"]
    BY <2>1, <2>5 DEF Fate, MailType, MailStates, Open
  <2> QED BY <2>2, <2>3, <2>4, <2>5
<1> QED BY <1>1, <1>2, MailSteps DEF NoNewReminder

\* One open email changes its state.
LEMMA OneMail ==
    ASSUME MailTyped, NEW m \in Mails, NEW st \in MailStates, UNCHANGED accepted, Open(m),
           \/ st \in {"queued", "processing", "lapsed", "cancelled", "failed"}
           \/ st = "sent" /\ accepted[m] # None,
           mail' = [mail EXCEPT ![m].state = st]
    PROVE  MailStep /\ NoNewReminder
<1>1. mail[m] \in MailType /\ mail'[m] = [mail[m] EXCEPT !.state = st]
      /\ mail' = [l \in Mails |-> mail'[l]]
  BY DEF MailTyped
<1>2. /\ mail'[m].state = st /\ mail'[m].auto = mail[m].auto
      /\ mail'[m] \in MailType
  BY <1>1 DEF MailType
<1>3. Fate(m)
  BY <1>2 DEF Fate, JobStatus, Processing, Open
<1>4. ASSUME NEW l \in Mails, l # m
      PROVE  mail'[l] = mail[l] /\ mail'[l] \in MailType /\ Fate(l)
  <2>1. mail'[l] = mail[l]
    BY <1>4 DEF MailTyped
  <2>2. mail[l] \in MailType
    BY DEF MailTyped
  <2> QED BY <2>1, <2>2, Untouched
<1>5. MailStep
  BY <1>1, <1>2, <1>3, <1>4, MailSteps
<1> QED BY <1>4, <1>5 DEF NoNewReminder, Open

LEMMA MarkFailedMail ==
    ASSUME MailTyped, NEW m \in Mails, UNCHANGED accepted, MarkFailed(m)
    PROVE  MailStep /\ NoNewReminder
<1>1. CASE Processing(m)
  <2>1. PICK st \in {"failed", "queued"} : mail' = [mail EXCEPT ![m].state = st]
    BY <1>1 DEF MarkFailed
  <2> QED BY <1>1, <2>1, OneMail DEF Processing, Open, MailStates
<1>2. CASE ~Processing(m)
  <2>1. UNCHANGED mail
    BY <1>2 DEF MarkFailed
  <2> QED BY <2>1, NothingMailed DEF NoNewReminder
<1> QED BY <1>1, <1>2

LEMMA MarkSentMail ==
    ASSUME MailTyped, NEW m \in Mails, UNCHANGED accepted, accepted[m] # None, MarkSent(m)
    PROVE  MailStep /\ NoNewReminder
<1>1. CASE Processing(m)
  <2>1. mail' = [mail EXCEPT ![m].state = "sent"]
    BY <1>1 DEF MarkSent
  <2> QED BY <1>1, <2>1, OneMail DEF Processing, Open, MailStates
<1>2. CASE ~Processing(m)
  <2>1. UNCHANGED mail
    BY <1>2 DEF MarkSent
  <2> QED BY <2>1, NothingMailed DEF NoNewReminder
<1> QED BY <1>1, <1>2

LEMMA ClaimedMail ==
    ASSUME NEW m \in Mails, mail[m] \in MailType, mail[m].tries < MaxTries, Open(m),
           mail'[m] = [mail[m] EXCEPT !.state = "processing", !.tries = @ + 1]
    PROVE  mail'[m] \in MailType /\ Fate(m)
<1>1. /\ mail[m].tries \in 0 .. MaxTries /\ mail[m].auto \in 0 .. MaxAuto
      /\ mail'[m] = [state |-> "processing", tries |-> mail[m].tries + 1,
                    auto |-> mail[m].auto]
  BY DEF MailType
<1>2. mail[m].tries + 1 \in 0 .. MaxTries
  BY <1>1, OneMore, OutboxConstants
<1>3. mail'[m] \in MailType
  BY <1>1, <1>2 DEF MailType, MailStates
<1>4. mail'[m].state = "processing" /\ mail'[m].auto = mail[m].auto
  BY <1>1
<1> QED BY <1>3, <1>4 DEF Fate, JobStatus, Processing, Open

\* Claimed or given up.
LEMMA ClaimMail ==
    ASSUME MailTyped, NEW B \in SUBSET Claimable, UNCHANGED accepted,
           mail' = [m \in Mails |->
                IF Exhausted(m) THEN [mail[m] EXCEPT !.state = "failed"]
                ELSE IF m \in B
                THEN [mail[m] EXCEPT !.state = "processing", !.tries = @ + 1]
                ELSE mail[m]]
    PROVE  MailStep /\ NoNewReminder
<1>1. ASSUME NEW m \in Mails
      PROVE  /\ mail'[m] \in MailType /\ Fate(m)
             /\ mail[m].state = "none" => mail'[m] = mail[m]
  <2>1. mail[m] \in MailType
    BY DEF MailTyped
  <2>2. \/ mail'[m] = mail[m]
        \/ Open(m) /\ mail'[m] = [mail[m] EXCEPT !.state = "failed"]
        \/ /\ Open(m) /\ mail[m].tries < MaxTries
           /\ mail'[m] = [mail[m] EXCEPT !.state = "processing", !.tries = @ + 1]
    BY DEF Claimable, Exhausted, Processing, Open
  <2>3. CASE mail'[m] = mail[m]
    BY <2>1, <2>3 DEF Fate, JobStatus, Processing
  <2>4. CASE Open(m) /\ mail'[m] = [mail[m] EXCEPT !.state = "failed"]
    BY <2>1, <2>4 DEF Fate, MailType, MailStates, Open
  <2>5. CASE /\ Open(m) /\ mail[m].tries < MaxTries
             /\ mail'[m] = [mail[m] EXCEPT !.state = "processing", !.tries = @ + 1]
    BY <2>1, <2>5, ClaimedMail DEF Open
  <2> QED BY <2>2, <2>3, <2>4, <2>5
<1> QED BY <1>1, MailSteps DEF NoNewReminder

LEMMA LapseMail ==
    ASSUME MailTyped, NEW m \in Mails, ClaimLapses(m)
    PROVE  MailStep /\ NoNewReminder
BY OneMail DEF ClaimLapses, Open, MailStates

LEMMA RetryMail ==
    ASSUME MailTyped, NEW m \in Mails, AutoRetryFailures(m)
    PROVE  MailStep /\ NoNewReminder
<1>1. /\ mail[m].state = "failed" /\ mail[m].auto < MaxAuto /\ UNCHANGED accepted
      /\ mail = [l \in Mails |-> mail[l]] /\ mail[m] \in MailType
      /\ mail' = [mail EXCEPT ![m] = [state |-> "queued", tries |-> 0,
                                      auto |-> mail[m].auto + 1]]
  <2>1. mail = [l \in Mails |-> mail[l]] /\ mail[m] \in MailType
    BY DEF MailTyped
  <2> QED BY <2>1 DEF AutoRetryFailures
<1>2. /\ mail'[m].state = "queued" /\ mail'[m].auto = mail[m].auto + 1
      /\ mail'[m] \in MailType /\ mail' = [l \in Mails |-> mail'[l]]
  <2>1. /\ mail[m].auto \in 0 .. MaxAuto
        /\ mail'[m] = [state |-> "queued", tries |-> 0, auto |-> mail[m].auto + 1]
    BY <1>1 DEF MailType
  <2>2. mail[m].auto + 1 \in 0 .. MaxAuto /\ 0 \in 0 .. MaxTries
    BY <1>1, <2>1, OneMore, OutboxConstants
  <2>3. mail' = [l \in Mails |-> mail'[l]]
    BY <1>1
  <2> QED BY <2>1, <2>2, <2>3 DEF MailType, MailStates
<1>3. Fate(m)
  BY <1>1, <1>2 DEF Fate
<1>4. ASSUME NEW l \in Mails, l # m
      PROVE  mail'[l] = mail[l] /\ mail'[l] \in MailType /\ Fate(l)
  <2>1. mail'[l] = mail[l]
    BY <1>4 DEF AutoRetryFailures, MailTyped
  <2>2. mail[l] \in MailType
    BY DEF MailTyped
  <2> QED BY <2>1, <2>2, Untouched
<1>5. MailStep
  BY <1>1, <1>2, <1>3, <1>4, MailSteps
<1> QED BY <1>1, <1>4, <1>5 DEF NoNewReminder

-------------------------------------------------------------------------------
(* What the workers have. *)

LEMMA MailEver ==
    ASSUME MailTyped, MailStep, NEW m \in Mails
    PROVE  /\ mail[m].state # "none" => mail'[m].state # "none"
           /\ mail'[m].auto = 0 => mail[m].auto = 0
           /\ mail[m].auto \in Nat
<1>1. mail[m] \in MailType /\ mail'[m] \in MailType /\ Fate(m)
  BY DEF MailTyped, MailStep
<1>2. mail[m].auto \in Nat
  BY <1>1, OutboxConstants DEF MailType
<1>3. mail[m].state # "none" => mail'[m].state # "none"
  BY <1>1 DEF Fate, JobStatus, Processing, Open, MailType, MailStates
<1>4. mail'[m].auto \in {mail[m].auto, mail[m].auto + 1}
  BY <1>1 DEF Fate
<1>5. mail'[m].auto = 0 => mail[m].auto = 0
  BY <1>2, <1>4
<1> QED BY <1>2, <1>3, <1>5

LEMMA OpenKept ==
    ASSUME MailInv, MailStep, NoNewReminder, booking'.start = booking.start
    PROVE  OpenForItsTime'
<1> SUFFICES ASSUME NEW m \in Mails, m.kind = "reminder", mail'[m].auto = 0, Open(m)'
             PROVE  m.key = booking.start
  BY DEF OpenForItsTime
<1>1. MailTyped /\ OpenForItsTime /\ Fate(m) /\ mail[m] \in MailType
  BY DEF MailInv, MailTyped, MailStep
<1>2. mail[m].auto = 0 /\ mail[m].auto \in Nat
  BY <1>1, MailEver
<1>3. mail[m].state # "none"
  BY DEF NoNewReminder, Open
<1>4. Open(m)
  BY <1>1, <1>2, <1>3 DEF Fate, JobStatus, Processing, Open, MailType, MailStates
<1> QED BY <1>1, <1>2, <1>4 DEF OpenForItsTime

LEMMA WorkerKept ==
    ASSUME MailInv, MailStep, NEW w \in Workers, worker'[w] = worker[w]
    PROVE  WorkerSound(w)' /\ ReadForItsTime(w)'
<1>1. MailTyped /\ WorkerSound(w) /\ ReadForItsTime(w) /\ worker[w] \in WorkerType
  BY DEF MailInv, MailTyped
<1>2. worker[w].batch \subseteq Mails
  BY <1>1 DEF WorkerType
<1>3. \A m \in worker[w].batch : mail'[m].state # "none"
  BY <1>1, <1>2, MailEver DEF WorkerSound
<1>4. ASSUME worker[w].pc \in {"read", "answered"}
      PROVE  /\ worker[w].job \in Mails /\ mail'[worker[w].job].state # "none"
             /\ worker[w].about \in Nat
             /\ mail'[worker[w].job].auto = 0 => mail[worker[w].job].auto = 0
  BY <1>1, <1>4, MailEver DEF WorkerSound
<1>5. worker[w].pc = "answered" /\ worker[w].ok => accepted'[worker[w].job] # None
  BY <1>1, <1>4 DEF WorkerSound, MailStep
<1>6. WorkerSound(w)'
  <2>1. worker'[w].pc = "read" => ~worker'[w].ok
    BY <1>1 DEF WorkerSound
  <2> QED BY <1>3, <1>4, <1>5, <2>1 DEF WorkerSound
<1> QED BY <1>1, <1>4, <1>6 DEF ReadForItsTime

\* Together, as long as the provider is not asked.
LEMMA QuietInv ==
    ASSUME MailInv, MailStep, UNCHANGED accepted, OpenForItsTime', now' \in 0 .. Horizon,
           booking' \in BookingType, worker' \in [Workers -> WorkerType],
           \A w \in Workers : \/ worker'[w] = worker[w]
                              \/ WorkerSound(w)' /\ ReadForItsTime(w)'
    PROVE  MailInv'
<1>1. MailTyped'
  <2>1. \A m \in Mails : mail'[m].state = "none" => mail'[m].auto = 0
    <3> SUFFICES ASSUME NEW m \in Mails, mail'[m].state = "none" PROVE mail'[m].auto = 0
      OBVIOUS
    <3>1. mail[m] \in MailType /\ Fate(m) /\ (mail[m].state = "none" => mail[m].auto = 0)
      BY DEF MailInv, MailTyped, MailStep
    <3> QED BY <3>1 DEF Fate, JobStatus, Processing, MailType, MailStates
  <2> QED BY <2>1 DEF MailTyped, MailStep, BookingType, MailType, MailStates, WorkerType
<1>2. \A w \in Workers : WorkerSound(w)' /\ ReadForItsTime(w)'
  BY WorkerKept
<1>3. AcceptedQueued'
  <2> SUFFICES ASSUME NEW m \in Mails, accepted[m] # None PROVE mail'[m].state # "none"
    BY DEF AcceptedQueued
  <2> QED BY MailEver DEF MailInv, AcceptedQueued
<1>4. ReminderNamesItsTime'
  <2> SUFFICES ASSUME NEW m \in Mails, m.kind = "reminder", mail'[m].auto = 0,
                      accepted[m] # None
               PROVE  accepted[m] = m.key
    BY DEF ReminderNamesItsTime
  <2> QED BY MailEver DEF MailInv, ReminderNamesItsTime
<1> QED BY <1>1, <1>2, <1>3, <1>4 DEF MailInv

\* A worker that has nothing, or emails that were queued.
LEMMA RestingWorker ==
    ASSUME NEW w \in Workers,
           \/ worker'[w] = Waiting
           \/ \E B \in SUBSET Mails : /\ worker'[w] = [Waiting EXCEPT !.pc = "batch", !.batch = B]
                                      /\ \A m \in B : mail'[m].state # "none"
    PROVE  worker'[w] \in WorkerType /\ WorkerSound(w)' /\ ReadForItsTime(w)'
<1>1. /\ worker'[w].pc \in {"idle", "batch"} /\ worker'[w].job = None
      /\ \A m \in worker'[w].batch : mail'[m].state # "none"
      /\ worker'[w] \in WorkerType
  <2>1. CASE worker'[w] = Waiting
    BY <2>1 DEF Waiting, WorkerType
  <2>2. ASSUME NEW B \in SUBSET Mails, \A m \in B : mail'[m].state # "none",
               worker'[w] = [Waiting EXCEPT !.pc = "batch", !.batch = B]
        PROVE  /\ worker'[w].pc = "batch" /\ worker'[w].job = None /\ worker'[w].batch = B
               /\ worker'[w] \in WorkerType
    BY <2>2 DEF Waiting, WorkerType
  <2> QED BY <2>1, <2>2
<1> QED BY <1>1 DEF WorkerSound, ReadForItsTime

-------------------------------------------------------------------------------
(* Each action. *)

LEMMA MailInitInv == Init => MailInv
<1> SUFFICES ASSUME Init PROVE MailInv
  OBVIOUS
<1>1. /\ now = 0 /\ booking \in [start : Starts, state : {"confirmed"}, moves : {0}]
      /\ mail = [m \in Mails |->
            IF \/ m \in {Message("confirmed", 0), Message("review", booking.start)}
               \/ m = Message("reminder", booking.start) /\ booking.start > Lead
            THEN Queued ELSE NoMail]
      /\ accepted = [m \in Mails |-> None]
      /\ worker = [w \in Workers |-> Waiting]
  BY DEF Init
<1>2. \A m \in Mails : mail[m] \in {Queued, NoMail}
  BY <1>1
<1>3. \A m \in Mails : mail[m] \in MailType /\ mail[m].auto = 0
  BY <1>2, OutboxConstants DEF Queued, NoMail, MailType, MailStates
<1>4. booking \in BookingType /\ now \in 0 .. Horizon
  BY <1>1, OutboxConstants DEF BookingType
<1>5. \A w \in Workers : worker[w] = Waiting
  BY <1>1
<1>6. Waiting \in WorkerType /\ Waiting.pc = "idle" /\ Waiting.batch = {}
  BY DEF Waiting, WorkerType
<1>7. MailTyped
  BY <1>1, <1>3, <1>4, <1>6 DEF MailTyped
<1>8. \A w \in Workers : WorkerSound(w) /\ ReadForItsTime(w)
  BY <1>5, <1>6 DEF WorkerSound, ReadForItsTime
<1>9. OpenForItsTime
  <2> SUFFICES ASSUME NEW m \in Mails, m.kind = "reminder", Open(m) PROVE m.key = booking.start
    BY DEF OpenForItsTime
  <2>1. NoMail.state = "none" /\ mail[m] # NoMail
    BY DEF NoMail, Open
  <2>2. \/ m \in {Message("confirmed", 0), Message("review", booking.start)}
        \/ m = Message("reminder", booking.start)
    BY <1>1, <2>1
  <2> QED BY <2>2 DEF Message
<1> QED BY <1>1, <1>7, <1>8, <1>9 DEF MailInv, AcceptedQueued, ReminderNamesItsTime

LEMMA MoveInv ==
    ASSUME MailInv, NEW s \in Starts, AcceptReschedule(s)
    PROVE  MailStep /\ MailInv'
<1>1. MailTyped /\ MailStep /\ UNCHANGED <<accepted, worker>> /\ now' = now
  BY MoveMail DEF MailInv, AcceptReschedule
<1>2. booking' \in BookingType /\ booking'.start = s
  <2>1. /\ booking \in BookingType /\ booking.moves < MaxMoves
        /\ booking' = [booking EXCEPT !.start = s, !.moves = booking.moves + 1]
    BY <1>1 DEF MailTyped, AcceptReschedule
  <2>2. booking.moves \in 0 .. MaxMoves
    BY <2>1 DEF BookingType
  <2>3. booking.moves + 1 \in 0 .. MaxMoves
    BY <2>1, <2>2, OneMore, OutboxConstants
  <2> QED BY <2>1, <2>3 DEF BookingType
<1>3. OpenForItsTime'
  <2> SUFFICES ASSUME NEW m \in Mails, m.kind = "reminder", Open(m)' PROVE m.key = s
    BY <1>2 DEF OpenForItsTime
  <2>1. PICK n : mail'[m] = QueuedByMove(m, s, n)
    BY DEF AcceptReschedule
  <2>2. ~WithdrawnByMove(m)
    <3> SUFFICES ASSUME WithdrawnByMove(m) PROVE FALSE
      OBVIOUS
    <3>1. mail'[m] = [mail[m] EXCEPT !.state = "cancelled"] /\ mail[m] \in MailType
      BY <1>1, <2>1 DEF QueuedByMove, MailTyped
    <3> QED BY <3>1 DEF Open, MailType
  <2>3. mail'[m] # mail[m]
    BY <2>2 DEF WithdrawnByMove, TimeBound, Processing, Open
  <2>4. NewlyQueued(m, s, n)
    BY <2>1, <2>2, <2>3 DEF QueuedByMove
  <2> QED BY <2>4 DEF NewlyQueued, Message
<1>4. worker \in [Workers -> WorkerType] /\ now \in 0 .. Horizon
  BY <1>1 DEF MailTyped
<1> QED BY <1>1, <1>2, <1>3, <1>4, QuietInv

\* The booking is cancelled, refunded, or a moment passes.
LEMMA BookingInv ==
    ASSUME MailInv, Tick \/ ApplyCancellation \/ FinalizeRefund
    PROVE  MailStep /\ MailInv'
<1>0. MailTyped
  BY DEF MailInv
<1>1. MailStep /\ NoNewReminder
  <2>1. CASE ApplyCancellation
    BY <1>0, <2>1, CancelMail
  <2>2. CASE Tick \/ FinalizeRefund
    BY <1>0, <2>2, NothingMailed DEF Tick, FinalizeRefund, mailVars, NoNewReminder
  <2> QED BY <2>1, <2>2
<1>2. UNCHANGED <<accepted, worker>>
  BY DEF Tick, ApplyCancellation, FinalizeRefund, mailVars
<1>3. booking' \in BookingType /\ booking'.start = booking.start
  <2>1. booking \in BookingType
    BY <1>0 DEF MailTyped
  <2>2. booking' = booking \/ \E st \in {"cancelled", "refunded"} :
                                    booking' = [booking EXCEPT !.state = st]
    BY DEF Tick, ApplyCancellation, FinalizeRefund
  <2> QED BY <2>1, <2>2 DEF BookingType
<1>4. now' \in 0 .. Horizon
  <2>1. now \in 0 .. Horizon
    BY <1>0 DEF MailTyped
  <2>2. CASE Tick
    BY <2>1, <2>2, OneMore, OutboxConstants DEF Tick
  <2>3. CASE ApplyCancellation \/ FinalizeRefund
    BY <2>1, <2>3 DEF ApplyCancellation, FinalizeRefund
  <2> QED BY <2>2, <2>3
<1>5. worker \in [Workers -> WorkerType]
  BY <1>0 DEF MailTyped
<1> QED BY <1>1, <1>2, <1>3, <1>4, <1>5, OpenKept, QuietInv

\* One worker goes on, and the booking stays.
LEMMA WorkerInv ==
    ASSUME MailInv, MailStep, NoNewReminder, UNCHANGED <<bookingVars, accepted>>,
           NEW w \in Workers, NEW x, worker' = [worker EXCEPT ![w] = x],
           worker'[w] \in WorkerType, WorkerSound(w)', ReadForItsTime(w)'
    PROVE  MailInv'
<1>1. /\ worker \in [Workers -> WorkerType] /\ booking \in BookingType /\ now \in 0 .. Horizon
      /\ now' = now /\ booking' = booking
  BY DEF MailInv, MailTyped, bookingVars
<1>2. worker' \in [Workers -> WorkerType] /\ \A v \in Workers \ {w} : worker'[v] = worker[v]
  BY <1>1
<1>3. OpenForItsTime'
  BY <1>1, OpenKept
<1> QED BY <1>1, <1>2, <1>3, QuietInv

LEMMA ClaimInv ==
    ASSUME MailInv, NEW w \in Workers, ProcessNotificationBatch(w)
    PROVE  MailStep /\ MailInv'
<1>0. MailTyped /\ worker \in [Workers -> WorkerType]
  BY DEF MailInv, MailTyped
<1>1. PICK B \in SUBSET Mails :
        /\ B \subseteq Claimable
        /\ mail' = [m \in Mails |->
                IF Exhausted(m) THEN [mail[m] EXCEPT !.state = "failed"]
                ELSE IF m \in B
                THEN [mail[m] EXCEPT !.state = "processing", !.tries = @ + 1]
                ELSE mail[m]]
        /\ worker' = [worker EXCEPT ![w] = IF B = {} THEN Waiting
                                           ELSE [Waiting EXCEPT !.pc = "batch", !.batch = B]]
  BY DEF ProcessNotificationBatch, NextBatch
<1>2. UNCHANGED <<bookingVars, accepted>>
  BY DEF ProcessNotificationBatch
<1>3. MailStep /\ NoNewReminder
  BY <1>0, <1>1, <1>2, ClaimMail
<1>4. \A m \in B : mail'[m].state # "none"
  <2> SUFFICES ASSUME NEW m \in B PROVE mail'[m].state # "none"
    OBVIOUS
  <2>1. m \in Mails /\ mail[m].state # "none"
    BY <1>1 DEF Claimable
  <2> QED BY <1>0, <1>3, <2>1, MailEver
<1>5. worker'[w] \in WorkerType /\ WorkerSound(w)' /\ ReadForItsTime(w)'
  <2>1. \/ worker'[w] = Waiting
        \/ worker'[w] = [Waiting EXCEPT !.pc = "batch", !.batch = B]
    BY <1>0, <1>1
  <2> QED BY <1>1, <1>4, <2>1, RestingWorker
<1> QED BY <1>1, <1>2, <1>3, <1>5, WorkerInv

\* The rest of a batch is as good as the batch.
LEMMA RestOfBatch ==
    ASSUME MailInv, MailStep, NEW w \in Workers, NEW B \in SUBSET worker[w].batch,
           \/ worker'[w] = Waiting
           \/ worker'[w] = [Waiting EXCEPT !.pc = "batch", !.batch = B]
           \/ worker[w].pc = "batch" /\ worker'[w] = [worker[w] EXCEPT !.batch = B]
    PROVE  worker'[w] \in WorkerType /\ WorkerSound(w)' /\ ReadForItsTime(w)'
<1>1. MailTyped /\ WorkerSound(w) /\ worker[w] \in WorkerType
  BY DEF MailInv, MailTyped
<1>2. B \subseteq Mails /\ \A m \in B : mail'[m].state # "none"
  <2>1. B \subseteq Mails
    BY <1>1 DEF WorkerType
  <2>2. \A m \in B : mail[m].state # "none"
    BY <1>1 DEF WorkerSound
  <2> QED BY <1>1, <2>1, <2>2, MailEver
<1>3. CASE \/ worker'[w] = Waiting
           \/ worker'[w] = [Waiting EXCEPT !.pc = "batch", !.batch = B]
  BY <1>2, <1>3, RestingWorker
<1>4. CASE worker[w].pc = "batch" /\ worker'[w] = [worker[w] EXCEPT !.batch = B]
  <2>1. /\ worker'[w].pc = "batch" /\ worker'[w].batch = B
        /\ worker'[w] \in WorkerType
    BY <1>1, <1>2, <1>4 DEF WorkerType
  <2> QED BY <1>2, <2>1 DEF WorkerSound, ReadForItsTime
<1> QED BY <1>3, <1>4

LEMMA ReadInv ==
    ASSUME MailInv, NEW w \in Workers, NEW m \in Mails, ReadContext(w, m)
    PROVE  MailStep /\ MailInv'
<1>0. /\ MailTyped /\ worker \in [Workers -> WorkerType] /\ WorkerSound(w) /\ OpenForItsTime
      /\ booking \in BookingType
  BY DEF MailInv, MailTyped
<1>1. worker[w].pc = "batch" /\ m \in worker[w].batch /\ UNCHANGED <<bookingVars, accepted>>
  BY DEF ReadContext
<1>2. ASSUME MailStep, NoNewReminder, LeaveOut(w, m) PROVE MailStep /\ MailInv'
  <2> DEFINE rest == worker[w].batch \ {m}
  <2>1. PICK x : /\ worker' = [worker EXCEPT ![w] = x]
                 /\ x = Waiting \/ x = [worker[w] EXCEPT !.batch = rest]
    BY <1>2 DEF LeaveOut
  <2>2. worker'[w] = x /\ rest \subseteq worker[w].batch
    BY <1>0, <2>1
  <2> HIDE DEF rest
  <2>3. worker'[w] \in WorkerType /\ WorkerSound(w)' /\ ReadForItsTime(w)'
    BY <1>1, <1>2, <2>1, <2>2, RestOfBatch
  <2> QED BY <1>1, <1>2, <2>1, <2>3, WorkerInv
<1>3. ASSUME Processing(m), TakeUp(w, m), UNCHANGED mail PROVE MailStep /\ MailInv'
  <2>1. MailStep /\ NoNewReminder
    BY <1>0, <1>1, <1>3, NothingMailed DEF NoNewReminder
  <2> DEFINE x == [pc |-> "read", batch |-> worker[w].batch \ {m}, job |-> m,
                   about |-> Named(m), ok |-> FALSE]
  <2>2. worker' = [worker EXCEPT ![w] = x] /\ worker'[w] = x
    BY <1>0, <1>3 DEF TakeUp
  <2>3. Named(m) \in Nat
    BY <1>0, KeyIsTime, OutboxConstants DEF Named, BookingType
  <2>4. worker'[w] \in WorkerType
    BY <1>0, <2>2, <2>3 DEF WorkerType
  <2>5. /\ worker'[w].pc = "read" /\ worker'[w].batch = worker[w].batch \ {m}
        /\ worker'[w].job = m /\ worker'[w].about = Named(m) /\ ~worker'[w].ok
    BY <2>2
  <2>6. \A l \in worker[w].batch : mail'[l].state # "none"
    BY <1>0, <1>3 DEF WorkerSound
  <2>7. WorkerSound(w)'
    BY <1>1, <2>3, <2>5, <2>6 DEF WorkerSound
  <2>8. ASSUME m.kind = "reminder", mail[m].auto = 0 PROVE Named(m) = m.key
    BY <1>0, <1>3, <2>8 DEF OpenForItsTime, Processing, Open, Named, TimeBound
  <2>9. ReadForItsTime(w)'
    BY <1>3, <2>5, <2>8 DEF ReadForItsTime
  <2> HIDE DEF x
  <2> QED BY <1>1, <2>1, <2>2, <2>4, <2>7, <2>9, WorkerInv
<1>4. CASE ~Processing(m) /\ LeaveOut(w, m) /\ UNCHANGED mail
  BY <1>0, <1>1, <1>2, <1>4, NothingMailed DEF NoNewReminder
<1>5. CASE /\ Processing(m) /\ mail' = [mail EXCEPT ![m].state = "cancelled"]
           /\ LeaveOut(w, m)
  BY <1>0, <1>1, <1>2, <1>5, OneMail DEF Processing, Open, MailStates
<1>6. CASE MarkFailed(m) /\ LeaveOut(w, m)
  BY <1>0, <1>1, <1>2, <1>6, MarkFailedMail
<1> QED BY <1>3, <1>4, <1>5, <1>6 DEF ReadContext

\* The provider is told, for the first time or again.
LEMMA DeliverInv ==
    ASSUME MailInv, NEW w \in Workers, DeliverEmail(w)
    PROVE  MailStep /\ MailInv'
<1> DEFINE j == worker[w].job
<1>0. /\ MailTyped /\ worker \in [Workers -> WorkerType] /\ WorkerSound(w)
      /\ ReadForItsTime(w) /\ accepted \in [Mails -> Nat \cup {None}]
      /\ \A l \in Mails : mail[l] \in MailType
  BY DEF MailInv, MailTyped
<1>1. /\ worker[w].pc = "read" /\ UNCHANGED <<bookingVars, mail>>
      /\ j \in Mails /\ mail[j].state # "none" /\ worker[w].about \in Nat
      /\ ~worker[w].ok
      /\ mail[j].auto = 0 /\ j.kind = "reminder" => worker[w].about = j.key
  BY <1>0 DEF DeliverEmail, WorkerSound, ReadForItsTime
<1>2. PICK yes \in BOOLEAN :
        /\ worker' = [worker EXCEPT ![w] = [worker[w] EXCEPT !.pc = "answered", !.ok = yes]]
        /\ Accept(w) \/ (UNCHANGED accepted /\ ~yes)
  <2>1. CASE Accept(w) /\ worker' = [worker EXCEPT ![w].pc = "answered", ![w].ok = TRUE]
    <3>1. worker' = [worker EXCEPT ![w] = [worker[w] EXCEPT !.pc = "answered", !.ok = TRUE]]
      BY <1>0, <2>1
    <3> QED BY <2>1, <3>1
  <2>2. CASE /\ worker' = [worker EXCEPT ![w].pc = "answered"]
             /\ Accept(w) \/ UNCHANGED accepted
    <3>1. worker[w] \in WorkerType
      BY <1>0
    <3>2. worker[w] = [worker[w] EXCEPT !.ok = FALSE]
      BY <1>1, <3>1 DEF WorkerType
    <3>3. worker' = [worker EXCEPT ![w] = [worker[w] EXCEPT !.pc = "answered", !.ok = FALSE]]
      BY <1>0, <2>2, <3>1, <3>2 DEF WorkerType
    <3> QED BY <2>2, <3>3
  <2> QED BY <2>1, <2>2 DEF DeliverEmail
<1>3. /\ worker'[w].pc = "answered" /\ worker'[w].batch = worker[w].batch
      /\ worker'[w].job = j /\ worker'[w].about = worker[w].about
      /\ worker'[w] \in WorkerType /\ worker' \in [Workers -> WorkerType]
      /\ worker'[w].ok = yes
      /\ \A v \in Workers \ {w} : worker'[v] = worker[v]
  <2>1. worker[w] \in WorkerType
    BY <1>0
  <2>2. worker'[w] = [worker[w] EXCEPT !.pc = "answered", !.ok = yes]
        /\ \A v \in Workers \ {w} : worker'[v] = worker[v]
    BY <1>0, <1>2
  <2>3. /\ worker'[w].pc = "answered" /\ worker'[w].batch = worker[w].batch
        /\ worker'[w].job = j /\ worker'[w].about = worker[w].about
        /\ worker'[w].ok = yes /\ worker'[w] \in WorkerType
    BY <2>1, <2>2 DEF WorkerType
  <2> QED BY <1>0, <1>2, <2>2, <2>3
<1>4. /\ accepted' \in [Mails -> Nat \cup {None}]
      /\ \A l \in Mails : accepted[l] # None => accepted'[l] = accepted[l]
      /\ \A l \in Mails : accepted'[l] # accepted[l] => l = j /\ accepted'[l] = worker[w].about
      /\ yes => accepted'[j] # None
  <2>1. CASE Accept(w)
    <3>1. accepted' = [accepted EXCEPT ![j] = IF accepted[j] = None THEN worker[w].about
                                              ELSE accepted[j]]
      BY <2>1 DEF Accept
    <3> HIDE DEF j
    <3>2. accepted'[j] = IF accepted[j] = None THEN worker[w].about ELSE accepted[j]
      BY <1>0, <1>1, <3>1
    <3>3. \A l \in Mails \ {j} : accepted'[l] = accepted[l]
      BY <1>0, <1>1, <3>1
    <3>4. accepted' \in [Mails -> Nat \cup {None}]
      BY <1>0, <1>1, <3>1
    <3> QED BY <1>1, <3>2, <3>3, <3>4, NoMessage
  <2>2. CASE UNCHANGED accepted /\ ~yes
    BY <1>0, <2>2
  <2> QED BY <1>2, <2>1, <2>2
<1> HIDE DEF j
<1>5. MailStep
  <2>1. \A l \in Mails : Fate(l)
    BY <1>1, Untouched
  <2>2. mail' \in [Mails -> MailType]
    BY <1>0, <1>1 DEF MailTyped
  <2>3. \A l \in Mails : accepted'[l] # None => accepted[l] # None \/ mail[l].state # "none"
    BY <1>1, <1>4
  <2> QED BY <1>4, <2>1, <2>2, <2>3 DEF MailStep
<1>6. MailTyped'
  BY <1>0, <1>1, <1>3, <1>4 DEF MailTyped, bookingVars
<1>7. WorkerSound(w)'
  BY <1>0, <1>1, <1>3, <1>4 DEF WorkerSound
<1>8. ReadForItsTime(w)'
  BY <1>1, <1>3 DEF ReadForItsTime
<1>9. \A v \in Workers : WorkerSound(v)' /\ ReadForItsTime(v)'
  BY <1>3, <1>5, <1>7, <1>8, WorkerKept
<1>10. AcceptedQueued'
  BY <1>1, <1>4 DEF MailInv, AcceptedQueued
<1>11. OpenForItsTime'
  BY <1>1 DEF MailInv, OpenForItsTime, Open, bookingVars
<1>12. ReminderNamesItsTime'
  BY <1>1, <1>4 DEF MailInv, ReminderNamesItsTime
<1> QED BY <1>5, <1>6, <1>9, <1>10, <1>11, <1>12 DEF MailInv

LEMMA FinishInv ==
    ASSUME MailInv, NEW w \in Workers, FinishNotification(w)
    PROVE  MailStep /\ MailInv'
<1>0. MailTyped /\ worker \in [Workers -> WorkerType] /\ WorkerSound(w)
  BY DEF MailInv, MailTyped
<1>1. /\ worker[w].pc = "answered" /\ UNCHANGED <<bookingVars, accepted>>
      /\ worker[w].job \in Mails
  BY <1>0 DEF FinishNotification, WorkerSound
<1>2. MailStep /\ NoNewReminder
  <2>1. CASE worker[w].ok /\ MarkSent(worker[w].job)
    <3>1. accepted[worker[w].job] # None
      BY <1>0, <1>1, <2>1 DEF WorkerSound
    <3> QED BY <1>0, <1>1, <2>1, <3>1, MarkSentMail
  <2>2. CASE MarkFailed(worker[w].job)
    BY <1>0, <1>1, <2>2, MarkFailedMail
  <2> QED BY <2>1, <2>2 DEF FinishNotification
<1>3. PICK x : /\ worker' = [worker EXCEPT ![w] = x]
               /\ \/ x = Waiting
                  \/ x = [Waiting EXCEPT !.pc = "batch", !.batch = worker[w].batch]
  BY DEF FinishNotification, Done
<1>4. worker'[w] = x
  BY <1>0, <1>3
<1>5. worker'[w] \in WorkerType /\ WorkerSound(w)' /\ ReadForItsTime(w)'
  BY <1>2, <1>3, <1>4, RestOfBatch
<1> QED BY <1>1, <1>2, <1>3, <1>5, WorkerInv

LEMMA StopsInv ==
    ASSUME MailInv, NEW w \in Workers, WorkerStops(w)
    PROVE  MailStep /\ MailInv'
<1>0. MailTyped /\ worker \in [Workers -> WorkerType]
  BY DEF MailInv, MailTyped
<1>1. /\ UNCHANGED <<bookingVars, mail, accepted>>
      /\ worker' = [worker EXCEPT ![w] = Waiting] /\ worker'[w] = Waiting
  BY <1>0 DEF WorkerStops
<1>2. MailStep /\ NoNewReminder
  BY <1>0, <1>1, NothingMailed DEF NoNewReminder
<1>3. worker'[w] \in WorkerType /\ WorkerSound(w)' /\ ReadForItsTime(w)'
  BY <1>1, RestingWorker
<1> QED BY <1>1, <1>2, <1>3, WorkerInv

\* Nothing but the queue, or nothing at all.
LEMMA QueueInv ==
    ASSUME MailInv,
           \/ \E m \in Mails : ClaimLapses(m) \/ AutoRetryFailures(m)
           \/ UNCHANGED <<bookingVars, mailVars>>
    PROVE  MailStep /\ MailInv'
<1>0. MailTyped /\ worker \in [Workers -> WorkerType] /\ booking \in BookingType
      /\ now \in 0 .. Horizon
  BY DEF MailInv, MailTyped
<1>1. MailStep /\ NoNewReminder
  <2>1. CASE UNCHANGED <<bookingVars, mailVars>>
    BY <1>0, <2>1, NothingMailed DEF mailVars, NoNewReminder
  <2> QED BY <1>0, <2>1, LapseMail, RetryMail
<1>2. UNCHANGED <<bookingVars, accepted, worker>>
  BY DEF ClaimLapses, AutoRetryFailures, mailVars
<1>3. booking' = booking /\ now' = now
  BY <1>2 DEF bookingVars
<1>4. OpenForItsTime'
  BY <1>1, <1>3, OpenKept
<1> QED BY <1>0, <1>1, <1>2, <1>3, <1>4, QuietInv

LEMMA MailStepInv == MailInv /\ [Next]_vars => MailStep /\ MailInv'
<1> SUFFICES ASSUME MailInv, [Next]_vars PROVE MailStep /\ MailInv'
  OBVIOUS
<1>1. CASE UNCHANGED vars
  BY <1>1, QueueInv DEF vars
<1>2. CASE Booking
  BY <1>2, BookingInv, MoveInv DEF Booking
<1>3. CASE SetBrowser \/ RemindSoon
  BY <1>3, QueueInv DEF SetBrowser, RemindSoon
<1>4. ASSUME NEW w \in Workers, MailWorker(w) \/ WorkerStops(w)
      PROVE  MailStep /\ MailInv'
  BY <1>4, ClaimInv, ReadInv, DeliverInv, FinishInv, StopsInv DEF MailWorker
<1>5. CASE \E m \in Mails : ClaimLapses(m) \/ AutoRetryFailures(m)
  BY <1>5, QueueInv
<1>6. ASSUME NEW p \in Pushers, PushWorker(p) \/ PusherStops(p)
      PROVE  MailStep /\ MailInv'
  <2>1. UNCHANGED <<bookingVars, mailVars>>
    BY <1>6 DEF PushWorker, ClaimPushes, DeliverPush, FinishPush, PusherStops, mailVars
  <2> QED BY <2>1, QueueInv
<1>7. ASSUME NEW j \in Pushes, PushDueAgain(j) PROVE MailStep /\ MailInv'
  BY <1>7, QueueInv DEF PushDueAgain
<1> QED BY <1>1, <1>2, <1>3, <1>4, <1>5, <1>6, <1>7 DEF Next

LEMMA MailAlways == Spec => []MailInv
<1>1. MailInv /\ [Next]_vars => MailInv'
  BY MailStepInv
<1> HIDE DEF Init, Next, vars, MailInv
<1> QED BY <1>1, MailInitInv, PTL DEF Spec

\* Until the automatic retry brings it back, the provider gets a reminder with the
\* time it was queued for: a move withdraws what is open (CancelPendingBookingReminders)
\* and a worker reads the booking only while its email is open.
THEOREM ReminderNames == Spec => []ReminderNamesItsTime
<1>1. MailInv => ReminderNamesItsTime
  BY DEF MailInv
<1> HIDE DEF ReminderNamesItsTime, MailInv
<1> QED BY <1>1, MailAlways, PTL

-------------------------------------------------------------------------------
(* The outbox implements JobQueue. *)

JobStates == {"none", "open", "sent", "cancelled", "failed"}

LEMMA StatusTyped ==
    ASSUME MailTyped
    PROVE  \A m \in Mails : JobStatus(m) \in JobStates
<1> SUFFICES ASSUME NEW m \in Mails PROVE JobStatus(m) \in JobStates
  OBVIOUS
<1>1. mail[m].state \in MailStates
  BY DEF MailTyped, MailType
<1> QED BY <1>1 DEF JobStatus, JobStates, MailStates, Processing

\* Each of the ways is one that JobQueue permits.
LEMMA FateIsPermitted ==
    ASSUME MailTyped, MailStep, NEW m \in Mails
    PROVE  LET old == JobStatus(m)
               new == JobStatus(m)'
               again == old = "failed" /\ new = "open" IN
           /\ new \in JobStates
           /\ \/ new = old
              \/ old = "none" /\ new = "open"
              \/ old = "open" /\ new \in {"cancelled", "failed"}
              \/ old = "open" /\ new = "sent" /\ accepted[m] # None
              \/ again /\ mail[m].auto < MaxAuto
           /\ mail'[m].auto = IF again THEN mail[m].auto + 1 ELSE mail[m].auto
           /\ old = "none" <=> mail[m].state = "none"
<1>1. mail[m].state \in MailStates /\ mail'[m].state \in MailStates /\ Fate(m)
  BY DEF MailTyped, MailType, MailStep
<1>2. JobStatus(m) = IF Open(m) THEN "open" ELSE mail[m].state
  BY DEF JobStatus, Processing, Open
<1>3. JobStatus(m)' = IF Open(m)' THEN "open" ELSE mail'[m].state
  BY DEF JobStatus, Processing, Open
<1> QED BY <1>1, <1>2, <1>3 DEF Fate, Open, MailStates, JobStates

LEMMA QueueInit == Init => Queue!JobInit
<1> SUFFICES ASSUME Init PROVE Queue!JobInit
  OBVIOUS
<1>1. \A m \in Mails : mail[m] \in {Queued, NoMail} /\ accepted[m] = None
  BY DEF Init
<1>2. \A m \in Mails : JobStatus(m) \in {"none", "open"} /\ mail[m].auto = 0
  BY <1>1 DEF JobStatus, Processing, Queued, NoMail
<1> QED BY <1>1, <1>2 DEF Queue!JobInit

LEMMA QueueStep == MailInv /\ [Next]_vars => [Queue!JobNext]_(Queue!jobVars)
<1> SUFFICES ASSUME MailInv, [Next]_vars PROVE Queue!JobNext
  OBVIOUS
<1>0. MailTyped /\ MailStep
  BY MailStepInv DEF MailInv
<1>1. [m \in Mails |-> JobStatus(m)]' \in [Mails -> JobStates]
  BY <1>0, FateIsPermitted
<1>2. \A m \in Mails : Queue!Permitted(m, [l \in Mails |-> JobStatus(l)]'[m])
  BY <1>0, FateIsPermitted DEF Queue!Permitted, Queue!Again
<1>3. [m \in Mails |-> mail[m].auto]' =
        [m \in Mails |-> IF Queue!Again(m, [l \in Mails |-> JobStatus(l)]'[m])
                         THEN [l \in Mails |-> mail[l].auto][m] + 1
                         ELSE [l \in Mails |-> mail[l].auto][m]]
  BY <1>0, FateIsPermitted DEF Queue!Again
<1>4. {m \in Mails : accepted[m] # None} \subseteq {m \in Mails : accepted[m] # None}'
  BY <1>0 DEF MailStep
<1>5. \A m \in {l \in Mails : accepted[l] # None}' \ {l \in Mails : accepted[l] # None} :
        [l \in Mails |-> JobStatus(l)][m] # "none"
  BY <1>0, FateIsPermitted DEF MailStep
<1> QED BY <1>1, <1>2, <1>3, <1>4, <1>5 DEF Queue!JobNext, JobStates

\* Through moves, cancellations, expired claims, lost answers and any number of
\* instances, the statements on notification_outbox (ClaimDueNotifications,
\* MarkNotificationSent, MarkNotificationFailed, CancelPendingBookingReminders,
\* autoRetryFailures) are a queue of jobs: each is decided once, sent only if the provider
\* has it, and opened again a bounded number of times.
THEOREM OutboxIsJobQueue == Spec => IsJobQueue
<1> HIDE DEF Init, Next, vars, MailInv, Queue!JobInit, Queue!JobNext, Queue!jobVars
<1> QED BY QueueInit, QueueStep, MailAlways, PTL DEF Spec, IsJobQueue, Queue!JobSpec

-------------------------------------------------------------------------------
(* Browser notifications. *)

PushTyped ==
    /\ push \in [Pushes -> [state : PushStates, tries : Nat]]
    /\ shown \in [Pushes -> Nat]
    /\ back \subseteq Pushes /\ browser \in BOOLEAN /\ faults \in 0 .. MaxFaults
    /\ pusher = [p \in Pushers |-> pusher[p]]
    /\ \A p \in Pushers :
        /\ pusher[p].pc \in {"idle", "batch", "answered"}
        /\ DOMAIN pusher[p].tried \subseteq Pushes
        /\ pusher[p].result \in PushStates \ {"none"}
        /\ pusher[p].pc = "answered" => pusher[p].job \in Pushes
        /\ pusher[p].pc # "answered" => pusher[p].job = None
        /\ pusher[p].pc = "idle" => DOMAIN pusher[p].tried = {}

Has(p, j) == j \in DOMAIN pusher[p].tried \/ pusher[p].job = j

\* As long as nothing fails, what has been claimed is with one worker, which tells
\* its result before another may have it.
PushOrder ==
    /\ back = {}
    /\ \A p \in Pushers : pusher[p].pc = "answered" =>
        pusher[p].job \notin DOMAIN pusher[p].tried /\ pusher[p].result # "queued"
    /\ \A p \in Pushers, j \in Pushes : Has(p, j) =>
        push[j].state = "queued" /\ push[j].tries > 0
    /\ \A p, q \in Pushers, j \in Pushes : Has(p, j) /\ Has(q, j) => p = q
    /\ \A j \in Pushes : push[j].state = "queued" /\ push[j].tries > 0 =>
        \E p \in Pushers : Has(p, j)
    /\ \A j \in Pushes :
        /\ push[j].state = "none" => push[j].tries = 0
        /\ push[j].state = "none" \/ push[j].tries = 0 => shown[j] = 0
        /\ \A p \in Pushers : j \in DOMAIN pusher[p].tried => shown[j] = 0
        /\ shown[j] <= 1

PushInv == PushTyped /\ (faults = 0 => PushOrder)

LEMMA AtRestHasNone ==
    /\ AtRest.pc = "idle" /\ DOMAIN AtRest.tried = {} /\ AtRest.job = None
    /\ AtRest.result = "queued"
BY DEF AtRest

LEMMA PushInitInv == Init => PushInv
<1> SUFFICES ASSUME Init PROVE PushInv
  OBVIOUS
<1>1. /\ browser \in BOOLEAN /\ back = {} /\ faults = 0
      /\ push = [p \in Pushes |-> [state |-> IF p.kind = "new" /\ browser THEN "queued"
                                           ELSE "none", tries |-> 0]]
      /\ shown = [p \in Pushes |-> 0]
      /\ pusher = [p \in Pushers |-> AtRest]
  BY DEF Init
<1>2. \A j \in Pushes : /\ push[j] \in [state : PushStates, tries : Nat]
                        /\ push[j].tries = 0 /\ shown[j] = 0
  BY <1>1 DEF PushStates
<1>3. \A p \in Pushers : /\ pusher[p].pc = "idle" /\ DOMAIN pusher[p].tried = {}
                         /\ pusher[p].job = None /\ pusher[p].result = "queued"
  BY <1>1, AtRestHasNone
<1>4. PushTyped
  BY <1>1, <1>2, <1>3, OutboxConstants DEF PushTyped, PushStates
<1>5. PushOrder
  BY <1>1, <1>2, <1>3, NoMessage DEF PushOrder, Has
<1> QED BY <1>4, <1>5 DEF PushInv

\* Nothing happens to them.
LEMMA PushesKept ==
    ASSUME PushInv, UNCHANGED <<push, back, shown, pusher>>, browser' \in BOOLEAN,
           faults' \in {faults, faults + 1}, faults' <= MaxFaults
    PROVE  PushInv'
<1>1. faults \in Nat
  BY OutboxConstants DEF PushInv, PushTyped
<1>2. PushTyped'
  BY <1>1, OutboxConstants DEF PushInv, PushTyped
<1>3. faults' = 0 => faults = 0
  BY <1>1
<1>4. PushOrder => PushOrder'
  BY DEF PushOrder, Has
<1> QED BY <1>2, <1>3, <1>4 DEF PushInv

LEMMA RemindInv ==
    ASSUME PushInv, RemindSoon
    PROVE  PushInv'
<1> DEFINE j == Message("soon", booking.start)
<1>0. PushTyped
  BY DEF PushInv
<1>1. /\ push[j].state = "none" /\ push' = [push EXCEPT ![j].state = "queued"]
      /\ UNCHANGED <<back, browser, shown, pusher, faults>>
  BY DEF RemindSoon
<1> HIDE DEF j
<1>2. ASSUME NEW k \in Pushes
      PROVE  /\ push'[k] \in [state : PushStates, tries : Nat]
             /\ push'[k].tries = push[k].tries
             /\ \/ push'[k].state = push[k].state
                \/ push[k].state = "none" /\ push'[k].state = "queued"
  <2>1. push[k] \in [state : PushStates, tries : Nat]
    BY <1>0 DEF PushTyped
  <2>2. \/ push'[k] = push[k]
        \/ push[k].state = "none" /\ push'[k] = [push[k] EXCEPT !.state = "queued"]
    BY <1>0, <1>1 DEF PushTyped
  <2> QED BY <2>1, <2>2 DEF PushStates
<1>3. PushTyped'
  <2>1. push' = [k \in Pushes |-> push'[k]]
    BY <1>0, <1>1 DEF PushTyped
  <2> QED BY <1>0, <1>1, <1>2, <2>1 DEF PushTyped
<1>4. ASSUME PushOrder PROVE PushOrder'
  BY <1>1, <1>2, <1>4 DEF PushOrder, Has
<1> QED BY <1>1, <1>3, <1>4 DEF PushInv

LEMMA ClaimPushesInv ==
    ASSUME PushInv, NEW p \in Pushers, ClaimPushes(p)
    PROVE  PushInv'
<1>0. PushTyped
  BY DEF PushInv
<1> DEFINE x == [AtRest EXCEPT !.pc = "batch",
                               !.tried = [j \in DuePushes |-> push[j].tries + 1]]
<1>1. /\ pusher[p].pc = "idle" /\ UNCHANGED <<browser, shown, faults>>
      /\ push' = [j \in Pushes |-> IF j \in DuePushes THEN [push[j] EXCEPT !.tries = @ + 1]
                                   ELSE push[j]]
      /\ back' = back \ DuePushes /\ pusher' = [pusher EXCEPT ![p] = x]
  BY DEF ClaimPushes
<1>2. /\ x.pc = "batch" /\ DOMAIN x.tried = DuePushes /\ x.job = None
      /\ x.result = "queued" /\ DuePushes \subseteq Pushes
  BY DEF AtRest, DuePushes
<1> HIDE DEF x
<1>3. /\ pusher' = [q \in Pushers |-> pusher'[q]] /\ pusher'[p] = x
      /\ \A q \in Pushers \ {p} : pusher'[q] = pusher[q]
  <2>1. pusher = [q \in Pushers |-> pusher[q]]
    BY <1>0 DEF PushTyped
  <2> QED BY <1>1, <2>1
<1>4. ASSUME NEW j \in Pushes
      PROVE  /\ push'[j] \in [state : PushStates, tries : Nat]
             /\ push'[j].state = push[j].state
             /\ push'[j].tries = IF j \in DuePushes THEN push[j].tries + 1 ELSE push[j].tries
             /\ push[j].tries \in Nat
  <2>1. push[j] \in [state : PushStates, tries : Nat]
    BY <1>0 DEF PushTyped
  <2>2. push'[j] = IF j \in DuePushes THEN [push[j] EXCEPT !.tries = @ + 1] ELSE push[j]
    BY <1>1
  <2> QED BY <2>1, <2>2
<1>5. PushTyped'
  <2>1. push' = [j \in Pushes |-> push'[j]]
    BY <1>1
  <2>2. push' \in [Pushes -> [state : PushStates, tries : Nat]]
    BY <1>4, <2>1
  <2>3. \A q \in Pushers :
        /\ pusher'[q].pc \in {"idle", "batch", "answered"}
        /\ DOMAIN pusher'[q].tried \subseteq Pushes
        /\ pusher'[q].result \in PushStates \ {"none"}
        /\ pusher'[q].pc = "answered" => pusher'[q].job \in Pushes
        /\ pusher'[q].pc # "answered" => pusher'[q].job = None
        /\ pusher'[q].pc = "idle" => DOMAIN pusher'[q].tried = {}
    BY <1>0, <1>2, <1>3 DEF PushTyped, PushStates
  <2> QED BY <1>0, <1>1, <1>3, <2>2, <2>3 DEF PushTyped
<1>6. ASSUME PushOrder PROVE PushOrder'
  <2>1. \A j \in DuePushes : push[j].state = "queued" /\ push[j].tries = 0
    BY <1>6 DEF DuePushes, PushOrder
  <2>2. \A q \in Pushers, j \in DuePushes : ~Has(q, j)
    BY <1>2, <1>6, <2>1 DEF PushOrder
  <2>3. \A q \in Pushers, j \in Pushes :
            Has(q, j)' <=> (IF q = p THEN j \in DuePushes ELSE Has(q, j))
    BY <1>2, <1>3, NoMessage DEF Has
  <2>4. back' = {}
    BY <1>1, <1>6 DEF PushOrder
  <2>5. \A q \in Pushers : pusher'[q].pc = "answered" =>
            pusher'[q].job \notin DOMAIN pusher'[q].tried /\ pusher'[q].result # "queued"
    BY <1>2, <1>3, <1>6 DEF PushOrder
  <2>6. \A q \in Pushers, j \in Pushes : Has(q, j)' =>
            push'[j].state = "queued" /\ push'[j].tries > 0
    BY <1>4, <1>6, <2>1, <2>3 DEF PushOrder
  <2>7. \A q, r \in Pushers, j \in Pushes : Has(q, j)' /\ Has(r, j)' => q = r
    BY <1>6, <2>2, <2>3 DEF PushOrder
  <2>8. ASSUME NEW j \in Pushes, push'[j].state = "queued", push'[j].tries > 0
        PROVE  \E q \in Pushers : Has(q, j)'
    <3>1. CASE j \in DuePushes
      BY <2>3, <3>1
    <3>2. CASE j \notin DuePushes
      <4>1. PICK q \in Pushers : Has(q, j)
        BY <1>4, <1>6, <2>8, <3>2 DEF PushOrder
      <4>2. q # p
        BY <1>0, <1>1, <4>1, NoMessage DEF PushTyped, Has
      <4> QED BY <2>3, <4>1, <4>2
    <3> QED BY <3>1, <3>2
  <2>9. \A j \in Pushes :
        /\ push'[j].state = "none" => push'[j].tries = 0
        /\ push'[j].state = "none" \/ push'[j].tries = 0 => shown'[j] = 0
        /\ \A q \in Pushers : j \in DOMAIN pusher'[q].tried => shown'[j] = 0
        /\ shown'[j] <= 1
    BY <1>1, <1>2, <1>3, <1>4, <1>6, <2>1 DEF PushOrder
  <2> QED BY <2>4, <2>5, <2>6, <2>7, <2>8, <2>9 DEF PushOrder
<1> QED BY <1>1, <1>5, <1>6 DEF PushInv

\* Two minutes pass over one that nobody has: while nothing fails there is none.
LEMMA DueAgainInv ==
    ASSUME PushInv, NEW j \in Pushes, PushDueAgain(j)
    PROVE  PushInv'
<1>0. PushTyped /\ faults \in 0 .. MaxFaults
  BY DEF PushInv, PushTyped
<1>1. /\ push[j].state = "queued" /\ push[j].tries > 0
      /\ back' = back \cup {j} /\ UNCHANGED <<push, browser, shown, pusher>>
  BY DEF PushDueAgain
<1>2. CASE HeldByPusher(j)
  <2>1. faults' = faults + 1 /\ faults < MaxFaults
    BY <1>2 DEF PushDueAgain, Fault
  <2>2. faults' \in 0 .. MaxFaults /\ faults' # 0
    BY <1>0, <2>1, OutboxConstants
  <2> QED BY <1>0, <1>1, <2>2 DEF PushInv, PushTyped
<1>3. CASE ~HeldByPusher(j)
  <2>1. UNCHANGED faults
    BY <1>3 DEF PushDueAgain
  <2>2. \A p \in Pushers : ~Has(p, j)
    BY <1>3 DEF HeldByPusher, Has
  <2>3. ~PushOrder
    BY <1>1, <2>2 DEF PushOrder
  <2> QED BY <1>0, <1>1, <2>1, <2>3 DEF PushInv, PushTyped
<1> QED BY <1>2, <1>3

LEMMA PusherStopsInv ==
    ASSUME PushInv, NEW p \in Pushers, PusherStops(p)
    PROVE  PushInv'
<1>0. PushTyped /\ faults \in 0 .. MaxFaults
  BY DEF PushInv, PushTyped
<1>1. /\ faults' = faults + 1 /\ faults < MaxFaults /\ UNCHANGED <<push, back, browser, shown>>
      /\ pusher' = [pusher EXCEPT ![p] = AtRest]
  BY DEF PusherStops, Fault
<1>2. faults' \in 0 .. MaxFaults /\ faults' # 0
  BY <1>0, <1>1, OutboxConstants
<1>3. /\ pusher' = [q \in Pushers |-> pusher'[q]] /\ pusher'[p] = AtRest
      /\ \A q \in Pushers \ {p} : pusher'[q] = pusher[q]
  <2>1. pusher = [q \in Pushers |-> pusher[q]]
    BY <1>0 DEF PushTyped
  <2> QED BY <1>1, <2>1
<1>4. PushTyped'
  BY <1>0, <1>1, <1>2, <1>3, AtRestHasNone DEF PushTyped, PushStates
<1> QED BY <1>2, <1>4 DEF PushInv

\* One is delivered, or not: shown at most when this worker had it and nobody
\* had shown it.
LEMMA DeliverPushInv ==
    ASSUME PushInv, NEW p \in Pushers, NEW j \in Pushes, DeliverPush(p, j)
    PROVE  PushInv'
<1>0. PushTyped /\ faults \in 0 .. MaxFaults /\ pusher = [q \in Pushers |-> pusher[q]]
  BY DEF PushInv, PushTyped
<1>1. /\ pusher[p].pc = "batch" /\ j \in DOMAIN pusher[p].tried
      /\ UNCHANGED <<push, back>>
  BY DEF DeliverPush
<1>2. PICK result \in PushStates \ {"none"} :
        /\ pusher' = [pusher EXCEPT ![p] = [pc |-> "answered", job |-> j, result |-> result,
                tried |-> [k \in DOMAIN pusher[p].tried \ {j} |-> pusher[p].tried[k]]]]
        /\ result # "queued" \/ faults' = faults + 1
        /\ \/ shown' = shown \/ shown' = [shown EXCEPT ![j] = @ + 1]
        /\ browser' \in BOOLEAN
        /\ faults' = faults \/ (faults' = faults + 1 /\ faults < MaxFaults)
  <2>1. browser \in BOOLEAN
    BY <1>0 DEF PushTyped
  <2>2. Again(p, j) \in {"failed", "queued"}
    BY DEF Again
  <2>3. PICK result \in {"skipped", "sent", Again(p, j)} :
          /\ Answer(p, j, result)
          /\ result # Again(p, j) \/ result # "queued" \/ Fault
          /\ shown' = shown \/ shown' = [shown EXCEPT ![j] = @ + 1]
          /\ browser' \in BOOLEAN
          /\ faults' = faults \/ Fault
    BY <2>1, <2>2 DEF DeliverPush
  <2>4. result \in PushStates \ {"none"}
    BY <2>2, <2>3 DEF PushStates
  <2>5. result = "queued" => Fault
    BY <2>2, <2>3
  <2> QED BY <2>3, <2>4, <2>5 DEF Answer, Fault
<1>3. /\ pusher' = [q \in Pushers |-> pusher'[q]]
      /\ pusher'[p].pc = "answered" /\ pusher'[p].job = j /\ pusher'[p].result = result
      /\ DOMAIN pusher'[p].tried = DOMAIN pusher[p].tried \ {j}
      /\ \A q \in Pushers \ {p} : pusher'[q] = pusher[q]
  BY <1>0, <1>2
<1>4. /\ shown' \in [Pushes -> Nat]
      /\ shown'[j] \in {shown[j], shown[j] + 1}
      /\ \A k \in Pushes \ {j} : shown'[k] = shown[k]
  <2>1. shown \in [Pushes -> Nat]
    BY <1>0 DEF PushTyped
  <2> QED BY <1>2, <2>1
<1>5. faults' \in 0 .. MaxFaults /\ (faults' = 0 => faults = 0 /\ result # "queued")
  BY <1>0, <1>2, OutboxConstants
<1>6. PushTyped'
  <2>1. \A q \in Pushers :
        /\ pusher'[q].pc \in {"idle", "batch", "answered"}
        /\ DOMAIN pusher'[q].tried \subseteq Pushes
        /\ pusher'[q].result \in PushStates \ {"none"}
        /\ pusher'[q].pc = "answered" => pusher'[q].job \in Pushes
        /\ pusher'[q].pc # "answered" => pusher'[q].job = None
        /\ pusher'[q].pc = "idle" => DOMAIN pusher'[q].tried = {}
    BY <1>0, <1>3 DEF PushTyped
  <2> QED BY <1>0, <1>1, <1>2, <1>3, <1>4, <1>5, <2>1 DEF PushTyped
<1>7. ASSUME PushOrder, faults' = 0 PROVE PushOrder'
  <2>1. result # "queued" /\ pusher[p].job = None
    BY <1>0, <1>1, <1>5, <1>7 DEF PushTyped
  <2>2. \A q \in Pushers, k \in Pushes : Has(q, k)' <=> Has(q, k)
    BY <1>1, <1>3, <2>1, NoMessage DEF Has
  <2>3. Has(p, j) /\ shown[j] = 0 /\ push[j].state = "queued" /\ push[j].tries > 0
    BY <1>1, <1>7 DEF PushOrder, Has
  <2>4. \A q \in Pushers : j \notin DOMAIN pusher'[q].tried
    <3> SUFFICES ASSUME NEW q \in Pushers, j \in DOMAIN pusher'[q].tried PROVE FALSE
      OBVIOUS
    <3>1. q # p
      BY <1>3
    <3>2. Has(q, j)
      BY <1>3, <3>1 DEF Has
    <3> QED BY <1>7, <2>3, <3>1, <3>2 DEF PushOrder
  <2>5. \A q \in Pushers : pusher'[q].pc = "answered" =>
            pusher'[q].job \notin DOMAIN pusher'[q].tried /\ pusher'[q].result # "queued"
    BY <1>3, <1>7, <2>1 DEF PushOrder
  <2>6. ASSUME NEW k \in Pushes
        PROVE  /\ push'[k].state = "none" => push'[k].tries = 0
               /\ push'[k].state = "none" \/ push'[k].tries = 0 => shown'[k] = 0
               /\ \A q \in Pushers : k \in DOMAIN pusher'[q].tried => shown'[k] = 0
               /\ shown'[k] <= 1
    <3>1. CASE k = j
      BY <1>1, <1>4, <1>7, <2>3, <2>4, <3>1 DEF PushOrder
    <3>2. CASE k # j
      <4>1. \A q \in Pushers : k \in DOMAIN pusher'[q].tried => k \in DOMAIN pusher[q].tried
        BY <1>3
      <4> QED BY <1>1, <1>4, <1>7, <3>2, <4>1 DEF PushOrder
    <3> QED BY <3>1, <3>2
  <2> QED BY <1>1, <1>7, <2>2, <2>5, <2>6 DEF PushOrder
<1> QED BY <1>5, <1>6, <1>7 DEF PushInv

LEMMA FinishPushInv ==
    ASSUME PushInv, NEW p \in Pushers, FinishPush(p)
    PROVE  PushInv'
<1> DEFINE j == pusher[p].job
<1>0. /\ PushTyped /\ pusher = [q \in Pushers |-> pusher[q]]
      /\ push \in [Pushes -> [state : PushStates, tries : Nat]]
  BY DEF PushInv, PushTyped
<1>1. /\ pusher[p].pc = "answered" /\ j \in Pushes
      /\ UNCHANGED <<back, browser, shown, faults>>
      /\ push' = IF pusher[p].result = "queued" THEN push
                 ELSE [push EXCEPT ![j].state = pusher[p].result]
  BY <1>0 DEF FinishPush, PushTyped
<1>2. PICK x :
        /\ pusher' = [pusher EXCEPT ![p] = x]
        /\ x.pc \in {"idle", "batch"} /\ x.job = None /\ x.result = "queued"
        /\ DOMAIN x.tried = DOMAIN pusher[p].tried
        /\ x.pc = "idle" => DOMAIN x.tried = {}
  <2>1. CASE DOMAIN pusher[p].tried = {}
    <3>1. pusher' = [pusher EXCEPT ![p] = AtRest]
      BY <2>1 DEF FinishPush
    <3> QED BY <2>1, <3>1, AtRestHasNone
  <2>2. CASE DOMAIN pusher[p].tried # {}
    <3>1. pusher' = [pusher EXCEPT ![p] = [AtRest EXCEPT !.pc = "batch",
                                                        !.tried = pusher[p].tried]]
      BY <2>2 DEF FinishPush
    <3>2. LET x == [AtRest EXCEPT !.pc = "batch", !.tried = pusher[p].tried] IN
          x.pc = "batch" /\ x.job = None /\ x.result = "queued" /\ x.tried = pusher[p].tried
      BY DEF AtRest
    <3> QED BY <3>1, <3>2
  <2> QED BY <2>1, <2>2
<1>3. /\ pusher' = [q \in Pushers |-> pusher'[q]] /\ pusher'[p] = x
      /\ \A q \in Pushers \ {p} : pusher'[q] = pusher[q]
  BY <1>0, <1>2
<1>4. pusher[p].result \in PushStates \ {"none"}
  BY <1>0 DEF PushTyped
<1> HIDE DEF j
<1>5. /\ push' \in [Pushes -> [state : PushStates, tries : Nat]]
      /\ \A k \in Pushes : push'[k].tries = push[k].tries
      /\ \A k \in Pushes \ {j} : push'[k] = push[k]
      /\ pusher[p].result # "queued" => push'[j].state = pusher[p].result
  <2>1. CASE pusher[p].result = "queued"
    BY <1>0, <1>1, <2>1
  <2>2. CASE pusher[p].result # "queued"
    <3>1. push' = [push EXCEPT ![j] = [push[j] EXCEPT !.state = pusher[p].result]]
      BY <1>0, <1>1, <2>2
    <3>2. push[j] \in [state : PushStates, tries : Nat]
      BY <1>0, <1>1
    <3>3. LET y == [push[j] EXCEPT !.state = pusher[p].result] IN
          /\ y \in [state : PushStates, tries : Nat]
          /\ y.state = pusher[p].result /\ y.tries = push[j].tries
      BY <1>4, <3>2
    <3> QED BY <1>0, <1>1, <3>1, <3>3
  <2> QED BY <2>1, <2>2
<1>6. PushTyped'
  <2>1. \A q \in Pushers :
        /\ pusher'[q].pc \in {"idle", "batch", "answered"}
        /\ DOMAIN pusher'[q].tried \subseteq Pushes
        /\ pusher'[q].result \in PushStates \ {"none"}
        /\ pusher'[q].pc = "answered" => pusher'[q].job \in Pushes
        /\ pusher'[q].pc # "answered" => pusher'[q].job = None
        /\ pusher'[q].pc = "idle" => DOMAIN pusher'[q].tried = {}
    BY <1>0, <1>2, <1>3 DEF PushTyped, PushStates
  <2> QED BY <1>0, <1>1, <1>3, <1>5, <2>1 DEF PushTyped
<1>7. ASSUME PushOrder PROVE PushOrder'
  <2>1. pusher[p].result # "queued" /\ j \notin DOMAIN pusher[p].tried
    BY <1>1, <1>7 DEF PushOrder, j
  <2>2. Has(p, j) /\ push[j].state = "queued" /\ push[j].tries > 0
    BY <1>1, <1>7 DEF PushOrder, Has, j
  <2>3. \A q \in Pushers, k \in Pushes : Has(q, k)' <=> Has(q, k) /\ k # j
    <3> SUFFICES ASSUME NEW q \in Pushers, NEW k \in Pushes
                 PROVE  Has(q, k)' <=> Has(q, k) /\ k # j
      OBVIOUS
    <3>1. CASE q = p
      BY <1>2, <1>3, <2>1, <3>1, NoMessage DEF Has, j
    <3>2. CASE q # p
      <4>1. Has(q, k)' <=> Has(q, k)
        BY <1>3, <3>2 DEF Has
      <4>2. ~Has(q, j)
        BY <1>1, <1>7, <2>2, <3>2 DEF PushOrder
      <4> QED BY <4>1, <4>2
    <3> QED BY <3>1, <3>2
  <2>4. push'[j].state \notin {"none", "queued"}
    BY <1>4, <1>5, <2>1
  <2>5. \A q \in Pushers : pusher'[q].pc = "answered" =>
            pusher'[q].job \notin DOMAIN pusher'[q].tried /\ pusher'[q].result # "queued"
    BY <1>2, <1>3, <1>7 DEF PushOrder
  <2>6. \A q \in Pushers, k \in Pushes : Has(q, k)' =>
            push'[k].state = "queued" /\ push'[k].tries > 0
    BY <1>5, <1>7, <2>3 DEF PushOrder
  <2>7. \A q, r \in Pushers, k \in Pushes : Has(q, k)' /\ Has(r, k)' => q = r
    BY <1>7, <2>3 DEF PushOrder
  <2>8. \A k \in Pushes : push'[k].state = "queued" /\ push'[k].tries > 0 =>
            \E q \in Pushers : Has(q, k)'
    BY <1>5, <1>7, <2>3, <2>4 DEF PushOrder
  <2>9. ASSUME NEW k \in Pushes
        PROVE  /\ push'[k].state = "none" => push'[k].tries = 0
               /\ push'[k].state = "none" \/ push'[k].tries = 0 => shown'[k] = 0
               /\ \A q \in Pushers : k \in DOMAIN pusher'[q].tried => shown'[k] = 0
               /\ shown'[k] <= 1
    <3>1. \A q \in Pushers : k \in DOMAIN pusher'[q].tried => k \in DOMAIN pusher[q].tried
      BY <1>2, <1>3
    <3>2. shown'[k] = shown[k] /\ push'[k].tries = push[k].tries
      BY <1>1, <1>5
    <3>3. push'[k].state = "none" => push[k].state = "none"
      BY <1>5, <2>4
    <3> QED BY <1>7, <3>1, <3>2, <3>3 DEF PushOrder
  <2> QED BY <1>1, <1>7, <2>5, <2>6, <2>7, <2>8, <2>9 DEF PushOrder
<1> QED BY <1>1, <1>6, <1>7 DEF PushInv

LEMMA PushStepInv == PushInv /\ [Next]_vars => PushInv'
<1> SUFFICES ASSUME PushInv, [Next]_vars PROVE PushInv'
  OBVIOUS
<1>0. browser \in BOOLEAN /\ faults \in 0 .. MaxFaults
  BY DEF PushInv, PushTyped
<1>1. ASSUME UNCHANGED pushVars,
             faults' = faults \/ (faults' = faults + 1 /\ faults < MaxFaults)
      PROVE  PushInv'
  <2>1. /\ UNCHANGED <<push, back, shown, pusher>> /\ browser' \in BOOLEAN
        /\ faults' \in {faults, faults + 1} /\ faults' <= MaxFaults
    BY <1>0, <1>1, OutboxConstants DEF pushVars
  <2> QED BY <2>1, PushesKept
<1>2. CASE UNCHANGED vars
  BY <1>1, <1>2 DEF vars
<1>3. CASE Booking
  BY <1>1, <1>3 DEF Booking, Tick, ApplyCancellation, FinalizeRefund, AcceptReschedule
<1>4. CASE SetBrowser
  <2>1. /\ UNCHANGED <<push, back, shown, pusher>> /\ browser' \in BOOLEAN
        /\ faults' \in {faults, faults + 1} /\ faults' <= MaxFaults
    BY <1>0, <1>4, OutboxConstants DEF SetBrowser
  <2> QED BY <2>1, PushesKept
<1>5. CASE RemindSoon
  BY <1>5, RemindInv
<1>6. ASSUME NEW w \in Workers, MailWorker(w) \/ WorkerStops(w) PROVE PushInv'
  <2>1. UNCHANGED pushVars
    BY <1>6 DEF MailWorker, WorkerStops, ProcessNotificationBatch, DeliverEmail,
                FinishNotification, ReadContext
  <2>2. faults' = faults \/ (faults' = faults + 1 /\ faults < MaxFaults)
    BY <1>6 DEF MailWorker, WorkerStops, ProcessNotificationBatch, DeliverEmail,
                FinishNotification, ReadContext, Fault
  <2> QED BY <1>1, <2>1, <2>2
<1>7. ASSUME NEW m \in Mails, ClaimLapses(m) \/ AutoRetryFailures(m) PROVE PushInv'
  BY <1>1, <1>7 DEF ClaimLapses, AutoRetryFailures, Fault
<1>8. ASSUME NEW p \in Pushers, PushWorker(p) \/ PusherStops(p) PROVE PushInv'
  BY <1>8, ClaimPushesInv, DeliverPushInv, FinishPushInv, PusherStopsInv DEF PushWorker
<1>9. ASSUME NEW j \in Pushes, PushDueAgain(j) PROVE PushInv'
  BY <1>9, DueAgainInv
<1> QED BY <1>2, <1>3, <1>4, <1>5, <1>6, <1>7, <1>8, <1>9 DEF Next

LEMMA PushAlways == Spec => []PushInv
<1> HIDE DEF Init, Next, vars, PushInv
<1> QED BY PushInitInv, PushStepInv, PTL DEF Spec

\* While nothing fails, any number of instances show a notification once: the claim
\* that only moves the due date (processPushes) is enough as long as its worker ends
\* within the two minutes.
THEOREM PushedOnceEach == Spec => []PushedOnce
<1>1. PushInv => PushedOnce
  BY DEF PushInv, PushOrder, PushedOnce
<1> HIDE DEF PushInv, PushedOnce
<1> QED BY <1>1, PushAlways, PTL

\* Every variable keeps its type: attempts and automatic retries stay within their
\* limits (ClaimDueNotifications, autoRetryFailures).
THEOREM TypeCorrect == Spec => []TypeOK
<1>1. MailInv /\ PushInv => TypeOK
  BY DEF MailInv, MailTyped, PushInv, PushTyped, TypeOK, BookingType, MailType, WorkerType
<1> HIDE DEF MailInv, PushInv, TypeOK
<1> QED BY <1>1, MailAlways, PushAlways, PTL
===============================================================================
