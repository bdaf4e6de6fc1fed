---------------------------- MODULE SellerCalendar ----------------------------
(***************************************************************************)
(* The calendar of one seller: the times that are held, booked and moved,  *)
(* and the copy of the bookings in the seller's Google calendar.           *)
(*                                                                         *)
(* Two people agree on a new time in two steps, while others take times,   *)
(* the booking is cancelled and the clock runs.  Every change of a booking *)
(* queues a job; workers bring Google's event in line with the booking     *)
(* they have read some time before.                                        *)
(***************************************************************************)
EXTENDS Integers, FiniteSets, Hours

CONSTANTS
    None,
    Bookings,
    Notice,         \* how far ahead the seller wants to know
    Appointments,   \* what else is in the seller's Google calendar
    Horizon,        \* bound: the last moment of the clock
    Patience,       \* how long a request for a new time is open
    MaxAsks,        \* bound: requests for a new time
    Jobs,           \* bound: the calendar jobs of a booking, 1 .. n
    MaxTries,       \* calendarJobRetries
    Workers,        \* calendar workers, one per API instance
    MaxErrors,      \* bound: refused calls and slow workers
    MaxBreaks       \* bound: stopped workers, lost answers, unnoted events,
                    \* withdrawn connections

ASSUME CalendarConstants ==
    /\ Appointments \subseteq Nat /\ Notice \in Nat /\ Patience \in Nat
    /\ Horizon \in Nat /\ MaxAsks \in Nat
    /\ Jobs \subseteq Nat \ {0} /\ (\A n \in Jobs : 1 .. n \subseteq Jobs)
    /\ MaxTries \in Nat \ {0}
    /\ MaxErrors \in Nat /\ MaxBreaks \in Nat
    /\ None \notin Nat

VARIABLES
    now,
    booking,
    reservation,    \* of a booking's time
    request,        \* the latest request for a new time
    asks,
    connection,     \* calendar_connections: active, revoked, or none
    granted,        \* whether Google still honours it
    busy,           \* calendar_busy_blocks: the last known busy times
    event,          \* the time of a booking's event in Google, or None
    job,            \* calendar_jobs; "lapsed" is claimed more than five minutes ago
    worker,
    errors,
    breaks

timeVars == <<booking, reservation, request, asks>>
linkVars == <<connection, granted, busy>>
syncVars == <<event, job, worker>>
vars == <<now, timeVars, linkVars, syncVars, errors, breaks>>

Ids == Bookings \X Jobs
Parties == {"buyer", "seller"}
Verdicts == {"done", "queued", "failed"}

Idle == [pc |-> "idle", batch |-> {}, job |-> None, seen |-> None, verdict |-> "done"]

NoRequest == [state |-> "none", by |-> None, at |-> None, until |-> 0]
Answered(as) == [NoRequest EXCEPT !.state = as]

NotBooked == [state |-> "none", start |-> None, event |-> FALSE, link |-> "none"]

TypeOK ==
    /\ now \in 0 .. Horizon
    /\ booking \in [Bookings -> [state : {"none", "confirmed", "cancelled"},
                                 start : Starts \cup {None}, event : BOOLEAN,
                                 link : {"none", "seller", "meet", "auto"}]]
    /\ reservation \in [Bookings -> [state : {"none", "held", "lapsed", "released", "booked"},
                                     at : Starts \cup {None}]]
    /\ request \in [Bookings -> [state : {"none", "pending", "accepted", "declined", "expired"},
                                 by : Parties \cup {None}, at : Starts \cup {None},
                                 until : 0 .. Horizon + Patience]]
    /\ asks \in 0 .. MaxAsks
    /\ connection \in {"none", "active", "revoked"} /\ granted \in BOOLEAN
    /\ busy \subseteq Starts \cup Appointments
    /\ event \in [Bookings -> Starts \cup {None}]
    /\ job \in [Ids -> [state : {"none", "queued", "processing", "lapsed", "done", "failed"},
                        tries : 0 .. MaxTries]]
    /\ \A w \in Workers :
        /\ worker[w].pc \in {"idle", "batch", "put", "delete", "save", "finish"}
        /\ worker[w].batch \subseteq Ids /\ worker[w].job \in Ids \cup {None}
        /\ worker[w].verdict \in Verdicts
    /\ errors \in 0 .. MaxErrors /\ breaks \in 0 .. MaxBreaks

Init ==
    /\ now = 0
    /\ booking = [k \in Bookings |-> NotBooked]
    /\ reservation = [k \in Bookings |-> [state |-> "none", at |-> None]]
    /\ request = [k \in Bookings |-> NoRequest]
    /\ asks = 0
    /\ connection = "active" /\ granted = TRUE
    /\ busy = Appointments
    /\ event = [k \in Bookings |-> None]
    /\ job = [i \in Ids |-> [state |-> "none", tries |-> 0]]
    /\ worker = [w \in Workers |-> Idle]
    /\ errors = 0 /\ breaks = 0

Err == errors < MaxErrors /\ errors' = errors + 1 /\ UNCHANGED breaks
Break == breaks < MaxBreaks /\ breaks' = breaks + 1 /\ UNCHANGED errors
Calm == UNCHANGED <<errors, breaks>>

Tick ==
    /\ now < Horizon /\ now' = now + 1
    /\ UNCHANGED <<timeVars, linkVars, syncVars>> /\ Calm

-------------------------------------------------------------------------------
(* Times. *)

Overlap(s, t) == s < t + Length /\ t < s + Length

Active(k) == reservation[k].state \in {"held", "lapsed", "booked"}

\* The exclusion constraint on active reservations, of which a lapsed hold is one.
Taken(s, k) == \E l \in Bookings \ {k} : Active(l) /\ Overlap(reservation[l].at, s)

\* releaseExpiredHolds over the time wanted.
Swept(s, l) == reservation[l].state = "lapsed" /\ Overlap(reservation[l].at, s)

TakenAfterSweep(s, k) ==
    \E l \in Bookings \ {k} : Active(l) /\ ~Swept(s, l) /\ Overlap(reservation[l].at, s)

\* A busy time that is the booking's own event does not count.
CalendarConflict(s, k) == \E b \in busy : Overlap(b, s) /\ b # booking[k].start

ValidScheduledTime(s, k) == s \in Within /\ ~CalendarConflict(s, k)

InWindow(s) == s >= now + Notice

Upcoming(k) == booking[k].state = "confirmed" /\ booking[k].start > now

\* Mutant: a job that is being processed is thought to see the change.
WantedUnlessOpen(k) ==
    /\ connection = "active"
    /\ \A n \in Jobs : job[<<k, n>>].state \notin {"queued", "processing", "lapsed"}

\* enqueueCalendarSync: nothing without a connection, and one queued job at most.
Wanted(k) ==
    /\ connection = "active"
    /\ \A n \in Jobs : job[<<k, n>>].state # "queued"

NextJob(k) == CHOOSE n \in Jobs : /\ job[<<k, n>>].state = "none"
                                  /\ \A m \in 1 .. n - 1 : job[<<k, m>>].state # "none"

HasRoom(k) == \E n \in Jobs : job[<<k, n>>].state = "none"

EnqueueSync(k) ==
    /\ Wanted(k) => HasRoom(k)
    /\ job' = IF Wanted(k) THEN [job EXCEPT ![<<k, NextJob(k)>>].state = "queued"] ELSE job

\* The reservations after booking k has got time s, in the state given.
SweptFor(s, k, state) ==
    [l \in Bookings |->
        IF l = k THEN [state |-> state, at |-> s]
        ELSE IF Swept(s, l) THEN [reservation[l] EXCEPT !.state = "released"]
        ELSE reservation[l]]

\* A buyer chooses a time.
HoldTime(k, s) ==
    /\ booking[k].state = "none" /\ reservation[k].state = "none"
    /\ InWindow(s) /\ ValidScheduledTime(s, k)
    /\ ~TakenAfterSweep(s, k)
    /\ reservation' = SweptFor(s, k, "held")
    /\ UNCHANGED <<now, booking, request, asks, linkVars, syncVars>> /\ Calm

HoldLapses(k) ==
    /\ reservation[k].state = "held"
    /\ reservation' = [reservation EXCEPT ![k].state = "lapsed"]
    /\ UNCHANGED <<now, booking, request, asks, linkVars, syncVars>> /\ Calm

\* A payment arrives in time, or late for a time that is free.
ConfirmBooking(k) ==
    LET s == reservation[k].at IN
    /\ booking[k].state = "none"
    /\ \/ reservation[k].state = "held"
       \/ /\ reservation[k].state \in {"lapsed", "released"}
          /\ s > now /\ ValidScheduledTime(s, k) /\ ~Taken(s, k)
    /\ reservation' = [reservation EXCEPT ![k].state = "booked"]
    /\ booking' = [booking EXCEPT ![k].state = "confirmed", ![k].start = s]
    /\ EnqueueSync(k)
    /\ UNCHANGED <<now, request, asks, linkVars, event, worker>> /\ Calm

\* sellerDaySlots: what the public page shows.
DaySlots ==
    {s \in Listed :
        /\ InWindow(s)
        /\ \A k \in Bookings : reservation[k].state \in {"held", "booked"} =>
                                   ~Overlap(reservation[k].at, s)
        /\ \A b \in busy : ~Overlap(b, s)}

-------------------------------------------------------------------------------
(* A new time. *)

Pending(k) == request[k].state = "pending"
RequestOpen(k) == Pending(k) /\ request[k].until > now

\* A pending request that has expired gives way; one still open is in the way.
CreateReschedule(k, by, s) ==
    /\ Upcoming(k) /\ asks < MaxAsks
    /\ s # booking[k].start /\ InWindow(s) /\ ValidScheduledTime(s, k)
    /\ ~RequestOpen(k)
    /\ request' = [request EXCEPT ![k] = [state |-> "pending", by |-> by, at |-> s,
                                          until |-> now + Patience]]
    /\ asks' = asks + 1
    /\ UNCHANGED <<now, booking, reservation, linkVars, syncVars>> /\ Calm

\* The other party answers; the request and the reservation are locked.
Answerable(k, by) ==
    /\ Pending(k) /\ request[k].by # by
    /\ booking[k].state = "confirmed" /\ reservation[k].state = "booked"

ExpireReschedule(k, by) ==
    /\ Answerable(k, by)
    /\ request[k].until <= now \/ booking[k].start <= now
    /\ request' = [request EXCEPT ![k] = Answered("expired")]
    /\ UNCHANGED <<now, booking, reservation, asks, linkVars, syncVars>> /\ Calm

DeclineReschedule(k, by) ==
    /\ Answerable(k, by) /\ request[k].until > now
    /\ request' = [request EXCEPT ![k] = Answered("declined")]
    /\ UNCHANGED <<now, booking, reservation, asks, linkVars, syncVars>> /\ Calm

\* Mutant: the time was free when it was asked for.
CanMoveAsAsked(k) == request[k].at \in Within

\* Whether the time asked for can be had now.
CanMove(k) ==
    LET s == request[k].at IN
    InWindow(s) /\ ValidScheduledTime(s, k) /\ ~TakenAfterSweep(s, k)

AcceptReschedule(k, by) ==
    LET s == request[k].at IN
    /\ Answerable(k, by) /\ request[k].until > now /\ booking[k].start > now
    /\ CanMove(k)
    /\ reservation' = SweptFor(s, k, "booked")
    /\ booking' = [booking EXCEPT ![k].start = s]
    /\ request' = [request EXCEPT ![k] = Answered("accepted")]
    /\ EnqueueSync(k)
    /\ UNCHANGED <<now, asks, linkVars, event, worker>> /\ Calm

ApplyCancellation(k) ==
    /\ Upcoming(k)
    /\ booking' = [booking EXCEPT ![k].state = "cancelled"]
    /\ reservation' = [reservation EXCEPT ![k].state = "released"]
    /\ request' = IF Pending(k) THEN [request EXCEPT ![k] = Answered("expired")] ELSE request
    /\ EnqueueSync(k)
    /\ UNCHANGED <<now, asks, linkVars, event, worker>> /\ Calm

-------------------------------------------------------------------------------
(* The connection and the link to the meeting. *)

\* Blocks of the seller's other appointments and of the bookings' own events.
SyncSellerBusy ==
    /\ connection = "active"
    /\ IF granted
       THEN /\ busy' = Appointments \cup ({event[k] : k \in Bookings} \ {None})
            /\ UNCHANGED connection
       ELSE connection' = "revoked" /\ UNCHANGED busy
    /\ UNCHANGED <<now, timeVars, granted, syncVars>> /\ Calm

\* The seller withdraws the access at Google.
AccessWithdrawn ==
    /\ granted /\ Break /\ granted' = FALSE
    /\ UNCHANGED <<now, timeVars, connection, busy, syncVars>>

CalendarDisconnect ==
    /\ connection # "none" /\ Break
    /\ connection' = "none" /\ granted' = FALSE /\ busy' = {}
    /\ UNCHANGED <<now, timeVars, syncVars>>

\* EnqueueCalendarSyncForSeller: a job for every upcoming booking.
CalendarCallback ==
    LET due == {k \in Bookings : Upcoming(k) /\ \A n \in Jobs : job[<<k, n>>].state # "queued"} IN
    /\ ~granted
    /\ \A k \in due : HasRoom(k)
    /\ connection' = "active" /\ granted' = TRUE /\ busy' = {}
    /\ job' = [i \in Ids |-> IF i[1] \in due /\ i[2] = NextJob(i[1])
                             THEN [job[i] EXCEPT !.state = "queued"] ELSE job[i]]
    /\ UNCHANGED <<now, timeVars, event, worker>> /\ Calm

UpdateMeetingLink(k) ==
    /\ Upcoming(k)
    /\ booking' = [booking EXCEPT ![k].link = "seller"]
    /\ UNCHANGED <<now, reservation, request, asks, linkVars, syncVars>> /\ Calm

\* Shortly before the start, and a while after it.
CreateMissingMeetingLinks(k) ==
    /\ booking[k].state = "confirmed" /\ booking[k].link = "none"
    /\ booking[k].start - now \in {0, 1}
    /\ booking' = [booking EXCEPT ![k].link = "auto"]
    /\ UNCHANGED <<now, reservation, request, asks, linkVars, syncVars>> /\ Calm

-------------------------------------------------------------------------------
(* Jobs. *)

\* Mutant: a claim that expired is nobody's.
ClaimableQueued == {i \in Ids : job[i].tries < MaxTries /\ job[i].state = "queued"}

Claimable == {i \in Ids : job[i].tries < MaxTries /\ job[i].state \in {"queued", "lapsed"}}

ClaimCalendarJobs(w) ==
    /\ worker[w].pc = "idle" /\ Claimable # {}
    /\ job' = [i \in Ids |-> IF i \in Claimable
                             THEN [state |-> "processing", tries |-> job[i].tries + 1]
                             ELSE job[i]]
    /\ worker' = [worker EXCEPT ![w] = [Idle EXCEPT !.pc = "batch", !.batch = Claimable]]
    /\ UNCHANGED <<now, timeVars, linkVars, event>> /\ Calm

Busy(i) == job[i].state \in {"queued", "processing", "lapsed"}

\* A job that is to be tried again beside a newer one in the queue stays as it
\* is: the index refuses, and nobody looks at the error.
Finished(i, verdict) ==
    LET to == IF verdict = "queued" /\ job[i].tries >= MaxTries THEN "failed" ELSE verdict
        refused == to = "queued" /\ \E n \in Jobs \ {i[2]} : job[<<i[1], n>>].state = "queued"
    IN  IF refused THEN job ELSE [job EXCEPT ![i].state = to]

Rest(w) == IF worker[w].batch = {} THEN Idle
           ELSE [Idle EXCEPT !.pc = "batch", !.batch = worker[w].batch]

Seen(k) == [there |-> booking[k].state = "confirmed", start |-> booking[k].start,
            link |-> booking[k].link]

TakeUp(w, i, pc, verdict) ==
    worker' = [worker EXCEPT ![w] = [pc |-> pc, batch |-> @.batch \ {i}, job |-> i,
                                     seen |-> Seen(i[1]), verdict |-> verdict]]

ToDo(k) ==
    IF connection # "active" THEN "finish"
    ELSE IF booking[k].state # "confirmed"
    THEN IF booking[k].event THEN "delete" ELSE "finish"
    ELSE IF booking[k].start > now THEN "put" ELSE "finish"

\* The booking and the connection are read; what is to be done follows from that.
\* A job whose booking cannot be read has failed for good; without the connection
\* or an access token it is tried again.
ReadJob(w, i) ==
    /\ worker[w].pc = "batch" /\ i \in worker[w].batch
    /\ \/ TakeUp(w, i, ToDo(i[1]), "done") /\ Calm
       \/ Err /\ \E v \in {"queued", "failed"} : TakeUp(w, i, "finish", v)
    /\ UNCHANGED <<now, timeVars, linkVars, event, job>>

\* Inserted under the booking's own id, moved, or brought back into shape; or deleted.
InGoogle(w) ==
    IF worker[w].pc = "put" THEN worker[w].seen.start ELSE None

CallGoogle(w) ==
    LET k == worker[w].job[1] IN
    /\ worker[w].pc \in {"put", "delete"}
    /\ \/ /\ granted /\ event' = [event EXCEPT ![k] = InGoogle(w)]
          /\ worker' = [worker EXCEPT ![w].pc = "save"]
          /\ UNCHANGED connection /\ Calm
       \/ /\ granted
          /\ \/ Err /\ UNCHANGED event                                    \* refused
             \/ Break /\ event' = [event EXCEPT ![k] = InGoogle(w)]  \* the answer is lost
          /\ worker' = [worker EXCEPT ![w].pc = "finish", ![w].verdict = "queued"]
          /\ UNCHANGED connection
       \/ /\ ~granted
          /\ connection' = IF connection = "none" THEN "none" ELSE "revoked"
          /\ worker' = [worker EXCEPT ![w].pc = "finish"]
          /\ UNCHANGED event /\ Calm
    /\ UNCHANGED <<now, timeVars, granted, busy, job>>

\* Mutant: Google's link replaces whatever there is.
MeetLinkAnyway(k, seen) ==
    IF seen.link = "none" /\ booking[k].state = "confirmed" THEN "meet" ELSE booking[k].link

\* SetBookingMeetLink
MeetLink(k, seen) ==
    IF seen.link = "none" /\ booking[k].link = "none" /\ Upcoming(k)
    THEN "meet" ELSE booking[k].link

\* The id of the event is noted, and Google's link if the booking had none.  The
\* job is done if nothing is noted of an event that was deleted.
SaveEvent(w) ==
    LET k == worker[w].job[1]
        seen == worker[w].seen
        there == seen.there
        wanted == there /\ seen.link = "none"
        Ends(verdict) == worker' = [worker EXCEPT ![w].pc = "finish", ![w].verdict = verdict]
    IN
    /\ worker[w].pc = "save"
    /\ \/ /\ booking' = [booking EXCEPT ![k].event = there,
                                        ![k].link = IF there THEN MeetLink(k, seen) ELSE @]
          /\ worker' = [worker EXCEPT ![w].pc = "finish"] /\ Calm
       \/ \* Google is still making the link, or makes none
          /\ wanted /\ booking' = [booking EXCEPT ![k].event = TRUE]
          /\ \E v \in {"queued", "failed"} : Ends(v) /\ Calm
       \/ \* the link is not saved
          /\ wanted /\ booking' = [booking EXCEPT ![k].event = TRUE]
          /\ Ends("queued") /\ Err
       \/ \* nothing is
          /\ IF there THEN Ends("queued") /\ Break ELSE Ends("done") /\ Err
          /\ UNCHANGED booking
    /\ UNCHANGED <<now, reservation, request, asks, linkVars, event, job>>

FinishCalendarJob(w) ==
    /\ worker[w].pc = "finish"
    /\ job' = Finished(worker[w].job, worker[w].verdict)
    /\ worker' = [worker EXCEPT ![w] = Rest(w)]
    /\ UNCHANGED <<now, timeVars, linkVars, event>> /\ Calm

WorkerStops(w) ==
    /\ worker[w].pc # "idle" /\ Break
    /\ worker' = [worker EXCEPT ![w] = Idle]
    /\ UNCHANGED <<now, timeVars, linkVars, event, job>>

HeldByWorker(i) == \E w \in Workers : i \in worker[w].batch \cup {worker[w].job}

\* Five minutes pass, of a stopped worker, a slow one, or one that could not
\* put the job back.
ClaimLapses(i) ==
    /\ job[i].state = "processing"
    /\ IF HeldByWorker(i) THEN Err ELSE Calm
    /\ job' = [job EXCEPT ![i].state = "lapsed"]
    /\ UNCHANGED <<now, timeVars, linkVars, event, worker>>

-------------------------------------------------------------------------------

CalendarWorker(w) ==
    \/ ClaimCalendarJobs(w) \/ CallGoogle(w) \/ SaveEvent(w) \/ FinishCalendarJob(w)
    \/ \E i \in Ids : ReadJob(w, i)

Next ==
    \/ Tick
    \/ \E k \in Bookings, s \in Starts : HoldTime(k, s)
    \/ \E k \in Bookings : \/ HoldLapses(k) \/ ConfirmBooking(k) \/ ApplyCancellation(k)
                           \/ UpdateMeetingLink(k) \/ CreateMissingMeetingLinks(k)
    \/ \E k \in Bookings, by \in Parties :
        \/ \E s \in Starts : CreateReschedule(k, by, s)
        \/ ExpireReschedule(k, by) \/ DeclineReschedule(k, by) \/ AcceptReschedule(k, by)
    \/ SyncSellerBusy \/ AccessWithdrawn \/ CalendarDisconnect \/ CalendarCallback
    \/ \E w \in Workers : CalendarWorker(w) \/ WorkerStops(w)
    \/ \E i \in Ids : ClaimLapses(i)

Spec == Init /\ [][Next]_vars

\* A worker that has something to do does it, and a claim is not kept for ever.
Progress ==
    \/ \E w \in Workers : CalendarWorker(w)
    \/ \E i \in Ids : ClaimLapses(i)

FairSpec == Spec /\ WF_vars(Progress)

-------------------------------------------------------------------------------
(* Properties. *)

\* Through holds, late payments, moves and cancellations a confirmed booking
\* keeps the reservation of its own time, and no two overlap.
BookedTimesApart ==
    /\ \A k \in Bookings : booking[k].state = "confirmed" =>
            reservation[k] = [state |-> "booked", at |-> booking[k].start]
    /\ \A k, l \in Bookings : k # l /\ Active(k) /\ Active(l) =>
            ~Overlap(reservation[k].at, reservation[l].at)

\* On an ordinary day, and on the day the clock goes back: what the public page
\* shows can be held at that moment, by any new buyer.
ShownCanBeHeld ==
    \A k \in Bookings, s \in DaySlots :
        booking[k].state = "none" /\ reservation[k].state = "none" =>
            InWindow(s) /\ ValidScheduledTime(s, k) /\ ~TakenAfterSweep(s, k)

\* Every moment of a time on the public page is in the seller's hours.
ShownWithinHours ==
    \A s \in DaySlots : \A t \in s .. s + Length - 1 :
        \E v \in Windows : v[1] <= Local(t) /\ Local(t) < v[2]

Standing(k) ==
    IF booking[k].state = "confirmed" THEN "booked"
    ELSE IF booking[k].state = "cancelled" THEN "over"
    ELSE IF Active(k) THEN "held" ELSE "free"

Times == INSTANCE SellerTimes WITH
    Clients <- Bookings,
    Times <- Starts,
    Nowhere <- None,
    Conflicts <- {x \in Starts \X Starts : Overlap(x[1], x[2])},
    standing <- [k \in Bookings |-> Standing(k)],
    time <- [k \in Bookings |-> reservation[k].at]

\* Holds, late payments, moves and cancellations do to the seller's times what
\* SellerTimes permits: a move takes the new time and leaves the old one in one
\* step, beside every other booking and hold in force.
KeepsTimes == Times!TimesSpec

\* The link the seller has given stays, also when a worker asked Google for one
\* before.
SellersLinkStays ==
    [][\A k \in Bookings : booking[k].link = "seller" => booking'[k].link = "seller"]_vars

Settled(k) == \A n \in Jobs : job[<<k, n>>].state \in {"none", "done"}

\* As long as no two workers have jobs of one booking in hand: once its jobs are
\* done, the event of an upcoming booking is at the booking's time, through refused
\* calls, lost answers, stops and a new connection; and that of a cancelled one is
\* gone, unless there was a break.
EventMatchesBooking ==
    \A k \in Bookings :
        Settled(k) /\ connection = "active" /\ granted =>
            /\ Upcoming(k) => event[k] = booking[k].start
            /\ booking[k].state = "cancelled" /\ breaks = 0 => event[k] = None

\* The event of a cancelled booking is removed by its jobs.
EventRemoved ==
    \A k \in Bookings :
        Settled(k) /\ connection = "active" /\ granted =>
            (booking[k].state = "cancelled" => event[k] = None)

\* A job is finished in the end, also the one that could not be put back beside
\* a newer one, unless it was lost at its last attempt.
JobsEnd == []<>(\A i \in Ids : Busy(i) => job[i].tries = MaxTries)

===============================================================================
