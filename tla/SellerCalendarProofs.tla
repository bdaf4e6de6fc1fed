-------------------------- MODULE SellerCalendarProofs --------------------------
(***************************************************************************)
(* That booked times stay apart, for any bookings, times, jobs and         *)
(* workers; and that workers never beside each other on one booking bring  *)
(* Google's calendar in line with them.                                    *)
(***************************************************************************)
EXTENDS SellerCalendar, WellFoundedInduction, TLAPS

LinkStates == {"none", "seller", "meet", "auto"}

ReservationType == [state : {"none", "held", "lapsed", "released", "booked"},
                    at : Starts \cup {None}]

\* The clock, the bookings, their reservations and the requests for a new time.
TimesTyped ==
    /\ now \in Nat
    /\ booking \in [Bookings -> [state : {"none", "confirmed", "cancelled"},
                                 start : Starts \cup {None}, event : BOOLEAN,
                                 link : LinkStates]]
    /\ reservation \in [Bookings -> ReservationType]
    /\ request \in [Bookings -> [state : {"none", "pending", "accepted", "declined", "expired"},
                                 by : Parties \cup {None}, at : Starts \cup {None}, until : Int]]

\* A reservation and a request are for a time; a booking has reserved its own.
TimesMeant ==
    \A k \in Bookings :
        /\ reservation[k].state # "none" => reservation[k].at \in Starts
        /\ request[k].state = "pending" => request[k].at \in Starts
        /\ booking[k].state = "confirmed" =>
            reservation[k] = [state |-> "booked", at |-> booking[k].start]

ActiveApart ==
    \A k, l \in Bookings : k # l /\ Active(k) /\ Active(l) =>
        ~Overlap(reservation[k].at, reservation[l].at)

TimesInv == TimesTyped /\ TimesMeant /\ ActiveApart

LEMMA OverlapSymmetric ==
    ASSUME NEW s \in Starts, NEW t \in Starts
    PROVE  Overlap(s, t) <=> Overlap(t, s)
  BY CalendarConstants DEF Overlap

LEMMA TimesInitInv == Init => TimesInv
<1> SUFFICES ASSUME Init PROVE TimesInv
  OBVIOUS
<1>1. /\ now = 0
      /\ booking = [k \in Bookings |-> NotBooked]
      /\ reservation = [k \in Bookings |-> [state |-> "none", at |-> None]]
      /\ request = [k \in Bookings |-> NoRequest]
  BY DEF Init
<1>2. TimesTyped
  BY <1>1 DEF TimesTyped, ReservationType, LinkStates, NotBooked, NoRequest
<1>3. TimesMeant
  BY <1>1 DEF TimesMeant, NotBooked, NoRequest
<1>4. ActiveApart
  BY <1>1 DEF ActiveApart, Active
<1> QED BY <1>2, <1>3, <1>4 DEF TimesInv

\* A reservation made where nothing is in the way, once what has lapsed there is
\* released.
LEMMA ReserveApart ==
    ASSUME TimesInv, NEW k \in Bookings, NEW s \in Starts, NEW got \in {"held", "booked"},
           ~TakenAfterSweep(s, k), reservation' = [l \in Bookings |-> reservation'[l]],
           reservation'[k] = [state |-> got, at |-> s],
           \A l \in Bookings \ {k} :
                reservation'[l] = IF Swept(s, l) THEN [reservation[l] EXCEPT !.state = "released"]
                                  ELSE reservation[l]
    PROVE  /\ reservation' \in [Bookings -> ReservationType]
           /\ \A l \in Bookings \ {k} :
                /\ reservation'[l].at = reservation[l].at
                /\ reservation'[l].state \in {reservation[l].state, "released"}
                /\ reservation[l].state # "lapsed" => reservation'[l] = reservation[l]
                /\ reservation[l].state = "none" => reservation'[l].state = "none"
           /\ ActiveApart'
<1>3. reservation'[k] \in ReservationType
  BY DEF ReservationType
<1>4. ASSUME NEW l \in Bookings \ {k}
      PROVE  /\ reservation'[l].at = reservation[l].at
             /\ reservation'[l].state = IF Swept(s, l) THEN "released" ELSE reservation[l].state
             /\ reservation'[l] \in ReservationType
  <2>1. reservation[l] \in ReservationType
    BY DEF TimesInv, TimesTyped
  <2>2. CASE Swept(s, l)
    BY <2>1, <2>2 DEF ReservationType
  <2>3. CASE ~Swept(s, l)
    BY <2>1, <2>3
  <2> QED BY <2>2, <2>3
<1>5. \A l \in Bookings \ {k} : reservation[l].state # "lapsed" => reservation'[l] = reservation[l]
  BY DEF Swept
<1>6. ASSUME NEW l \in Bookings \ {k}, Active(l)' PROVE ~Overlap(reservation'[l].at, s)
                                                   /\ Active(l)
  <2>1. ~Swept(s, l) /\ Active(l)
    BY <1>4, <1>6 DEF Active
  <2> QED BY <1>4, <2>1 DEF TakenAfterSweep
<1>7. \A l \in Bookings : Active(l) => reservation[l].at \in Starts
  BY DEF TimesInv, TimesMeant, Active
<1>8. ActiveApart'
  <2> SUFFICES ASSUME NEW l \in Bookings, NEW m \in Bookings, l # m, Active(l)', Active(m)'
               PROVE  ~Overlap(reservation'[l].at, reservation'[m].at)
    BY DEF ActiveApart
  <2>1. CASE m = k
    <3>1. ~Overlap(reservation'[l].at, s) /\ reservation'[m].at = s
      BY <1>6, <2>1
    <3> QED BY <3>1
  <2>2. CASE l = k
    <3>1. ~Overlap(reservation'[m].at, s) /\ reservation'[m].at \in Starts
      BY <1>4, <1>6, <1>7, <2>2
    <3>2. reservation'[l].at = s
      BY <2>2
    <3> QED BY <3>1, <3>2, OverlapSymmetric
  <2>3. CASE l # k /\ m # k
    BY <1>4, <1>6, <2>3 DEF TimesInv, ActiveApart
  <2> QED BY <2>1, <2>2, <2>3
<1>9. reservation' \in [Bookings -> ReservationType]
  BY <1>3, <1>4
<1> QED BY <1>4, <1>5, <1>8, <1>9 DEF Swept

LEMMA HoldTimeInv ==
    ASSUME TimesInv, NEW k \in Bookings, NEW s \in Starts, HoldTime(k, s)
    PROVE  TimesInv'
<1>1. /\ ~TakenAfterSweep(s, k) /\ reservation' = SweptFor(s, k, "held")
      /\ now' = now /\ booking' = booking /\ request' = request /\ booking[k].state = "none"
  BY DEF HoldTime
<1>5. /\ reservation' \in [Bookings -> ReservationType] /\ ActiveApart'
      /\ reservation'[k] = [state |-> "held", at |-> s]
      /\ \A l \in Bookings \ {k} :
            /\ reservation'[l].at = reservation[l].at
            /\ reservation[l].state # "lapsed" => reservation'[l] = reservation[l]
            /\ reservation[l].state = "none" => reservation'[l].state = "none"
  <2>1. /\ reservation' = [l \in Bookings |-> reservation'[l]]
        /\ reservation'[k] = [state |-> "held", at |-> s]
        /\ \A l \in Bookings \ {k} :
                reservation'[l] = IF Swept(s, l) THEN [reservation[l] EXCEPT !.state = "released"]
                                  ELSE reservation[l]
    BY <1>1 DEF SweptFor
  <2> QED BY <1>1, <2>1, ReserveApart
<1>2. TimesTyped'
  BY <1>1, <1>5 DEF TimesInv, TimesTyped
<1>3. TimesMeant'
  <2> SUFFICES ASSUME NEW l \in Bookings
               PROVE  /\ reservation'[l].state # "none" => reservation'[l].at \in Starts
                      /\ request'[l].state = "pending" => request'[l].at \in Starts
                      /\ booking'[l].state = "confirmed" =>
                            reservation'[l] = [state |-> "booked", at |-> booking'[l].start]
    BY DEF TimesMeant
  <2>1. CASE l = k
    BY <1>1, <1>5, <2>1 DEF TimesInv, TimesMeant
  <2>2. CASE l # k
    BY <1>1, <1>5, <2>2 DEF TimesInv, TimesMeant
  <2> QED BY <2>1, <2>2
<1> QED BY <1>2, <1>3, <1>5 DEF TimesInv

LEMMA AcceptInv ==
    ASSUME TimesInv, NEW k \in Bookings, NEW by \in Parties, AcceptReschedule(k, by)
    PROVE  TimesInv'
<1> DEFINE s == request[k].at
<1>1. /\ ~TakenAfterSweep(s, k) /\ reservation' = SweptFor(s, k, "booked")
      /\ now' = now /\ booking' = [booking EXCEPT ![k].start = s]
      /\ request' = [request EXCEPT ![k] = Answered("accepted")]
      /\ request[k].state = "pending"
  BY DEF AcceptReschedule, CanMove, Answerable, Pending
<1>2. s \in Starts
  BY <1>1 DEF TimesInv, TimesMeant
<1> HIDE DEF s
<1>7. /\ reservation' \in [Bookings -> ReservationType] /\ ActiveApart'
      /\ reservation'[k] = [state |-> "booked", at |-> s]
      /\ \A l \in Bookings \ {k} :
            /\ reservation'[l].at = reservation[l].at
            /\ reservation[l].state # "lapsed" => reservation'[l] = reservation[l]
            /\ reservation[l].state = "none" => reservation'[l].state = "none"
  <2>1. /\ reservation' = [l \in Bookings |-> reservation'[l]]
        /\ reservation'[k] = [state |-> "booked", at |-> s]
        /\ \A l \in Bookings \ {k} :
                reservation'[l] = IF Swept(s, l) THEN [reservation[l] EXCEPT !.state = "released"]
                                  ELSE reservation[l]
    BY <1>1 DEF SweptFor
  <2> QED BY <1>1, <1>2, <2>1, ReserveApart
<1>3. TimesTyped'
  <2>1. booking' \in [Bookings -> [state : {"none", "confirmed", "cancelled"},
                                   start : Starts \cup {None}, event : BOOLEAN,
                                   link : LinkStates]]
    BY <1>1, <1>2 DEF TimesInv, TimesTyped
  <2>2. request' \in [Bookings ->
            [state : {"none", "pending", "accepted", "declined", "expired"},
             by : Parties \cup {None}, at : Starts \cup {None}, until : Int]]
    BY <1>1 DEF TimesInv, TimesTyped, Answered, NoRequest
  <2> QED BY <1>1, <1>7, <2>1, <2>2 DEF TimesInv, TimesTyped
<1>4. \A l \in Bookings : l # k => booking'[l] = booking[l] /\ request'[l] = request[l]
  BY <1>1 DEF TimesInv, TimesTyped
<1>5. booking'[k].start = s /\ request'[k].state # "pending"
  BY <1>1 DEF TimesInv, TimesTyped, Answered, NoRequest
<1>6. TimesMeant'
  <2> SUFFICES ASSUME NEW l \in Bookings
               PROVE  /\ reservation'[l].state # "none" => reservation'[l].at \in Starts
                      /\ request'[l].state = "pending" => request'[l].at \in Starts
                      /\ booking'[l].state = "confirmed" =>
                            reservation'[l] = [state |-> "booked", at |-> booking'[l].start]
    BY DEF TimesMeant
  <2>1. CASE l = k
    BY <1>2, <1>5, <1>7, <2>1
  <2>2. CASE l # k
    <3>1. booking'[l] = booking[l] /\ request'[l] = request[l]
      BY <1>4, <2>2
    <3>2. /\ reservation'[l].at = reservation[l].at
          /\ reservation[l].state # "lapsed" => reservation'[l] = reservation[l]
          /\ reservation[l].state = "none" => reservation'[l].state = "none"
      BY <1>7, <2>2
    <3> QED BY <3>1, <3>2 DEF TimesInv, TimesMeant
  <2> QED BY <2>1, <2>2
<1> QED BY <1>3, <1>6, <1>7 DEF TimesInv

\* A payment that comes late finds its own time still free, or free again.
LEMMA ConfirmInv ==
    ASSUME TimesInv, NEW k \in Bookings, ConfirmBooking(k)
    PROVE  TimesInv'
<1> DEFINE s == reservation[k].at
<1>1. /\ now' = now /\ request' = request
      /\ reservation' = [reservation EXCEPT ![k].state = "booked"]
      /\ booking' = [booking EXCEPT ![k].state = "confirmed", ![k].start = s]
      /\ reservation[k].state \in {"held", "lapsed", "released"}
      /\ Active(k) \/ ~Taken(s, k)
  BY DEF ConfirmBooking, Active
<1>2. s \in Starts
  BY <1>1 DEF TimesInv, TimesMeant
<1>8. /\ booking' = [booking EXCEPT ![k] = [@ EXCEPT !.state = "confirmed", !.start = s]]
      /\ reservation' = [reservation EXCEPT ![k] = [@ EXCEPT !.state = "booked"]]
  BY <1>1 DEF TimesInv, TimesTyped
<1>3. /\ \A l \in Bookings : l # k => booking'[l] = booking[l] /\ reservation'[l] = reservation[l]
      /\ reservation'[k] = [state |-> "booked", at |-> s]
      /\ booking'[k].state = "confirmed" /\ booking'[k].start = s
  <2>1. /\ \A l \in Bookings : l # k => booking'[l] = booking[l] /\ reservation'[l] = reservation[l]
        /\ reservation'[k] = [reservation[k] EXCEPT !.state = "booked"]
        /\ booking'[k] = [booking[k] EXCEPT !.state = "confirmed", !.start = s]
        /\ reservation[k] \in ReservationType
        /\ booking[k] \in [state : {"none", "confirmed", "cancelled"},
                            start : Starts \cup {None}, event : BOOLEAN, link : LinkStates]
    BY <1>8 DEF TimesInv, TimesTyped
  <2> QED BY <2>1 DEF ReservationType
<1>4. TimesTyped'
  <2>1. booking' \in [Bookings -> [state : {"none", "confirmed", "cancelled"},
                                   start : Starts \cup {None}, event : BOOLEAN,
                                   link : LinkStates]]
    <3> HIDE DEF s
    <3> QED BY <1>2, <1>8 DEF TimesInv, TimesTyped
  <2>2. reservation' \in [Bookings -> ReservationType]
    BY <1>1 DEF TimesInv, TimesTyped, ReservationType
  <2> QED BY <1>1, <2>1, <2>2 DEF TimesInv, TimesTyped
<1>5. ASSUME NEW l \in Bookings, l # k, Active(l)
      PROVE  ~Overlap(reservation[l].at, s) /\ ~Overlap(s, reservation[l].at)
  <2>1. ~Overlap(reservation[l].at, s)
    BY <1>1, <1>5 DEF Taken, TimesInv, ActiveApart
  <2>2. reservation[l].at \in Starts
    BY <1>5 DEF TimesInv, TimesMeant, Active
  <2> QED BY <1>2, <2>1, <2>2, OverlapSymmetric
<1> HIDE DEF s
<1>6. TimesMeant'
  <2> SUFFICES ASSUME NEW l \in Bookings
               PROVE  /\ reservation'[l].state # "none" => reservation'[l].at \in Starts
                      /\ request'[l].state = "pending" => request'[l].at \in Starts
                      /\ booking'[l].state = "confirmed" =>
                            reservation'[l] = [state |-> "booked", at |-> booking'[l].start]
    BY DEF TimesMeant
  <2>1. CASE l = k
    <3>1. request'[k] = request[k]
      BY <1>1
    <3>2. reservation'[k].at = s
      BY <1>3
    <3> QED BY <1>2, <1>3, <2>1, <3>1, <3>2 DEF TimesInv, TimesMeant
  <2>2. CASE l # k
    BY <1>1, <1>3, <2>2 DEF TimesInv, TimesMeant
  <2> QED BY <2>1, <2>2
<1>7. ActiveApart'
  BY <1>3, <1>5 DEF TimesInv, ActiveApart, Active
<1> QED BY <1>4, <1>6, <1>7 DEF TimesInv

LEMMA CancelInv ==
    ASSUME TimesInv, NEW k \in Bookings, ApplyCancellation(k)
    PROVE  TimesInv'
<1>1. /\ now' = now
      /\ booking' = [booking EXCEPT ![k].state = "cancelled"]
      /\ reservation' = [reservation EXCEPT ![k].state = "released"]
      /\ request' = request \/ request' = [request EXCEPT ![k] = Answered("expired")]
  BY DEF ApplyCancellation
<1>11. reservation[k].at \in Starts
  BY DEF ApplyCancellation, Upcoming, TimesInv, TimesTyped, TimesMeant
<1>2. /\ booking' = [booking EXCEPT ![k] = [@ EXCEPT !.state = "cancelled"]]
      /\ reservation' = [reservation EXCEPT ![k] = [@ EXCEPT !.state = "released"]]
  BY <1>1 DEF TimesInv, TimesTyped
<1>3. \A l \in Bookings :
        /\ reservation'[l].at = reservation[l].at
        /\ reservation'[l].state = IF l = k THEN "released" ELSE reservation[l].state
        /\ booking'[l].state = IF l = k THEN "cancelled" ELSE booking[l].state
        /\ booking'[l].start = booking[l].start
        /\ l # k => reservation'[l] = reservation[l]
  BY <1>2 DEF TimesInv, TimesTyped, ReservationType
<1>4. \A l \in Bookings : request'[l].state = "pending" => request'[l] = request[l]
  BY <1>1 DEF TimesInv, TimesTyped, Answered, NoRequest
<1>5. request' \in [Bookings -> [state : {"none", "pending", "accepted", "declined", "expired"},
                                 by : Parties \cup {None}, at : Starts \cup {None}, until : Int]]
  BY <1>1 DEF TimesInv, TimesTyped, Answered, NoRequest
<1>6. booking' \in [Bookings -> [state : {"none", "confirmed", "cancelled"},
                                 start : Starts \cup {None}, event : BOOLEAN,
                                 link : LinkStates]]
  BY <1>2 DEF TimesInv, TimesTyped
<1>7. reservation' \in [Bookings -> ReservationType]
  BY <1>2 DEF TimesInv, TimesTyped, ReservationType
<1>8. TimesTyped'
  BY <1>1, <1>5, <1>6, <1>7 DEF TimesInv, TimesTyped
<1>9. TimesMeant'
  <2> SUFFICES ASSUME NEW l \in Bookings
               PROVE  /\ reservation'[l].state # "none" => reservation'[l].at \in Starts
                      /\ request'[l].state = "pending" => request'[l].at \in Starts
                      /\ booking'[l].state = "confirmed" =>
                            reservation'[l] = [state |-> "booked", at |-> booking'[l].start]
    BY DEF TimesMeant
  <2>2. CASE l = k
    BY <1>3, <1>4, <2>2, <1>11 DEF TimesInv, TimesMeant
  <2>3. CASE l # k
    BY <1>3, <1>4, <2>3 DEF TimesInv, TimesMeant
  <2> QED BY <2>2, <2>3
<1>10. ActiveApart'
  BY <1>3 DEF TimesInv, ActiveApart, Active
<1> QED BY <1>8, <1>9, <1>10 DEF TimesInv

\* What the workers and the seller's link do to a booking leaves its time alone.
LEMMA LinkInv ==
    ASSUME TimesInv, now' \in Nat, UNCHANGED <<reservation, request>>,
           booking' \in [Bookings -> [state : {"none", "confirmed", "cancelled"},
                                      start : Starts \cup {None}, event : BOOLEAN,
                                      link : LinkStates]],
           \A l \in Bookings : /\ booking'[l].state = booking[l].state
                               /\ booking'[l].start = booking[l].start
    PROVE  TimesInv'
<1>1. TimesTyped'
  BY DEF TimesInv, TimesTyped
<1>2. TimesMeant'
  BY DEF TimesInv, TimesMeant
<1>3. ActiveApart'
  BY DEF TimesInv, ActiveApart, Active
<1> QED BY <1>1, <1>2, <1>3 DEF TimesInv

LEMMA RequestInv ==
    ASSUME TimesInv, NEW k \in Bookings, UNCHANGED <<now, booking, reservation>>,
           NEW r \in [state : {"none", "pending", "accepted", "declined", "expired"},
                      by : Parties \cup {None}, at : Starts \cup {None}, until : Int],
           r.state = "pending" => r.at \in Starts, request' = [request EXCEPT ![k] = r]
    PROVE  TimesInv'
<1>1. TimesTyped'
  BY DEF TimesInv, TimesTyped
<1>2. TimesMeant'
  BY DEF TimesInv, TimesTyped, TimesMeant
<1>3. ActiveApart'
  BY DEF TimesInv, ActiveApart, Active
<1> QED BY <1>1, <1>2, <1>3 DEF TimesInv

(***************************************************************************)
(* The workers.                                                            *)
(***************************************************************************)

SeenType == [there : BOOLEAN, start : Starts \cup {None}, link : LinkStates]
JobType == [state : {"none", "queued", "processing", "lapsed", "done", "failed"},
            tries : 0 .. MaxTries]
WorkerType == [pc : {"idle", "batch", "put", "delete", "save", "finish"}, batch : SUBSET Ids,
               job : Ids \cup {None}, seen : SeenType \cup {None}, verdict : Verdicts]

\* A worker that calls Google, or notes what came of it, has read a booking.
WorkTyped ==
    /\ event \in [Bookings -> Starts \cup {None}]
    /\ job \in [Ids -> JobType]
    /\ worker \in [Workers -> WorkerType]
    /\ \A w \in Workers : worker[w].pc \in {"put", "delete", "save"} =>
            worker[w].job \in Ids /\ worker[w].seen \in SeenType

LEMMA WorkInitTyped == Init => WorkTyped
  BY CalendarConstants DEF Init, WorkTyped, Idle, Verdicts, JobType, WorkerType, SeenType

LEMMA QueuedTyped ==
    ASSUME WorkTyped, NEW k \in Bookings, EnqueueSync(k), UNCHANGED <<event, worker>>
    PROVE  WorkTyped'
<1>1. ASSUME NEW i, job' = [job EXCEPT ![i].state = "queued"] PROVE job' \in [Ids -> JobType]
  BY <1>1 DEF WorkTyped, JobType
<1>2. job' = job \/ \E i : job' = [job EXCEPT ![i].state = "queued"]
  BY DEF EnqueueSync
<1>3. job' \in [Ids -> JobType]
  BY <1>1, <1>2 DEF WorkTyped
<1> QED BY <1>3 DEF WorkTyped

\* A worker takes one step.
LEMMA OneWorker ==
    ASSUME WorkTyped, NEW w \in Workers, NEW r \in WorkerType,
           r.pc \in {"put", "delete", "save"} => r.job \in Ids /\ r.seen \in SeenType,
           worker' = [worker EXCEPT ![w] = r],
           event' \in [Bookings -> Starts \cup {None}], job' \in [Ids -> JobType]
    PROVE  WorkTyped'
  BY DEF WorkTyped

LEMMA WorkerTyped ==
    ASSUME TimesInv, WorkTyped, NEW w \in Workers, CalendarWorker(w) \/ WorkerStops(w)
    PROVE  WorkTyped'
<1>0. /\ worker[w] \in WorkerType
      /\ job \in [Ids -> JobType] /\ event \in [Bookings -> Starts \cup {None}]
      /\ Idle \in WorkerType
  BY DEF WorkTyped, WorkerType, Idle, Verdicts
<1>1. CASE ClaimCalendarJobs(w)
  <2> DEFINE r == [Idle EXCEPT !.pc = "batch", !.batch = Claimable]
  <2>1. r \in WorkerType /\ r.pc = "batch"
    BY DEF Claimable, Idle, WorkerType, Verdicts
  <2>2. worker' = [worker EXCEPT ![w] = r] /\ event' = event
    BY <1>1 DEF ClaimCalendarJobs
  <2>3. job' = [i \in Ids |-> IF i \in Claimable
                              THEN [state |-> "processing", tries |-> job[i].tries + 1]
                              ELSE job[i]]
    BY <1>1 DEF ClaimCalendarJobs
  <2>4. ASSUME NEW i \in Claimable PROVE job[i].tries + 1 \in 0 .. MaxTries
    BY <1>0, CalendarConstants DEF Claimable, JobType
  <2>5. job' \in [Ids -> JobType]
    BY <1>0, <2>3, <2>4 DEF JobType
  <2> HIDE DEF r
  <2> QED BY <1>0, <2>1, <2>2, <2>5, OneWorker
<1>2. ASSUME NEW i \in Ids, ReadJob(w, i) PROVE WorkTyped'
  <2>1. PICK pc \in {"put", "delete", "finish"}, v \in Verdicts : TakeUp(w, i, pc, v)
    BY <1>2 DEF ReadJob, ToDo, Verdicts
  <2> DEFINE r == [pc |-> pc, batch |-> worker[w].batch \ {i}, job |-> i,
                   seen |-> Seen(i[1]), verdict |-> v]
  <2>2. Seen(i[1]) \in SeenType
    <3>1. i[1] \in Bookings
      BY DEF Ids
    <3>2. booking[i[1]].start \in Starts \cup {None} /\ booking[i[1]].link \in LinkStates
      BY <3>1 DEF TimesInv, TimesTyped
    <3> QED BY <3>2 DEF Seen, SeenType
  <2>3. r \in WorkerType /\ r.job \in Ids /\ r.seen \in SeenType
    BY <1>0, <2>2 DEF WorkerType, Verdicts
  <2>4. worker' = [worker EXCEPT ![w] = r]
    BY <2>1 DEF TakeUp
  <2>5. event' = event /\ job' = job
    BY <1>2 DEF ReadJob
  <2> HIDE DEF r
  <2> QED BY <1>0, <2>3, <2>4, <2>5, OneWorker
<1>3. CASE CallGoogle(w)
  <2>1. /\ worker[w].pc \in {"put", "delete"} /\ job' = job
        /\ event' = event \/ event' = [event EXCEPT ![worker[w].job[1]] = InGoogle(w)]
    BY <1>3 DEF CallGoogle
  <2>2. worker[w].job \in Ids /\ worker[w].seen \in SeenType
    BY <2>1 DEF WorkTyped
  <2>3. InGoogle(w) \in Starts \cup {None}
    BY <2>2 DEF InGoogle, SeenType
  <2>4. event' \in [Bookings -> Starts \cup {None}]
    BY <1>0, <2>1, <2>3
  <2>5. PICK pc \in {"save", "finish"}, v \in Verdicts :
            worker' = [worker EXCEPT ![w] = [@ EXCEPT !.pc = pc, !.verdict = v]]
    <3>1. worker[w].verdict \in Verdicts
      BY <1>0 DEF WorkerType
    <3>2. \/ worker' = [worker EXCEPT ![w].pc = "save"]
          \/ worker' = [worker EXCEPT ![w].pc = "finish", ![w].verdict = "queued"]
          \/ worker' = [worker EXCEPT ![w].pc = "finish"]
      BY <1>3 DEF CallGoogle
    <3>3. ASSUME NEW pc \in {"save", "finish"}, worker' = [worker EXCEPT ![w].pc = pc]
          PROVE  worker' = [worker EXCEPT ![w] = [@ EXCEPT !.pc = pc, !.verdict = worker[w].verdict]]
      BY <1>0, <3>3 DEF WorkTyped, WorkerType
    <3>4. ASSUME worker' = [worker EXCEPT ![w].pc = "finish", ![w].verdict = "queued"]
          PROVE  worker' = [worker EXCEPT ![w] = [@ EXCEPT !.pc = "finish", !.verdict = "queued"]]
      BY <1>0, <3>4 DEF WorkTyped, WorkerType
    <3> QED BY <3>1, <3>2, <3>3, <3>4 DEF Verdicts
  <2> DEFINE r == [worker[w] EXCEPT !.pc = pc, !.verdict = v]
  <2>6. r \in WorkerType /\ r.job \in Ids /\ r.seen \in SeenType
    BY <1>0, <2>2 DEF WorkerType
  <2>7. worker' = [worker EXCEPT ![w] = r]
    BY <2>5
  <2> HIDE DEF r
  <2> QED BY <1>0, <2>1, <2>4, <2>6, <2>7, OneWorker
<1>4. CASE SaveEvent(w)
  <2>1. /\ worker[w].pc = "save" /\ job' = job /\ event' = event
        /\ \/ worker' = [worker EXCEPT ![w].pc = "finish"]
           \/ \E v \in Verdicts :
                worker' = [worker EXCEPT ![w].pc = "finish", ![w].verdict = v]
    BY <1>4 DEF SaveEvent, Verdicts
  <2>2. PICK v \in Verdicts :
            worker' = [worker EXCEPT ![w] = [@ EXCEPT !.pc = "finish", !.verdict = v]]
    <3>1. worker[w] \in WorkerType /\ worker[w].verdict \in Verdicts
      BY <1>0 DEF WorkerType
    <3>2. ASSUME worker' = [worker EXCEPT ![w].pc = "finish"]
          PROVE  worker' = [worker EXCEPT ![w] = [@ EXCEPT !.pc = "finish", !.verdict = worker[w].verdict]]
      BY <1>0, <3>1, <3>2 DEF WorkTyped, WorkerType
    <3>3. ASSUME NEW v \in Verdicts, worker' = [worker EXCEPT ![w].pc = "finish", ![w].verdict = v]
          PROVE  worker' = [worker EXCEPT ![w] = [@ EXCEPT !.pc = "finish", !.verdict = v]]
      BY <1>0, <3>1, <3>3 DEF WorkTyped, WorkerType
    <3> QED BY <2>1, <3>1, <3>2, <3>3
  <2> DEFINE r == [worker[w] EXCEPT !.pc = "finish", !.verdict = v]
  <2>3. r \in WorkerType /\ r.pc = "finish"
    BY <1>0 DEF WorkerType
  <2>4. worker' = [worker EXCEPT ![w] = r]
    BY <2>2
  <2> HIDE DEF r
  <2> QED BY <1>0, <2>1, <2>3, <2>4, OneWorker
<1>5. CASE FinishCalendarJob(w)
  <2> DEFINE r == Rest(w)
             i == worker[w].job
  <2>1. worker' = [worker EXCEPT ![w] = r] /\ event' = event
        /\ job' = Finished(i, worker[w].verdict)
    BY <1>5 DEF FinishCalendarJob
  <2>2. r \in WorkerType /\ r.pc \in {"idle", "batch"}
    BY <1>0 DEF Rest, Idle, WorkerType, Verdicts
  <2>3. job' = job \/ \E to \in {"done", "queued", "failed"} : job' = [job EXCEPT ![i].state = to]
    BY <1>0, <2>1 DEF Finished, WorkerType, Verdicts
  <2>4. ASSUME NEW to \in {"done", "queued", "failed"}, job' = [job EXCEPT ![i].state = to]
        PROVE  job' \in [Ids -> JobType]
    BY <1>0, <2>4 DEF JobType
  <2> HIDE DEF r, i
  <2> QED BY <1>0, <2>1, <2>2, <2>3, <2>4, OneWorker
<1>6. CASE WorkerStops(w)
  <2>1. worker' = [worker EXCEPT ![w] = Idle] /\ event' = event /\ job' = job
    BY <1>6 DEF WorkerStops
  <2> QED BY <1>0, <2>1, OneWorker DEF Idle
<1> QED BY <1>1, <1>2, <1>3, <1>4, <1>5, <1>6 DEF CalendarWorker

\* What a worker notes in a booking: the event, and Google's link if there is none.
LEMMA SaveInv ==
    ASSUME TimesInv, WorkTyped, NEW w \in Workers, SaveEvent(w)
    PROVE  /\ TimesInv'
           /\ \A k \in Bookings : booking[k].link = "seller" => booking'[k].link = "seller"
<1> DEFINE k == worker[w].job[1]
<1>1. /\ worker[w].job \in Ids /\ worker[w].seen \in SeenType
      /\ UNCHANGED <<now, reservation, request>>
  BY DEF SaveEvent, WorkTyped
<1>2. k \in Bookings
  BY <1>1 DEF Ids
<1>3. booking[k] \in [state : {"none", "confirmed", "cancelled"},
                      start : Starts \cup {None}, event : BOOLEAN, link : LinkStates]
  BY <1>2 DEF TimesInv, TimesTyped
<1>4. PICK there \in BOOLEAN, link \in LinkStates :
        /\ booking' = [booking EXCEPT ![k] = [@ EXCEPT !.event = there, !.link = link]]
        /\ booking[k].link = "seller" => link = "seller"
  <2> DEFINE seen == worker[w].seen
             there == seen.there
             link == IF there THEN MeetLink(k, seen) ELSE booking[k].link
  <2>1. there \in BOOLEAN
    BY <1>1 DEF SeenType
  <2>2. link \in LinkStates /\ (booking[k].link = "seller" => link = "seller")
    BY <1>3 DEF MeetLink, LinkStates
  <2>3. CASE booking' = [booking EXCEPT ![k].event = there, ![k].link = link]
    <3> HIDE DEF there, link
    <3>1. booking' = [booking EXCEPT ![k] = [@ EXCEPT !.event = there, !.link = link]]
      BY <1>2, <1>3, <2>3 DEF TimesInv, TimesTyped
    <3> QED BY <2>1, <2>2, <3>1
  <2>4. CASE booking' = [booking EXCEPT ![k].event = TRUE]
    <3>1. booking' = [booking EXCEPT ![k] = [@ EXCEPT !.event = TRUE, !.link = booking[k].link]]
      BY <1>2, <1>3, <2>4 DEF TimesInv, TimesTyped
    <3> QED BY <1>3, <3>1
  <2>5. CASE booking' = booking
    <3>1. booking' = [booking EXCEPT ![k] =
                        [@ EXCEPT !.event = booking[k].event, !.link = booking[k].link]]
      BY <1>2, <1>3, <2>5 DEF TimesInv, TimesTyped
    <3> QED BY <1>3, <3>1
  <2> QED BY <2>3, <2>4, <2>5 DEF SaveEvent
<1> HIDE DEF k
<1>5. booking' \in [Bookings -> [state : {"none", "confirmed", "cancelled"},
                                 start : Starts \cup {None}, event : BOOLEAN,
                                 link : LinkStates]]
  <2>1. [booking[k] EXCEPT !.event = there, !.link = link] \in
            [state : {"none", "confirmed", "cancelled"}, start : Starts \cup {None},
             event : BOOLEAN, link : LinkStates]
    BY <1>3
  <2> QED BY <1>2, <1>4, <2>1 DEF TimesInv, TimesTyped
<1>6. ASSUME NEW l \in Bookings
      PROVE  /\ booking'[l].state = booking[l].state
             /\ booking'[l].start = booking[l].start
             /\ booking[l].link = "seller" => booking'[l].link = "seller"
  BY <1>2, <1>4 DEF TimesInv, TimesTyped
<1>7. now \in Nat
  BY DEF TimesInv, TimesTyped
<1> QED BY <1>1, <1>5, <1>6, <1>7, LinkInv

\* The seller's own link, and the one that is made when there is none.
LEMMA MeetingLinkInv ==
    ASSUME TimesInv, NEW k \in Bookings, NEW link \in {"seller", "auto"},
           booking[k].link = "seller" => link = "seller",
           booking' = [booking EXCEPT ![k].link = link],
           UNCHANGED <<now, reservation, request>>
    PROVE  /\ TimesInv'
           /\ \A l \in Bookings : booking[l].link = "seller" => booking'[l].link = "seller"
<1>1. booking' \in [Bookings -> [state : {"none", "confirmed", "cancelled"},
                                 start : Starts \cup {None}, event : BOOLEAN,
                                 link : LinkStates]]
  BY DEF TimesInv, TimesTyped, LinkStates
<1>2. \A l \in Bookings : /\ booking'[l].state = booking[l].state
                          /\ booking'[l].start = booking[l].start
                          /\ booking[l].link = "seller" => booking'[l].link = "seller"
  BY DEF TimesInv, TimesTyped
<1>3. now \in Nat
  BY DEF TimesInv, TimesTyped
<1> QED BY <1>1, <1>2, <1>3, LinkInv

(***************************************************************************)
(* The whole.                                                              *)
(***************************************************************************)

CalendarInv == TimesInv /\ WorkTyped

LEMMA TimesStepInv == CalendarInv /\ [Next]_vars => TimesInv'
<1> SUFFICES ASSUME CalendarInv, [Next]_vars PROVE TimesInv'
  OBVIOUS
<1>0. TimesInv /\ WorkTyped /\ now \in Nat
  BY DEF CalendarInv, TimesInv, TimesTyped
<1> DEFINE Kept == UNCHANGED <<now, booking, reservation, request>>
<1>1. Kept => TimesInv'
  BY <1>0 DEF TimesInv, TimesTyped, TimesMeant, ActiveApart, Active
<1>2. ASSUME Tick PROVE TimesInv'
  BY <1>0, <1>2 DEF Tick, timeVars, TimesInv, TimesTyped, TimesMeant, ActiveApart, Active
<1>3. ASSUME NEW k \in Bookings, NEW s \in Starts, HoldTime(k, s) PROVE TimesInv'
  BY <1>0, <1>3, HoldTimeInv
<1>4. ASSUME NEW k \in Bookings, HoldLapses(k) PROVE TimesInv'
  <2>1. /\ UNCHANGED <<now, booking, request>> /\ reservation[k].state = "held"
        /\ reservation' = [reservation EXCEPT ![k] = [@ EXCEPT !.state = "lapsed"]]
    BY <1>0, <1>4 DEF HoldLapses, TimesInv, TimesTyped, ReservationType
  <2>2. reservation' \in [Bookings -> ReservationType]
    BY <1>0, <2>1 DEF TimesInv, TimesTyped, ReservationType
  <2>3. \A l \in Bookings :
            /\ reservation'[l].at = reservation[l].at
            /\ l # k => reservation'[l] = reservation[l]
    BY <1>0, <2>1 DEF TimesInv, TimesTyped, ReservationType
  <2>4. Active(k) /\ \A l \in Bookings : Active(l)' => Active(l)
    BY <2>1, <2>3 DEF Active
  <2>5. reservation[k].at \in Starts /\ booking[k].state # "confirmed"
    <3>1. reservation[k].at \in Starts
      BY <1>0, <2>1 DEF TimesInv, TimesMeant
    <3>2. ASSUME booking[k].state = "confirmed" PROVE FALSE
      <4>1. reservation[k] = [state |-> "booked", at |-> booking[k].start]
        BY <1>0, <3>2 DEF TimesInv, TimesMeant
      <4>2. reservation[k].state = "booked"
        BY <4>1
      <4> QED BY <2>1, <4>2
    <3> QED BY <3>1, <3>2
  <2>6. TimesTyped'
    BY <1>0, <2>1, <2>2 DEF TimesInv, TimesTyped
  <2>7. TimesMeant'
    BY <1>0, <2>1, <2>3, <2>5 DEF TimesInv, TimesMeant
  <2>8. ActiveApart'
    BY <1>0, <2>3, <2>4 DEF TimesInv, ActiveApart
  <2> QED BY <2>6, <2>7, <2>8 DEF TimesInv
<1>5. ASSUME NEW k \in Bookings, ConfirmBooking(k) PROVE TimesInv'
  BY <1>0, <1>5, ConfirmInv
<1>6. ASSUME NEW k \in Bookings, ApplyCancellation(k) PROVE TimesInv'
  BY <1>0, <1>6, CancelInv
<1>7. ASSUME NEW k \in Bookings, UpdateMeetingLink(k) \/ CreateMissingMeetingLinks(k)
      PROVE  TimesInv'
  BY <1>0, <1>7, MeetingLinkInv DEF UpdateMeetingLink, CreateMissingMeetingLinks
<1>8. ASSUME NEW k \in Bookings, NEW by \in Parties, NEW s \in Starts, CreateReschedule(k, by, s)
      PROVE  TimesInv'
  <2> DEFINE r == [state |-> "pending", by |-> by, at |-> s, until |-> now + Patience]
  <2>1. r \in [state : {"none", "pending", "accepted", "declined", "expired"},
               by : Parties \cup {None}, at : Starts \cup {None}, until : Int]
    BY <1>0, CalendarConstants
  <2>2. request' = [request EXCEPT ![k] = r] /\ UNCHANGED <<now, booking, reservation>>
    BY <1>8 DEF CreateReschedule
  <2>3. r.at \in Starts
    OBVIOUS
  <2> HIDE DEF r
  <2> QED BY <1>0, <2>1, <2>2, <2>3, RequestInv
<1>9. ASSUME NEW k \in Bookings, NEW by \in Parties,
             ExpireReschedule(k, by) \/ DeclineReschedule(k, by)
      PROVE  TimesInv'
  <2>1. PICK r \in {Answered("expired"), Answered("declined")} :
            request' = [request EXCEPT ![k] = r]
    BY <1>9 DEF ExpireReschedule, DeclineReschedule
  <2>2. UNCHANGED <<now, booking, reservation>>
    BY <1>9 DEF ExpireReschedule, DeclineReschedule
  <2>3. /\ r \in [state : {"none", "pending", "accepted", "declined", "expired"},
                  by : Parties \cup {None}, at : Starts \cup {None}, until : Int]
        /\ r.state # "pending"
    BY DEF Answered, NoRequest
  <2> QED BY <1>0, <2>1, <2>2, <2>3, RequestInv
<1>10. ASSUME NEW k \in Bookings, NEW by \in Parties, AcceptReschedule(k, by) PROVE TimesInv'
  BY <1>0, <1>10, AcceptInv
<1>11. ASSUME SyncSellerBusy \/ AccessWithdrawn \/ CalendarDisconnect \/ CalendarCallback
       PROVE  Kept
  BY <1>11 DEF SyncSellerBusy, AccessWithdrawn, CalendarDisconnect, CalendarCallback, timeVars
<1>12. ASSUME NEW w \in Workers, CalendarWorker(w) \/ WorkerStops(w) PROVE TimesInv'
  <2>1. CASE SaveEvent(w)
    BY <1>0, <2>1, SaveInv
  <2>2. CASE ClaimCalendarJobs(w) \/ CallGoogle(w) \/ FinishCalendarJob(w) \/ WorkerStops(w)
    BY <1>1, <2>2 DEF ClaimCalendarJobs, CallGoogle, FinishCalendarJob, WorkerStops, timeVars
  <2>3. ASSUME NEW i \in Ids, ReadJob(w, i) PROVE TimesInv'
    BY <1>1, <2>3 DEF ReadJob, timeVars
  <2> QED BY <1>12, <2>1, <2>2, <2>3 DEF CalendarWorker
<1>13. ASSUME NEW i \in Ids, ClaimLapses(i) PROVE Kept
  BY <1>13 DEF ClaimLapses, timeVars
<1>14. CASE UNCHANGED vars
  BY <1>1, <1>14 DEF vars, timeVars
<1>15. ASSUME Next PROVE TimesInv'
  <2> HIDE DEF Kept
  <2> QED BY <1>1, <1>2, <1>3, <1>4, <1>5, <1>6, <1>7, <1>8, <1>9, <1>10, <1>11, <1>12, <1>13,
             <1>15 DEF Next
<1> QED BY <1>14, <1>15

LEMMA WorkStepTyped == CalendarInv /\ [Next]_vars => WorkTyped'
<1> SUFFICES ASSUME CalendarInv, [Next]_vars PROVE WorkTyped'
  OBVIOUS
<1>0. TimesInv /\ WorkTyped
  BY DEF CalendarInv
<1> DEFINE Kept == UNCHANGED <<event, job, worker>>
<1>1. Kept => WorkTyped'
  BY <1>0 DEF WorkTyped
<1>2. ASSUME Tick PROVE Kept
  BY <1>2 DEF Tick, syncVars
<1>3. ASSUME NEW k \in Bookings, NEW s \in Starts, HoldTime(k, s) PROVE Kept
  BY <1>3 DEF HoldTime, syncVars
<1>4. ASSUME NEW k \in Bookings,
             HoldLapses(k) \/ UpdateMeetingLink(k) \/ CreateMissingMeetingLinks(k)
      PROVE  Kept
  BY <1>4 DEF HoldLapses, UpdateMeetingLink, CreateMissingMeetingLinks, syncVars
<1>5. ASSUME NEW k \in Bookings, ConfirmBooking(k) \/ ApplyCancellation(k) PROVE WorkTyped'
  BY <1>0, <1>5, QueuedTyped DEF ConfirmBooking, ApplyCancellation
<1>6. ASSUME NEW k \in Bookings, NEW by \in Parties, NEW s \in Starts, CreateReschedule(k, by, s)
      PROVE  Kept
  BY <1>6 DEF CreateReschedule, syncVars
<1>7. ASSUME NEW k \in Bookings, NEW by \in Parties,
             ExpireReschedule(k, by) \/ DeclineReschedule(k, by)
      PROVE  Kept
  BY <1>7 DEF ExpireReschedule, DeclineReschedule, syncVars
<1>8. ASSUME NEW k \in Bookings, NEW by \in Parties, AcceptReschedule(k, by) PROVE WorkTyped'
  BY <1>0, <1>8, QueuedTyped DEF AcceptReschedule
<1>9. ASSUME SyncSellerBusy \/ AccessWithdrawn \/ CalendarDisconnect PROVE Kept
  BY <1>9 DEF SyncSellerBusy, AccessWithdrawn, CalendarDisconnect, syncVars
<1>10. ASSUME CalendarCallback PROVE WorkTyped'
  <2>1. PICK S \in SUBSET Ids :
            job' = [i \in Ids |-> IF i \in S THEN [job[i] EXCEPT !.state = "queued"] ELSE job[i]]
    <3> DEFINE due == {k \in Bookings : Upcoming(k)
                                         /\ \A n \in Jobs : job[<<k, n>>].state # "queued"}
               S == {i \in Ids : i[1] \in due /\ i[2] = NextJob(i[1])}
    <3>1. job' = [i \in Ids |-> IF i[1] \in due /\ i[2] = NextJob(i[1])
                                THEN [job[i] EXCEPT !.state = "queued"] ELSE job[i]]
      BY <1>10 DEF CalendarCallback
    <3> HIDE DEF due
    <3>2. job' = [i \in Ids |-> IF i \in S THEN [job[i] EXCEPT !.state = "queued"] ELSE job[i]]
      BY <3>1
    <3> QED BY <3>2
  <2>2. job' \in [Ids -> JobType]
    BY <1>0, <2>1 DEF WorkTyped, JobType
  <2>3. UNCHANGED <<event, worker>>
    BY <1>10 DEF CalendarCallback
  <2> QED BY <1>0, <2>2, <2>3 DEF WorkTyped
<1>11. ASSUME NEW w \in Workers, CalendarWorker(w) \/ WorkerStops(w) PROVE WorkTyped'
  BY <1>0, <1>11, WorkerTyped
<1>12. ASSUME NEW i \in Ids, ClaimLapses(i) PROVE WorkTyped'
  <2>1. job' = [job EXCEPT ![i].state = "lapsed"] /\ UNCHANGED <<event, worker>>
    BY <1>12 DEF ClaimLapses
  <2> QED BY <1>0, <2>1 DEF WorkTyped, JobType
<1>13. CASE UNCHANGED vars
  BY <1>1, <1>13 DEF vars, syncVars
<1>14. ASSUME Next PROVE WorkTyped'
  <2> HIDE DEF Kept
  <2> QED BY <1>1, <1>2, <1>3, <1>4, <1>5, <1>6, <1>7, <1>8, <1>9, <1>10, <1>11, <1>12, <1>14
          DEF Next
<1> QED BY <1>13, <1>14

LEMMA CalendarAlways == Spec => []CalendarInv
<1>1. Init => CalendarInv
  BY TimesInitInv, WorkInitTyped DEF CalendarInv
<1>2. CalendarInv /\ [Next]_vars => CalendarInv'
  BY TimesStepInv, WorkStepTyped DEF CalendarInv
<1> HIDE DEF Init, Next, vars, CalendarInv
<1> QED BY <1>1, <1>2, PTL DEF Spec

\* Through holds, late payments, moves and cancellations a confirmed booking keeps
\* the reservation of its own time, and no two overlap (acceptReschedule,
\* applyVerifiedCharge, releaseExpiredHolds): what is reserved was free but for
\* lapsed holds, which are released with it.
THEOREM ConfirmedApart == Spec => []BookedTimesApart
<1>1. CalendarInv => BookedTimesApart
  BY DEF CalendarInv, TimesInv, TimesMeant, ActiveApart, BookedTimesApart
<1> QED BY <1>1, CalendarAlways, PTL

\* On a day whose clock does not go forward the two computations of the hours
\* agree: a listed time lies between two moments at which its window begins and
\* ends (sellerDaySlots, validScheduledTime, localInstants).
LEMMA ListedIsWithin ==
    ASSUME Shift <= 0
    PROVE  Listed \subseteq Within
<1> SUFFICES ASSUME NEW s \in Listed PROVE s \in Within
  OBVIOUS
<1>1. PICK v \in Windows : Fits(v, Local(s))
  BY DEF Listed
<1>2. /\ s \in Starts /\ s \in Nat /\ Length \in Nat \ {0} /\ Jump \in Int /\ Shift \in Int
      /\ v[1] \in Nat /\ v[2] \in Nat
      /\ \A t \in {v[1], v[2], v[1] - Shift, v[2] - Shift} :
            Local(t) \in {v[1], v[2]} => t \in Starts
  BY HoursConstants DEF Listed
<1> DEFINE from == IF s < Jump \/ v[1] < Jump THEN v[1] ELSE v[1] - Shift
           to == IF v[2] - Shift < Jump THEN v[2] ELSE v[2] - Shift
<1>3. v[1] <= Local(s) /\ Local(s) + Length <= v[2]
  BY <1>1 DEF Fits
<1>4. Local(from) = v[1] /\ from <= s
  BY <1>2, <1>3 DEF Local
<1>5. Local(to) = v[2] /\ s + Length <= to
  BY <1>2, <1>3 DEF Local
<1>6. from \in LocalInstants(v[1]) /\ to \in LocalInstants(v[2])
  BY <1>2, <1>4, <1>5 DEF LocalInstants
<1>7. from < to
  BY <1>2, <1>4, <1>5
<1> HIDE DEF from, to
<1> QED BY <1>1, <1>2, <1>4, <1>5, <1>6, <1>7 DEF Within

\* Unless the day's clock goes forward, a time on the public page (sellerDaySlots)
\* can be held at that moment: it is in the hours as the check works them out, and
\* what the page leaves out of account, lapsed holds, the hold releases first.
THEOREM ShownIsHoldable == Shift <= 0 => (Spec => []ShownCanBeHeld)
<1> SUFFICES ASSUME Shift <= 0 PROVE Spec => []ShownCanBeHeld
  OBVIOUS
<1>1. ShownCanBeHeld
  <2> SUFFICES ASSUME NEW k \in Bookings, NEW s \in DaySlots, booking[k].state = "none"
               PROVE  InWindow(s) /\ ValidScheduledTime(s, k) /\ ~TakenAfterSweep(s, k)
    BY DEF ShownCanBeHeld
  <2>1. InWindow(s) /\ s \in Within /\ \A b \in busy : ~Overlap(b, s)
    BY ListedIsWithin DEF DaySlots
  <2>2. ASSUME NEW l \in Bookings, Active(l), ~Swept(s, l)
        PROVE  ~Overlap(reservation[l].at, s)
    BY <2>2 DEF DaySlots, Active, Swept
  <2> QED BY <2>1, <2>2 DEF ValidScheduledTime, CalendarConflict, TakenAfterSweep
<1> QED BY <1>1, PTL

\* The link the seller gave stays, whatever a worker had read before it was given
\* (SetBookingMeetLink, createMissingMeetingLinks).
THEOREM LinkStays == Spec => SellersLinkStays
<1>1. CalendarInv /\ [Next]_vars =>
        [\A k \in Bookings : booking[k].link = "seller" => booking'[k].link = "seller"]_vars
  <2> SUFFICES ASSUME CalendarInv, Next, NEW k \in Bookings, booking[k].link = "seller"
               PROVE  booking'[k].link = "seller"
    OBVIOUS
  <2>0. TimesInv /\ WorkTyped /\ booking = [l \in Bookings |-> booking[l]]
        /\ \A l \in Bookings : booking[l] \in [state : {"none", "confirmed", "cancelled"},
                     start : Starts \cup {None}, event : BOOLEAN, link : LinkStates]
    BY DEF CalendarInv, TimesInv, TimesTyped
  <2> DEFINE Goal == booking'[k].link = "seller"
  <2>1. ASSUME UNCHANGED booking PROVE Goal
    BY <2>1
  <2>2. ASSUME NEW l \in Bookings,
               ConfirmBooking(l) \/ ApplyCancellation(l)
               \/ \E by \in Parties : AcceptReschedule(l, by)
        PROVE  Goal
    <3>1. \E st \in {"confirmed", "cancelled"} : \E at :
            \/ booking' = [booking EXCEPT ![l].state = st, ![l].start = at]
            \/ booking' = [booking EXCEPT ![l].state = st]
            \/ booking' = [booking EXCEPT ![l].start = at]
      BY <2>2 DEF ConfirmBooking, ApplyCancellation, AcceptReschedule
    <3> QED BY <2>0, <3>1
  <2>3. ASSUME NEW l \in Bookings, UpdateMeetingLink(l) \/ CreateMissingMeetingLinks(l)
        PROVE  Goal
    BY <2>0, <2>3, MeetingLinkInv DEF UpdateMeetingLink, CreateMissingMeetingLinks
  <2>4. ASSUME NEW l \in Bookings, NEW s \in Starts, HoldTime(l, s) PROVE Goal
    BY <2>1, <2>4 DEF HoldTime
  <2>5. ASSUME NEW l \in Bookings, HoldLapses(l) PROVE Goal
    BY <2>1, <2>5 DEF HoldLapses
  <2>6. ASSUME NEW l \in Bookings, NEW by \in Parties,
               \/ \E s \in Starts : CreateReschedule(l, by, s)
               \/ ExpireReschedule(l, by) \/ DeclineReschedule(l, by)
        PROVE  Goal
    BY <2>1, <2>6 DEF CreateReschedule, ExpireReschedule, DeclineReschedule
  <2>7. ASSUME Tick \/ SyncSellerBusy \/ AccessWithdrawn \/ CalendarDisconnect \/ CalendarCallback
        PROVE  Goal
    BY <2>1, <2>7 DEF Tick, SyncSellerBusy, AccessWithdrawn, CalendarDisconnect,
       CalendarCallback, timeVars
  <2>8. ASSUME NEW w \in Workers, CalendarWorker(w) \/ WorkerStops(w) PROVE Goal
    <3>1. CASE SaveEvent(w)
      BY <2>0, <3>1, SaveInv
    <3>2. CASE ClaimCalendarJobs(w) \/ CallGoogle(w) \/ FinishCalendarJob(w) \/ WorkerStops(w)
      BY <2>1, <3>2 DEF ClaimCalendarJobs, CallGoogle, FinishCalendarJob, WorkerStops, timeVars
    <3>3. ASSUME NEW i \in Ids, ReadJob(w, i) PROVE Goal
      BY <2>1, <3>3 DEF ReadJob, timeVars
    <3> QED BY <2>8, <3>1, <3>2, <3>3 DEF CalendarWorker
  <2>9. ASSUME NEW i \in Ids, ClaimLapses(i) PROVE Goal
    BY <2>1, <2>9 DEF ClaimLapses, timeVars
  <2> HIDE DEF Goal
  <2>10. Goal
    BY <2>2, <2>3, <2>4, <2>5, <2>6, <2>7, <2>8, <2>9 DEF Next
  <2> QED BY <2>10 DEF Goal
<1> HIDE DEF Init, Next, CalendarInv
<1> QED BY <1>1, CalendarAlways, PTL DEF Spec, SellersLinkStays

\* What is bounded: the clock and what depends on it, the faults; and the connection.
RestTyped ==
    /\ now \in 0 .. Horizon
    /\ \A k \in Bookings : request[k].until \in 0 .. Horizon + Patience
    /\ asks \in 0 .. MaxAsks
    /\ connection \in {"none", "active", "revoked"} /\ granted \in BOOLEAN
    /\ busy \subseteq Starts \cup Appointments
    /\ errors \in 0 .. MaxErrors /\ breaks \in 0 .. MaxBreaks

LEMMA RestInitTyped == Init => RestTyped
  BY CalendarConstants DEF Init, RestTyped, NoRequest

LEMMA RestStepTyped == CalendarInv /\ RestTyped /\ [Next]_vars => RestTyped'
<1> SUFFICES ASSUME CalendarInv, RestTyped, [Next]_vars PROVE RestTyped'
  OBVIOUS
<1> DEFINE Clock == UNCHANGED <<now, request, asks>>
           Links == UNCHANGED <<connection, granted, busy>>
           Faults == /\ errors' \in 0 .. MaxErrors /\ breaks' \in 0 .. MaxBreaks
<1>0. /\ request = [k \in Bookings |-> request[k]]
      /\ event \in [Bookings -> Starts \cup {None}]
      /\ Calm => Faults
      /\ Err \/ Break => Faults
  BY CalendarConstants DEF CalendarInv, TimesInv, TimesTyped, WorkTyped, RestTyped, Calm, Err, Break
<1>1. Clock /\ Links /\ Faults => RestTyped'
  BY DEF RestTyped
<1>2. ASSUME Tick PROVE RestTyped'
  BY <1>0, <1>2, CalendarConstants DEF Tick, timeVars, linkVars, RestTyped
<1>3. ASSUME NEW k \in Bookings, NEW s \in Starts, HoldTime(k, s) PROVE RestTyped'
  BY <1>0, <1>1, <1>3 DEF HoldTime, linkVars
<1>4. ASSUME NEW k \in Bookings,
             \/ HoldLapses(k) \/ UpdateMeetingLink(k) \/ CreateMissingMeetingLinks(k)
             \/ ConfirmBooking(k)
      PROVE  RestTyped'
  BY <1>0, <1>1, <1>4 DEF HoldLapses, UpdateMeetingLink, CreateMissingMeetingLinks,
     ConfirmBooking, linkVars
<1>5. ASSUME NEW k \in Bookings, NEW r, request' = [request EXCEPT ![k] = r],
             r.until \in 0 .. Horizon + Patience, now' = now, asks' \in 0 .. MaxAsks,
             Links, Faults
      PROVE  RestTyped'
  <2>1. \A l \in Bookings : request'[l].until \in 0 .. Horizon + Patience
    BY <1>0, <1>5 DEF RestTyped
  <2> QED BY <1>5, <2>1 DEF RestTyped
<1>6. \A s \in {"accepted", "declined", "expired"} : Answered(s).until \in 0 .. Horizon + Patience
  BY CalendarConstants DEF Answered, NoRequest
<1>7. ASSUME NEW k \in Bookings, ApplyCancellation(k) PROVE RestTyped'
  <2>1. /\ now' = now /\ asks' = asks /\ Links /\ Faults
        /\ request' = request \/ request' = [request EXCEPT ![k] = Answered("expired")]
    BY <1>0, <1>7 DEF ApplyCancellation, linkVars
  <2>2. asks' \in 0 .. MaxAsks
    BY <2>1 DEF RestTyped
  <2> HIDE DEF Links, Faults
  <2> QED BY <1>1, <1>5, <1>6, <2>1, <2>2
<1>8. ASSUME NEW k \in Bookings, NEW by \in Parties,
             ExpireReschedule(k, by) \/ DeclineReschedule(k, by) \/ AcceptReschedule(k, by)
      PROVE  RestTyped'
  <2>1. PICK s \in {"accepted", "declined", "expired"} :
            request' = [request EXCEPT ![k] = Answered(s)]
    BY <1>8 DEF ExpireReschedule, DeclineReschedule, AcceptReschedule
  <2>2. now' = now /\ asks' = asks /\ Links /\ Faults
    BY <1>0, <1>8 DEF ExpireReschedule, DeclineReschedule, AcceptReschedule, linkVars
  <2>3. asks' \in 0 .. MaxAsks
    BY <2>2 DEF RestTyped
  <2> HIDE DEF Links, Faults
  <2> QED BY <1>5, <1>6, <2>1, <2>2, <2>3
<1>9. ASSUME NEW k \in Bookings, NEW by \in Parties, NEW s \in Starts, CreateReschedule(k, by, s)
      PROVE  RestTyped'
  <2> DEFINE r == [state |-> "pending", by |-> by, at |-> s, until |-> now + Patience]
  <2>1. request' = [request EXCEPT ![k] = r] /\ now' = now /\ asks < MaxAsks /\ asks' = asks + 1
        /\ Links /\ Faults
    BY <1>0, <1>9 DEF CreateReschedule, linkVars
  <2>2. r.until \in 0 .. Horizon + Patience
    BY CalendarConstants DEF RestTyped
  <2>3. asks' \in 0 .. MaxAsks
    BY <2>1, CalendarConstants DEF RestTyped
  <2> HIDE DEF Links, Faults, r
  <2> QED BY <1>5, <2>1, <2>2, <2>3
<1>10. ASSUME SyncSellerBusy \/ AccessWithdrawn \/ CalendarDisconnect \/ CalendarCallback
       PROVE  RestTyped'
  <2>1. /\ Clock /\ Faults
        /\ connection' \in {"none", "active", "revoked"} /\ granted' \in BOOLEAN
    BY <1>0, <1>10 DEF SyncSellerBusy, AccessWithdrawn, CalendarDisconnect, CalendarCallback,
       timeVars, RestTyped
  <2>2. busy' \subseteq Starts \cup Appointments
    BY <1>0, <1>10 DEF SyncSellerBusy, AccessWithdrawn, CalendarDisconnect, CalendarCallback,
       RestTyped
  <2> QED BY <2>1, <2>2 DEF RestTyped
<1>11. ASSUME NEW w \in Workers, CalendarWorker(w) \/ WorkerStops(w) PROVE RestTyped'
  <2>1. CASE CallGoogle(w)
    <3>1. /\ Clock /\ Faults /\ granted' = granted /\ busy' = busy
          /\ connection' \in {"none", "active", "revoked"}
      BY <1>0, <2>1 DEF CallGoogle, timeVars, RestTyped
    <3> QED BY <3>1 DEF RestTyped
  <2>2. CASE ClaimCalendarJobs(w) \/ SaveEvent(w) \/ FinishCalendarJob(w) \/ WorkerStops(w)
    BY <1>0, <1>1, <2>2 DEF ClaimCalendarJobs, SaveEvent, FinishCalendarJob, WorkerStops,
       timeVars, linkVars
  <2>3. ASSUME NEW i \in Ids, ReadJob(w, i) PROVE RestTyped'
    BY <1>0, <1>1, <2>3 DEF ReadJob, timeVars, linkVars
  <2> QED BY <1>11, <2>1, <2>2, <2>3 DEF CalendarWorker
<1>12. ASSUME NEW i \in Ids, ClaimLapses(i) PROVE RestTyped'
  BY <1>0, <1>1, <1>12 DEF ClaimLapses, timeVars, linkVars
<1>13. CASE UNCHANGED vars
  BY <1>13 DEF vars, timeVars, linkVars, RestTyped
<1>14. ASSUME Next PROVE RestTyped'
  <2> HIDE DEF Clock, Links, Faults
  <2> QED BY <1>2, <1>3, <1>4, <1>7, <1>8, <1>9, <1>10, <1>11, <1>12, <1>14 DEF Next
<1> QED BY <1>13, <1>14

\* Every variable keeps its type: a worker has read a booking before it calls Google,
\* a job is not attempted more often than MaxTries, a request is for a time.
THEOREM TypeCorrect == Spec => []TypeOK
<1>1. CalendarInv /\ RestTyped => TypeOK
  <2> SUFFICES ASSUME CalendarInv, RestTyped PROVE TypeOK
    OBVIOUS
  <2>1. /\ booking \in [Bookings -> [state : {"none", "confirmed", "cancelled"},
                                     start : Starts \cup {None}, event : BOOLEAN,
                                     link : {"none", "seller", "meet", "auto"}]]
        /\ reservation \in [Bookings -> [state : {"none", "held", "lapsed", "released", "booked"},
                                         at : Starts \cup {None}]]
    BY DEF CalendarInv, TimesInv, TimesTyped, LinkStates, ReservationType
  <2>2. request \in [Bookings -> [state : {"none", "pending", "accepted", "declined", "expired"},
                                  by : Parties \cup {None}, at : Starts \cup {None},
                                  until : 0 .. Horizon + Patience]]
    BY DEF CalendarInv, TimesInv, TimesTyped, RestTyped
  <2>3. /\ event \in [Bookings -> Starts \cup {None}]
        /\ job \in [Ids -> [state : {"none", "queued", "processing", "lapsed", "done", "failed"},
                            tries : 0 .. MaxTries]]
        /\ \A w \in Workers :
            /\ worker[w].pc \in {"idle", "batch", "put", "delete", "save", "finish"}
            /\ worker[w].batch \subseteq Ids /\ worker[w].job \in Ids \cup {None}
            /\ worker[w].verdict \in Verdicts
    BY DEF CalendarInv, WorkTyped, JobType, WorkerType
  <2> QED BY <2>1, <2>2, <2>3 DEF TypeOK, RestTyped
<1> HIDE DEF Init, Next, vars, CalendarInv, RestTyped, TypeOK
<1> QED BY <1>1, CalendarAlways, RestInitTyped, RestStepTyped, PTL DEF Spec

(***************************************************************************)
(* The rules of SellerTimes.                                               *)
(***************************************************************************)

\* A booking without a reservation has no time.
Unreserved ==
    \A k \in Bookings : reservation[k].state = "none" => reservation[k].at = None

\* Few actions touch a reservation or the state of a booking.
LEMMA OnlyTimesMove ==
    ASSUME CalendarInv, [Next]_vars
    PROVE  \/ \E k \in Bookings :
                \/ \E s \in Starts : HoldTime(k, s)
                \/ HoldLapses(k) \/ ConfirmBooking(k) \/ ApplyCancellation(k)
                \/ \E by \in Parties : AcceptReschedule(k, by)
           \/ /\ reservation' = reservation
              /\ \A l \in Bookings : booking'[l].state = booking[l].state
<1> DEFINE Still == /\ reservation' = reservation
                    /\ \A l \in Bookings : booking'[l].state = booking[l].state
<1>0. \A l \in Bookings : booking[l] \in [state : {"none", "confirmed", "cancelled"},
                             start : Starts \cup {None}, event : BOOLEAN, link : LinkStates]
  BY DEF CalendarInv, TimesInv, TimesTyped
<1>1. CASE UNCHANGED <<booking, reservation>>
  BY <1>1
<1>2. ASSUME NEW k \in Bookings, UpdateMeetingLink(k) \/ CreateMissingMeetingLinks(k) PROVE Still
  <2>1. PICK link \in {"seller", "auto"} : booking' = [booking EXCEPT ![k].link = link]
    BY <1>2 DEF UpdateMeetingLink, CreateMissingMeetingLinks
  <2> QED BY <1>2, <2>1 DEF UpdateMeetingLink, CreateMissingMeetingLinks, CalendarInv,
                             TimesInv, TimesTyped
<1>3. ASSUME NEW w \in Workers, SaveEvent(w) PROVE Still
  <2> DEFINE k == worker[w].job[1]
             there == worker[w].seen.there
             link == IF there THEN MeetLink(k, worker[w].seen) ELSE booking[k].link
  <2>1. /\ k \in Bookings /\ reservation' = reservation
        /\ \/ booking' = [booking EXCEPT ![k].event = there, ![k].link = link]
           \/ booking' = [booking EXCEPT ![k].event = TRUE]
           \/ booking' = booking
    BY <1>3 DEF SaveEvent, CalendarInv, WorkTyped, Ids
  <2> HIDE DEF k, there, link
  <2>2. \A l \in Bookings : booking'[l].state = booking[l].state
    <3>1. CASE booking' = [booking EXCEPT ![k].event = there, ![k].link = link]
      BY <2>1, <3>1 DEF CalendarInv, TimesInv, TimesTyped
    <3>2. CASE booking' = [booking EXCEPT ![k].event = TRUE]
      BY <2>1, <3>2 DEF CalendarInv, TimesInv, TimesTyped
    <3> QED BY <2>1, <3>1, <3>2
  <2> QED BY <2>1, <2>2
<1>4. ASSUME \/ Tick \/ SyncSellerBusy \/ AccessWithdrawn \/ CalendarDisconnect
             \/ CalendarCallback
      PROVE  UNCHANGED <<booking, reservation>>
  BY <1>4 DEF Tick, SyncSellerBusy, AccessWithdrawn, CalendarDisconnect, CalendarCallback,
              timeVars
<1>5. ASSUME NEW k \in Bookings, NEW by \in Parties,
             \/ \E s \in Starts : CreateReschedule(k, by, s)
             \/ ExpireReschedule(k, by) \/ DeclineReschedule(k, by)
      PROVE  UNCHANGED <<booking, reservation>>
  BY <1>5 DEF CreateReschedule, ExpireReschedule, DeclineReschedule
<1>6. ASSUME NEW w \in Workers,
             \/ ClaimCalendarJobs(w) \/ CallGoogle(w) \/ FinishCalendarJob(w)
             \/ (\E i \in Ids : ReadJob(w, i)) \/ WorkerStops(w)
      PROVE  UNCHANGED <<booking, reservation>>
  BY <1>6 DEF ClaimCalendarJobs, CallGoogle, FinishCalendarJob, ReadJob, WorkerStops, timeVars
<1>7. ASSUME NEW i \in Ids, ClaimLapses(i) PROVE UNCHANGED <<booking, reservation>>
  BY <1>7 DEF ClaimLapses, timeVars
<1>8. CASE UNCHANGED vars
  BY <1>1, <1>8 DEF vars, timeVars
<1>9. CASE Next
  <2> HIDE DEF Still
  <2>1. UNCHANGED <<booking, reservation>> => Still
    BY DEF Still
  <2>2. Still \/ \E k \in Bookings :
                \/ \E s \in Starts : HoldTime(k, s)
                \/ HoldLapses(k) \/ ConfirmBooking(k) \/ ApplyCancellation(k)
                \/ \E by \in Parties : AcceptReschedule(k, by)
    BY <1>2, <1>3, <1>4, <1>5, <1>6, <1>7, <1>9, <2>1 DEF Next, CalendarWorker
  <2> QED BY <2>2 DEF Still
<1> QED BY <1>8, <1>9

LEMMA UnreservedStep == CalendarInv /\ Unreserved /\ [Next]_vars => Unreserved'
<1> SUFFICES ASSUME CalendarInv, Unreserved, [Next]_vars PROVE Unreserved'
  OBVIOUS
<1>0. reservation \in [Bookings -> ReservationType]
  BY DEF CalendarInv, TimesInv, TimesTyped
<1>1. ASSUME NEW k \in Bookings, NEW s, NEW as \in {"held", "booked"},
             reservation' = SweptFor(s, k, as)
      PROVE  Unreserved'
  BY <1>0, <1>1 DEF SweptFor, Unreserved, ReservationType
<1>2. ASSUME NEW k \in Bookings, NEW as \in {"lapsed", "booked", "released"},
             reservation' = [reservation EXCEPT ![k].state = as]
      PROVE  Unreserved'
  BY <1>0, <1>2 DEF Unreserved, ReservationType
<1>3. CASE reservation' = reservation
  BY <1>3 DEF Unreserved
<1> QED BY <1>1, <1>2, <1>3, OnlyTimesMove
        DEF HoldTime, HoldLapses, ConfirmBooking, ApplyCancellation, AcceptReschedule

LEMMA ConfirmedReserved ==
    ASSUME TimesInv, NEW k \in Bookings, booking[k].state = "confirmed"
    PROVE  reservation[k].state = "booked" /\ Active(k)
<1>1. reservation[k] = [state |-> "booked", at |-> booking[k].start]
  BY DEF TimesInv, TimesMeant
<1>2. reservation[k].state = "booked"
  BY <1>1
<1> QED BY <1>2 DEF Active

\* A time is taken in the place of the lapsed holds that are in its way.
LEMMA SweepTakes ==
    ASSUME TimesInv, NEW k \in Bookings, NEW s \in Starts, NEW as \in {"held", "booked"},
           ~TakenAfterSweep(s, k), reservation' = SweptFor(s, k, as), Standing(k)' = as,
           \A l \in Bookings \ {k} : booking'[l].state = booking[l].state
    PROVE  \E gone \in SUBSET Times!OtherHolds(k) : Times!Have(k, s, as, gone)
<1> DEFINE cleared == {l \in Bookings \ {k} : Swept(s, l) /\ booking[l].state = "none"}
<1>0. /\ reservation \in [Bookings -> ReservationType]
      /\ \A l \in Bookings : booking[l].state \in {"none", "confirmed", "cancelled"}
  BY DEF TimesInv, TimesTyped
<1>1. \A l \in Bookings : Swept(s, l) => Active(l) /\ booking[l].state # "confirmed"
  BY ConfirmedReserved DEF Swept, Active
<1>2. \A l \in cleared : Standing(l) = "held"
  BY <1>1 DEF Standing
<1>3. cleared \in SUBSET Times!OtherHolds(k)
  BY <1>2 DEF Times!OtherHolds
<1>4. ASSUME NEW l \in Bookings \ (cleared \cup {k}), Standing(l) \in {"held", "booked"}
      PROVE  ~Overlap(reservation[l].at, s)
  <2>1. Active(l)
    BY <1>4, ConfirmedReserved DEF Standing
  <2>2. ~Swept(s, l)
    BY <1>0, <1>1, <1>4 DEF Standing
  <2> QED BY <2>1, <2>2 DEF TakenAfterSweep
<1>5. Times!Clear(k, s, cleared)
  BY <1>4 DEF Times!Clear, Times!InForce
<1>6. \A l \in Bookings : /\ l = k => reservation'[l].at = s
                          /\ l # k => /\ reservation'[l].at = reservation[l].at
                                      /\ Swept(s, l) => ~Active(l)'
                                      /\ ~Swept(s, l) => Active(l)' = Active(l)
  BY <1>0 DEF SweptFor, Active, ReservationType
<1>7. \A l \in Bookings : Standing(l)' = IF l = k THEN as
                                         ELSE IF l \in cleared THEN "free" ELSE Standing(l)
  BY <1>0, <1>1, <1>6 DEF Standing
<1> HIDE DEF cleared
<1>8. [l \in Bookings |-> Standing(l)]' =
            [l \in Bookings |-> IF l = k THEN as ELSE IF l \in cleared THEN "free"
                                ELSE [m \in Bookings |-> Standing(m)][l]]
  BY <1>7
<1>9. [l \in Bookings |-> reservation[l].at]' =
            [[l \in Bookings |-> reservation[l].at] EXCEPT ![k] = s]
  BY <1>6
<1>10. Times!Have(k, s, as, cleared)
  BY <1>5, <1>8, <1>9 DEF Times!Have
<1> QED BY <1>3, <1>10 DEF Times!Have

\* A payment, in time or late, books the time it was made for.
LEMMA PaymentConfirms ==
    ASSUME TimesInv, NEW k \in Bookings, ConfirmBooking(k)
    PROVE  Times!TimesNext
<1> DEFINE s == reservation[k].at
<1>0. /\ reservation \in [Bookings -> ReservationType]
      /\ booking[k].state = "none"
      /\ reservation[k].state \in {"held", "lapsed", "released"}
      /\ Active(k) \/ ~Taken(s, k)
      /\ reservation' = [reservation EXCEPT ![k].state = "booked"]
      /\ booking' = [booking EXCEPT ![k].state = "confirmed", ![k].start = s]
  BY DEF ConfirmBooking, Active, TimesInv, TimesTyped
<1>1. s \in Starts
  BY <1>0 DEF TimesInv, TimesMeant
<1>2. ASSUME NEW l \in Bookings \ {k}, Standing(l) \in {"held", "booked"}
      PROVE  ~Overlap(reservation[l].at, s)
  <2>1. Active(l)
    BY <1>2, ConfirmedReserved DEF Standing
  <2>2. CASE Active(k)
    BY <2>1, <2>2 DEF TimesInv, ActiveApart
  <2>3. CASE ~Taken(s, k)
    BY <2>1, <2>3 DEF Taken
  <2> QED BY <1>0, <2>2, <2>3
<1>3. Times!Clear(k, s, {})
  BY <1>2 DEF Times!Clear, Times!InForce
<1>4. \A l \in Bookings : reservation'[l].at = reservation[l].at
  BY <1>0 DEF ReservationType
<1>5. \A l \in Bookings : Standing(l)' = IF l = k THEN "booked" ELSE Standing(l)
  <2>1. \A l \in Bookings \ {k} : booking'[l] = booking[l] /\ reservation'[l] = reservation[l]
    BY <1>0 DEF TimesInv, TimesTyped
  <2>2. booking'[k].state = "confirmed"
    BY <1>0 DEF TimesInv, TimesTyped
  <2> QED BY <2>1, <2>2 DEF Standing, Active
<1>6. Standing(k) \in {"free", "held"}
  BY <1>0 DEF Standing
<1>7. s = reservation[k].at
  OBVIOUS
<1> HIDE DEF s
<1>8. Times!Have(k, s, "booked", {})
  BY <1>3, <1>4, <1>5, <1>7 DEF Times!Have
<1>9. Times!Confirm(k, s)
  BY <1>6, <1>7, <1>8 DEF Times!Confirm
<1> QED BY <1>1, <1>9 DEF Times!TimesNext

LEMMA TimesStep ==
    CalendarInv /\ Unreserved /\ [Next]_vars => [Times!TimesNext]_(Times!timesVars)
<1> SUFFICES ASSUME CalendarInv, Unreserved, [Next]_vars
             PROVE  [Times!TimesNext]_(Times!timesVars)
  OBVIOUS
<1>0. TimesInv
  BY DEF CalendarInv
<1>1. ASSUME NEW k \in Bookings, NEW s \in Starts, HoldTime(k, s) PROVE Times!TimesNext
  <2>1. /\ ~TakenAfterSweep(s, k) /\ reservation' = SweptFor(s, k, "held")
        /\ booking' = booking /\ booking[k].state = "none" /\ reservation[k].state = "none"
    BY <1>1 DEF HoldTime
  <2>2. Standing(k)' = "held" /\ Standing(k) = "free" /\ reservation[k].at = None
    BY <2>1 DEF SweptFor, Standing, Active, Unreserved
  <2>3. \E gone \in SUBSET Times!OtherHolds(k) : Times!Have(k, s, "held", gone)
    BY <1>0, <2>1, <2>2, SweepTakes
  <2>4. Times!Hold(k, s)
    BY <2>2, <2>3 DEF Times!Hold
  <2> QED BY <2>4 DEF Times!TimesNext
<1>2. ASSUME NEW k \in Bookings, NEW by \in Parties, AcceptReschedule(k, by)
      PROVE  Times!TimesNext
  <2> DEFINE s == request[k].at
  <2>1. /\ ~TakenAfterSweep(s, k) /\ reservation' = SweptFor(s, k, "booked")
        /\ booking' = [booking EXCEPT ![k].start = s] /\ booking[k].state = "confirmed"
        /\ request[k].state = "pending"
    BY <1>2 DEF AcceptReschedule, CanMove, Answerable, Pending
  <2>2. s \in Starts
    BY <1>0, <2>1 DEF TimesInv, TimesMeant
  <2> HIDE DEF s
  <2>3. \A l \in Bookings : booking'[l].state = booking[l].state
    BY <1>0, <2>1 DEF TimesInv, TimesTyped
  <2>4. Standing(k)' = "booked" /\ Standing(k) = "booked"
    BY <2>1, <2>3 DEF Standing
  <2>5. \E gone \in SUBSET Times!OtherHolds(k) : Times!Have(k, s, "booked", gone)
    BY <1>0, <2>1, <2>2, <2>3, <2>4, SweepTakes
  <2>6. Times!Move(k, s)
    BY <2>4, <2>5 DEF Times!Move
  <2> QED BY <2>2, <2>6 DEF Times!TimesNext
<1>3. ASSUME NEW k \in Bookings, ApplyCancellation(k) PROVE Times!TimesNext
  <2>1. /\ booking[k].state = "confirmed"
        /\ booking' = [booking EXCEPT ![k].state = "cancelled"]
        /\ reservation' = [reservation EXCEPT ![k].state = "released"]
    BY <1>3 DEF ApplyCancellation, Upcoming
  <2>2. \A l \in Bookings : /\ Standing(l)' = IF l = k THEN "over" ELSE Standing(l)
                            /\ reservation'[l].at = reservation[l].at
    BY <1>0, <2>1 DEF Standing, Active, TimesInv, TimesTyped, ReservationType
  <2>3. Standing(k) = "booked"
    BY <2>1 DEF Standing
  <2>4. Times!Cancel(k)
    BY <2>2, <2>3 DEF Times!Cancel
  <2> QED BY <2>4 DEF Times!TimesNext
<1>4. ASSUME NEW k \in Bookings, HoldLapses(k) PROVE UNCHANGED Times!timesVars
  <2>1. \A l \in Bookings : Standing(l)' = Standing(l) /\ reservation'[l].at = reservation[l].at
    BY <1>0, <1>4 DEF HoldLapses, Standing, Active, TimesInv, TimesTyped, ReservationType
  <2> QED BY <2>1 DEF Times!timesVars
<1>5. ASSUME reservation' = reservation, \A l \in Bookings : booking'[l].state = booking[l].state
      PROVE  UNCHANGED Times!timesVars
  <2>1. \A l \in Bookings : Standing(l)' = Standing(l)
    BY <1>5 DEF Standing, Active
  <2> QED BY <1>5, <2>1 DEF Times!timesVars
<1>6. ASSUME NEW k \in Bookings, ConfirmBooking(k) PROVE Times!TimesNext
  BY <1>0, <1>6, PaymentConfirms
<1> QED BY <1>1, <1>2, <1>3, <1>4, <1>5, <1>6, OnlyTimesMove

\* SellerCalendar implements SellerTimes: a late payment, a sweep of lapsed holds,
\* a move and a cancellation are each one step of the abstract times.
THEOREM ImplementsTimes == Spec => KeepsTimes
<1>1. Init => Unreserved /\ Times!TimesInit
  <2> SUFFICES ASSUME Init PROVE Unreserved /\ Times!TimesInit
    OBVIOUS
  <2>1. \A k \in Bookings : /\ reservation[k] = [state |-> "none", at |-> None]
                            /\ booking[k].state = "none"
    BY DEF Init, NotBooked
  <2>2. \A k \in Bookings : Standing(k) = "free" /\ reservation[k].at = None
    BY <2>1 DEF Standing, Active
  <2> QED BY <2>2 DEF Unreserved, Times!TimesInit
<1>2. CalendarInv /\ Unreserved /\ [Next]_vars => Unreserved'
  BY UnreservedStep
<1> HIDE DEF Init, Next, vars, CalendarInv, Unreserved, Times!TimesInit, Times!TimesNext,
             Times!timesVars
<1> QED BY <1>1, <1>2, TimesStep, CalendarAlways, PTL DEF Spec, KeepsTimes, Times!TimesSpec

(***************************************************************************)
(* The workers and Google's calendar.                                      *)
(***************************************************************************)

Linked == connection = "active" /\ granted

Queued(k) == \E n \in Jobs : job[<<k, n>>].state = "queued"

\* Google's calendar agrees with the booking.
Right(k) ==
    /\ Upcoming(k) => event[k] = booking[k].start
    /\ booking[k].state = "cancelled" /\ breaks = 0 => event[k] = None

\* So does what a worker has read of the booking.
SeenRight(w, k) ==
    /\ Upcoming(k) => worker[w].seen.there /\ worker[w].seen.start = booking[k].start
    /\ booking[k].state = "cancelled" /\ breaks = 0 => ~worker[w].seen.there

Calling == {"put", "delete", "save"}

Hands(w) == worker[w].batch \cup {worker[w].job}

\* No two workers have jobs of one booking in hand.
Apart ==
    \A v, w \in Workers : \A i, j \in Ids :
        v # w /\ i \in Hands(v) /\ j \in Hands(w) => i[1] # j[1]

\* What a worker has in hand is claimed, and nothing of it twice.
HandOf(w) ==
    /\ \A i \in worker[w].batch : job[i].state \in {"processing", "lapsed"}
    /\ worker[w].pc = "idle" => worker[w].batch = {}
    /\ worker[w].pc \in Calling \cup {"finish"} =>
        /\ worker[w].job \in Ids \ worker[w].batch
        /\ job[worker[w].job].state \in {"processing", "lapsed"}

\* What a worker asks of Google follows from what it has read.
AskedOf(w) ==
    /\ worker[w].pc = "put" => worker[w].seen.there
    /\ worker[w].pc = "delete" => ~worker[w].seen.there
    /\ worker[w].pc = "save" =>
        event[worker[w].job[1]] = IF worker[w].seen.there THEN worker[w].seen.start ELSE None

\* A booking that has changed since a worker read it has a job in the queue.
MissedNothing(w) ==
    \A i \in Ids :
        worker[w].job = i /\ Linked /\ ~Queued(i[1]) =>
            /\ worker[w].pc \in Calling => SeenRight(w, i[1])
            /\ worker[w].pc = "finish" /\ worker[w].verdict = "done" => Right(i[1])

InHand == \A w \in Workers : HandOf(w)
Asked == \A w \in Workers : AskedOf(w)
NothingMissed == \A w \in Workers : MissedNothing(w)

\* Without a break, the link is there and every event is noted in its booking.
Unbroken ==
    breaks = 0 =>
        /\ Linked
        /\ \A k \in Bookings : ~booking[k].event =>
            \/ event[k] = None
            \/ \E w \in Workers : worker[w].pc = "save" /\ worker[w].job[1] = k

DoneRight == \A k \in Bookings : Settled(k) /\ Linked => Right(k)

EventInv == InHand /\ Asked /\ NothingMissed /\ Unbroken /\ DoneRight

\* There is a next job as long as one is left: the jobs of a booking are 1 .. n.
LEMMA NextFree ==
    ASSUME NEW k, HasRoom(k)
    PROVE  NextJob(k) \in Jobs /\ job[<<k, NextJob(k)>>].state = "none"
<1> DEFINE free == {n \in Jobs : job[<<k, n>>].state = "none"}
<1>1. free # {} /\ free \subseteq Nat
  BY CalendarConstants DEF HasRoom
<1>2. PICK n \in free : \A m \in free : <<m, n>> \notin OpToRel(<, Nat)
  <2> HIDE DEF free
  <2> QED BY <1>1, NatLessThanWellFounded, WFMin
<1>3. ASSUME NEW m \in 1 .. n - 1 PROVE job[<<k, m>>].state # "none"
  <2>1. m \in Jobs /\ m \in Nat /\ n \in Nat /\ m < n
    BY CalendarConstants
  <2>2. <<m, n>> \in OpToRel(<, Nat)
    BY <2>1 DEF OpToRel
  <2> QED BY <1>2, <2>1, <2>2
<1>4. \E x \in Jobs : /\ job[<<k, x>>].state = "none"
                      /\ \A m \in 1 .. x - 1 : job[<<k, m>>].state # "none"
  BY <1>3
<1> QED BY <1>4 DEF NextJob

\* A change that is to reach Google leaves a job in the queue.
LEMMA ChangeQueued ==
    ASSUME WorkTyped, NEW k \in Bookings, EnqueueSync(k)
    PROVE  /\ connection = "active" => Queued(k)'
           /\ \A i \in Ids : job[i].state # "none" => job'[i] = job[i]
<1>1. CASE Wanted(k)
  <2> DEFINE n == NextJob(k)
  <2>1. n \in Jobs /\ job[<<k, n>>].state = "none" /\ <<k, n>> \in Ids
    BY <1>1, NextFree DEF EnqueueSync, Ids
  <2>2. job' = [job EXCEPT ![<<k, n>>].state = "queued"]
    BY <1>1 DEF EnqueueSync
  <2> HIDE DEF n
  <2>3. job'[<<k, n>>].state = "queued"
    BY <2>1, <2>2 DEF WorkTyped, JobType
  <2>4. \A i \in Ids : i # <<k, n>> => job'[i] = job[i]
    BY <2>2 DEF WorkTyped
  <2> QED BY <2>1, <2>3, <2>4 DEF Queued
<1>2. CASE ~Wanted(k)
  BY <1>2 DEF EnqueueSync, Wanted, Queued
<1> QED BY <1>1, <1>2

\* What others do keeps the invariant if a booking that changed has a job in the
\* queue, or no connection to be changed through.
LEMMA OthersKeep ==
    ASSUME WorkTyped, EventInv, UNCHANGED <<event, worker>>,
           \A i \in Ids : job[i].state # "none" => job'[i] = job[i],
           breaks' = 0 => breaks = 0 /\ Linked',
           \A k \in Bookings : booking'[k].event = booking[k].event,
           \A k \in Bookings : Linked' =>
                \/ Queued(k)'
                \/ /\ Linked
                   /\ Upcoming(k)' => Upcoming(k) /\ booking'[k].start = booking[k].start
                   /\ booking'[k].state = "cancelled" => booking[k].state = "cancelled"
                \/ ~Upcoming(k)' /\ breaks' # 0
    PROVE  EventInv'
<1>1. ASSUME NEW k \in Bookings, Queued(k) PROVE Queued(k)'
  <2>1. PICK n \in Jobs : job[<<k, n>>].state = "queued"
    BY <1>1 DEF Queued
  <2>2. job'[<<k, n>>] = job[<<k, n>>]
    BY <2>1 DEF Ids
  <2> QED BY <2>1, <2>2 DEF Queued
<1>2. ASSUME NEW k \in Bookings, Settled(k)' PROVE Settled(k) /\ ~Queued(k)'
  <2>1. \A n \in Jobs : job'[<<k, n>>].state \in {"none", "done"}
    BY <1>2 DEF Settled
  <2>2. \A n \in Jobs : job[<<k, n>>].state # "none" => job'[<<k, n>>] = job[<<k, n>>]
    BY DEF Ids
  <2> QED BY <2>1, <2>2 DEF Settled, Queued
<1>3. InHand'
  BY DEF EventInv, InHand, HandOf, WorkTyped, WorkerType, Ids
<1>4. Asked'
  BY DEF EventInv, Asked, AskedOf
<1>5. NothingMissed'
  <2> SUFFICES ASSUME NEW w \in Workers, NEW i \in Ids,
                      worker[w].job = i, Linked', ~Queued(i[1])'
               PROVE  /\ worker[w].pc \in Calling => SeenRight(w, i[1])'
                      /\ worker[w].pc = "finish" /\ worker[w].verdict = "done" => Right(i[1])'
    BY DEF NothingMissed, MissedNothing
  <2>1. i[1] \in Bookings
    BY DEF Ids
  <2>2. CASE ~Upcoming(i[1])' /\ breaks' # 0
    BY <2>2 DEF SeenRight, Right
  <2>3. CASE /\ Linked
             /\ Upcoming(i[1])' => Upcoming(i[1]) /\ booking'[i[1]].start = booking[i[1]].start
             /\ booking'[i[1]].state = "cancelled" => booking[i[1]].state = "cancelled"
    <3>1. /\ worker[w].pc \in Calling => SeenRight(w, i[1])
          /\ worker[w].pc = "finish" /\ worker[w].verdict = "done" => Right(i[1])
      BY <1>1, <2>1, <2>3 DEF EventInv, NothingMissed, MissedNothing
    <3>2. SeenRight(w, i[1]) => SeenRight(w, i[1])'
      BY <2>3 DEF SeenRight
    <3>3. Right(i[1]) => Right(i[1])'
      BY <2>3 DEF Right
    <3> QED BY <3>1, <3>2, <3>3
  <2> QED BY <2>1, <2>2, <2>3
<1>6. Unbroken'
  BY DEF EventInv, Unbroken
<1>7. DoneRight'
  <2> SUFFICES ASSUME NEW k \in Bookings, Settled(k)', Linked' PROVE Right(k)'
    BY DEF DoneRight
  <2>1. CASE ~Upcoming(k)' /\ breaks' # 0
    BY <2>1 DEF Right
  <2>2. CASE /\ Linked
             /\ Upcoming(k)' => Upcoming(k) /\ booking'[k].start = booking[k].start
             /\ booking'[k].state = "cancelled" => booking[k].state = "cancelled"
    <3>1. Right(k)
      BY <1>2, <2>2 DEF EventInv, DoneRight
    <3> QED BY <2>2, <3>1 DEF Right
  <2> QED BY <1>2, <2>1, <2>2
<1> QED BY <1>3, <1>4, <1>5, <1>6, <1>7 DEF EventInv

\* A worker beside whose bookings nothing happens keeps its part of the invariant.
LEMMA OtherKept ==
    ASSUME WorkTyped, EventInv, NEW v \in Workers, worker'[v] = worker[v], UNCHANGED now,
           Linked' => Linked, breaks' = 0 => breaks = 0,
           \A i \in Ids : i \in Hands(v) =>
                /\ \A n \in Jobs : job'[<<i[1], n>>] = job[<<i[1], n>>]
                /\ event'[i[1]] = event[i[1]]
                /\ booking'[i[1]].state = booking[i[1]].state
                /\ booking'[i[1]].start = booking[i[1]].start
    PROVE  HandOf(v)' /\ AskedOf(v)' /\ MissedNothing(v)'
<1>1. /\ HandOf(v) /\ AskedOf(v) /\ MissedNothing(v)
      /\ worker[v].batch \subseteq Ids
  BY DEF EventInv, InHand, Asked, NothingMissed, WorkTyped, WorkerType
<1>2. ASSUME NEW i \in Ids, i \in Hands(v) PROVE job'[i] = job[i]
  <2>1. i = <<i[1], i[2]>> /\ i[2] \in Jobs
    BY DEF Ids
  <2> QED BY <1>2, <2>1
<1>3. HandOf(v)'
  BY <1>1, <1>2 DEF HandOf, Hands
<1>4. AskedOf(v)'
  BY <1>1 DEF AskedOf, HandOf, Hands, Calling
<1>5. MissedNothing(v)'
  <2> SUFFICES ASSUME NEW i \in Ids, worker[v].job = i, Linked', ~Queued(i[1])'
               PROVE  /\ worker[v].pc \in Calling => SeenRight(v, i[1])'
                      /\ worker[v].pc = "finish" /\ worker[v].verdict = "done" => Right(i[1])'
    BY DEF MissedNothing
  <2>1. i \in Hands(v)
    BY DEF Hands
  <2>2. ~Queued(i[1])
    BY <2>1 DEF Queued
  <2>3. /\ worker[v].pc \in Calling => SeenRight(v, i[1])
        /\ worker[v].pc = "finish" /\ worker[v].verdict = "done" => Right(i[1])
    BY <1>1, <2>2 DEF MissedNothing
  <2>4. SeenRight(v, i[1]) => SeenRight(v, i[1])'
    BY <2>1 DEF SeenRight, Upcoming
  <2>5. Right(i[1]) => Right(i[1])'
    BY <2>1 DEF Right, Upcoming
  <2> QED BY <2>3, <2>4, <2>5
<1> QED BY <1>3, <1>4, <1>5

\* What a worker does with a job of its own leaves the other workers alone.
LEMMA OthersAlone ==
    ASSUME WorkTyped, EventInv, Apart, NEW w \in Workers, NEW i \in Ids, i \in Hands(w),
           \A v \in Workers : v # w => worker'[v] = worker[v],
           UNCHANGED now, Linked' => Linked, breaks' = 0 => breaks = 0,
           \A j \in Ids : j[1] # i[1] => job'[j] = job[j],
           \A l \in Bookings : l # i[1] => /\ event'[l] = event[l]
                                          /\ booking'[l].state = booking[l].state
                                          /\ booking'[l].start = booking[l].start
    PROVE  \A v \in Workers : v # w =>
                /\ worker'[v] = worker[v]
                /\ HandOf(v)' /\ AskedOf(v)' /\ MissedNothing(v)'
                /\ worker[v].pc \in Calling => worker[v].job[1] # i[1]
<1> SUFFICES ASSUME NEW v \in Workers, v # w
             PROVE  /\ HandOf(v)' /\ AskedOf(v)' /\ MissedNothing(v)'
                    /\ worker[v].pc \in Calling => worker[v].job[1] # i[1]
  OBVIOUS
<1>1. \A j \in Ids : j \in Hands(v) => j[1] # i[1] /\ j[1] \in Bookings
  BY DEF Apart, Ids
<1>2. ASSUME NEW j \in Ids, j \in Hands(v)
      PROVE  /\ \A n \in Jobs : job'[<<j[1], n>>] = job[<<j[1], n>>]
             /\ event'[j[1]] = event[j[1]]
             /\ booking'[j[1]].state = booking[j[1]].state
             /\ booking'[j[1]].start = booking[j[1]].start
  <2>1. \A n \in Jobs : <<j[1], n>> \in Ids /\ <<j[1], n>>[1] # i[1]
    BY <1>1, <1>2 DEF Ids
  <2> QED BY <1>1, <1>2, <2>1
<1>3. HandOf(v)' /\ AskedOf(v)' /\ MissedNothing(v)'
  BY <1>2, OtherKept
<1>4. worker[v].pc \in Calling => worker[v].job \in Ids /\ worker[v].job \in Hands(v)
  BY DEF EventInv, InHand, HandOf, Hands
<1> QED BY <1>1, <1>3, <1>4

\* A worker claims what there is to do: it has nothing in hand yet.
LEMMA ClaimKeeps ==
    ASSUME WorkTyped, EventInv, Apart', NEW w \in Workers, ClaimCalendarJobs(w)
    PROVE  EventInv'
<1>1. /\ worker[w].pc = "idle" /\ UNCHANGED <<now, booking, connection, granted, event, breaks>>
      /\ \A i \in Ids : job'[i] = IF i \in Claimable
                                  THEN [state |-> "processing", tries |-> job[i].tries + 1]
                                  ELSE job[i]
  BY DEF ClaimCalendarJobs, timeVars, linkVars, Calm
<1>2. /\ worker'[w].pc = "batch" /\ worker'[w].batch = Claimable
      /\ \A v \in Workers : v # w => worker'[v] = worker[v]
  BY DEF ClaimCalendarJobs, WorkTyped, Idle
<1>3. ASSUME NEW v \in Workers, v # w PROVE HandOf(v)' /\ AskedOf(v)' /\ MissedNothing(v)'
  <2>1. ASSUME NEW i \in Ids, i \in Hands(v), NEW n \in Jobs
        PROVE  job'[<<i[1], n>>] = job[<<i[1], n>>]
    <3>1. <<i[1], n>> \in Ids /\ <<i[1], n>>[1] = i[1]
      BY DEF Ids
    <3>2. i \in Hands(v)'
      BY <1>2, <1>3, <2>1 DEF Hands
    <3>3. <<i[1], n>> \notin Hands(w)'
      BY <1>3, <3>1, <3>2 DEF Apart
    <3>4. <<i[1], n>> \notin Claimable
      BY <1>2, <3>3 DEF Hands
    <3> QED BY <1>1, <3>1, <3>4
  <2>2. Linked' => Linked
    BY <1>1 DEF Linked
  <2> QED BY <1>1, <1>2, <1>3, <2>1, <2>2, OtherKept
<1>4. HandOf(w)'
  <2>1. ASSUME NEW i \in Claimable PROVE job'[i].state = "processing"
    <3>1. i \in Ids
      BY DEF Claimable
    <3>2. job'[i] = [state |-> "processing", tries |-> job[i].tries + 1]
      BY <1>1, <3>1
    <3> QED BY <3>2
  <2> QED BY <1>2, <2>1 DEF HandOf, Calling
<1>5. AskedOf(w)' /\ MissedNothing(w)'
  BY <1>2 DEF AskedOf, MissedNothing, Calling
<1>6. Unbroken'
  <2> SUFFICES ASSUME breaks = 0, NEW k \in Bookings, ~booking[k].event, event[k] # None
               PROVE  \E v \in Workers : worker'[v].pc = "save" /\ worker'[v].job[1] = k
    BY <1>1 DEF EventInv, Unbroken, Linked
  <2>1. PICK v \in Workers : worker[v].pc = "save" /\ worker[v].job[1] = k
    BY DEF EventInv, Unbroken
  <2> QED BY <1>1, <1>2, <2>1
<1>7. \A k \in Bookings : Settled(k)' => Settled(k)
  <2> SUFFICES ASSUME NEW k \in Bookings, NEW n \in Jobs, Settled(k)'
               PROVE  job[<<k, n>>].state \in {"none", "done"}
    BY DEF Settled
  <2>1. job'[<<k, n>>].state \in {"none", "done"} /\ <<k, n>> \in Ids
    BY DEF Settled, Ids
  <2>2. CASE <<k, n>> \in Claimable
    <3>1. job'[<<k, n>>] = [state |-> "processing", tries |-> job[<<k, n>>].tries + 1]
      BY <1>1, <2>1, <2>2
    <3> QED BY <2>1, <3>1
  <2>3. CASE <<k, n>> \notin Claimable
    <3>1. job'[<<k, n>>] = job[<<k, n>>]
      BY <1>1, <2>1, <2>3
    <3> QED BY <2>1, <3>1
  <2> QED BY <2>2, <2>3
<1>8. DoneRight'
  BY <1>1, <1>7 DEF EventInv, DoneRight, Linked, Right, Upcoming
<1>9. InHand' /\ Asked' /\ NothingMissed'
  BY <1>3, <1>4, <1>5 DEF InHand, Asked, NothingMissed
<1> QED BY <1>6, <1>8, <1>9 DEF EventInv

\* What a worker reads is right at that moment.
LEMMA ReadKeeps ==
    ASSUME WorkTyped, EventInv, Apart, NEW w \in Workers, NEW i \in Ids, ReadJob(w, i)
    PROVE  EventInv'
<1> DEFINE k == i[1]
<1>1. PICK pc \in {"put", "delete", "finish"}, verdict \in Verdicts :
        /\ TakeUp(w, i, pc, verdict)
        /\ verdict = "done" => pc = ToDo(k)
        /\ verdict # "done" => pc = "finish"
  BY DEF ReadJob, ToDo, Verdicts
<1>2. /\ worker[w].pc = "batch" /\ i \in worker[w].batch
      /\ UNCHANGED <<now, booking, connection, granted, event, job, breaks>>
  BY DEF ReadJob, timeVars, linkVars, Calm, Err
<1>3. /\ worker'[w].pc = pc /\ worker'[w].job = i /\ worker'[w].seen = Seen(k)
      /\ worker'[w].batch = worker[w].batch \ {i} /\ worker'[w].verdict = verdict
      /\ \A v \in Workers : v # w => worker'[v] = worker[v]
  BY <1>1 DEF TakeUp, WorkTyped
<1>4. k \in Bookings
  BY DEF Ids
<1>5. \A v \in Workers : v # w =>
            /\ worker'[v] = worker[v] /\ HandOf(v)' /\ AskedOf(v)' /\ MissedNothing(v)'
            /\ worker[v].pc \in Calling => worker[v].job[1] # k
  <2>1. Linked' => Linked
    BY <1>2 DEF Linked
  <2>2. i \in Hands(w)
    BY <1>2 DEF Hands
  <2> QED BY <1>2, <1>3, <2>1, <2>2, OthersAlone
<1>6. HandOf(w)'
  <2>1. job'[i].state \in {"processing", "lapsed"}
    BY <1>2 DEF EventInv, InHand, HandOf
  <2>2. \A j \in worker'[w].batch : job'[j].state \in {"processing", "lapsed"}
    BY <1>2, <1>3 DEF EventInv, InHand, HandOf
  <2>3. worker'[w].pc # "idle"
    BY <1>3
  <2> HIDE DEF k
  <2> QED BY <1>3, <2>1, <2>2, <2>3 DEF HandOf
<1>7. /\ worker'[w].seen.there <=> booking[k].state = "confirmed"
      /\ worker'[w].seen.start = booking[k].start
  <2> HIDE DEF k
  <2>1. CASE booking[k].state = "confirmed"
    <3>1. worker'[w].seen = [there |-> TRUE, start |-> booking[k].start, link |-> booking[k].link]
      BY <1>3, <2>1 DEF Seen
    <3> QED BY <2>1, <3>1
  <2>2. CASE booking[k].state # "confirmed"
    <3>1. worker'[w].seen = [there |-> FALSE, start |-> booking[k].start, link |-> booking[k].link]
      BY <1>3, <2>2 DEF Seen
    <3> QED BY <2>2, <3>1
  <2> QED BY <2>1, <2>2
<1>8. /\ pc = "put" => connection = "active" /\ booking[k].state = "confirmed"
      /\ pc = "delete" => connection = "active" /\ booking[k].state # "confirmed"
      /\ pc = "finish" /\ verdict = "done" /\ connection = "active" =>
            \/ booking[k].state # "confirmed" /\ ~booking[k].event
            \/ booking[k].state = "confirmed" /\ ~(booking[k].start > now)
  <2>1. booking[k].event \/ ~booking[k].event
    OBVIOUS
  <2> HIDE DEF k
  <2> QED BY <1>1, <2>1 DEF ToDo
<1>9. AskedOf(w)'
  BY <1>1, <1>3, <1>7, <1>8 DEF AskedOf
<1>10. booking[k].event \/ event[k] = None \/ breaks # 0
  <2> SUFFICES ASSUME ~booking[k].event, event[k] # None, breaks = 0 PROVE FALSE
    OBVIOUS
  <2>1. PICK v \in Workers : worker[v].pc = "save" /\ worker[v].job[1] = k
    BY <1>4 DEF EventInv, Unbroken
  <2>2. v # w
    BY <1>2, <2>1
  <2> QED BY <1>5, <2>1, <2>2 DEF Calling
<1>11. MissedNothing(w)'
  <2> SUFFICES ASSUME Linked
               PROVE  /\ worker'[w].pc \in Calling => SeenRight(w, k)'
                      /\ worker'[w].pc = "finish" /\ worker'[w].verdict = "done" => Right(k)'
    BY <1>2, <1>3 DEF MissedNothing, Linked
  <2> HIDE DEF k
  <2>1. worker'[w].pc \in Calling => SeenRight(w, k)'
    BY <1>2, <1>7 DEF SeenRight, Upcoming
  <2>2. worker'[w].pc = "finish" /\ worker'[w].verdict = "done" => Right(k)'
    BY <1>2, <1>3, <1>8, <1>10 DEF Linked, Right, Upcoming
  <2> QED BY <2>1, <2>2
<1>12. Unbroken'
  <2> SUFFICES ASSUME breaks = 0, NEW l \in Bookings, ~booking[l].event, event[l] # None
               PROVE  \E v \in Workers : worker'[v].pc = "save" /\ worker'[v].job[1] = l
    BY <1>2 DEF EventInv, Unbroken, Linked
  <2>1. PICK v \in Workers : worker[v].pc = "save" /\ worker[v].job[1] = l
    BY DEF EventInv, Unbroken
  <2> QED BY <1>2, <1>3, <2>1
<1>13. DoneRight'
  BY <1>2 DEF EventInv, DoneRight, Linked, Right, Upcoming, Settled
<1>14. InHand' /\ Asked' /\ NothingMissed'
  BY <1>5, <1>6, <1>9, <1>11 DEF InHand, Asked, NothingMissed
<1> QED BY <1>12, <1>13, <1>14 DEF EventInv

\* Google's answer, of whatever kind, and none.
LEMMA CallKeeps ==
    ASSUME WorkTyped, RestTyped, EventInv, Apart, NEW w \in Workers, CallGoogle(w)
    PROVE  EventInv'
<1>0. PICK i \in Ids : worker[w].job = i /\ i \notin worker[w].batch
  BY DEF CallGoogle, EventInv, InHand, HandOf, Calling
<1> DEFINE k == i[1]
<1>1. /\ worker[w].pc \in {"put", "delete"}
      /\ UNCHANGED <<now, booking, granted, job>>
      /\ \/ /\ granted /\ event' = [event EXCEPT ![k] = InGoogle(w)]
            /\ worker' = [worker EXCEPT ![w].pc = "save"]
            /\ UNCHANGED <<connection, breaks>>
         \/ /\ granted /\ UNCHANGED connection
            /\ \/ UNCHANGED <<event, breaks>>
               \/ breaks' = breaks + 1 /\ event' = [event EXCEPT ![k] = InGoogle(w)]
            /\ worker' = [worker EXCEPT ![w].pc = "finish", ![w].verdict = "queued"]
         \/ /\ ~granted /\ UNCHANGED <<event, breaks>>
            /\ worker' = [worker EXCEPT ![w].pc = "finish"]
  BY <1>0 DEF CallGoogle, timeVars, Calm, Err, Break
<1>2. /\ i \in Ids \ worker[w].batch /\ job[i].state \in {"processing", "lapsed"}
      /\ k \in Bookings /\ worker[w] \in WorkerType
  BY <1>0, <1>1 DEF EventInv, InHand, HandOf, Calling, WorkTyped, Ids
<1>3. \A v \in Workers : v # w => worker'[v] = worker[v]
  BY <1>1 DEF WorkTyped
<1>4. /\ worker'[w].job = i /\ worker'[w].seen = worker[w].seen
      /\ worker'[w].batch = worker[w].batch
      /\ \/ /\ granted /\ event' = [event EXCEPT ![k] = InGoogle(w)]
            /\ worker'[w].pc = "save" /\ UNCHANGED <<connection, breaks>>
         \/ /\ granted /\ UNCHANGED connection
            /\ \/ UNCHANGED <<event, breaks>>
               \/ breaks' = breaks + 1 /\ event' = [event EXCEPT ![k] = InGoogle(w)]
            /\ worker'[w].pc = "finish" /\ worker'[w].verdict = "queued"
         \/ /\ ~granted /\ UNCHANGED <<event, breaks>>
            /\ worker'[w].pc = "finish"
  <2> HIDE DEF k
  <2>1. /\ worker'[w].job = worker[w].job /\ worker'[w].seen = worker[w].seen
        /\ worker'[w].batch = worker[w].batch
    BY <1>1, <1>2 DEF WorkTyped, WorkerType
  <2>2. \/ /\ granted /\ event' = [event EXCEPT ![k] = InGoogle(w)]
            /\ worker'[w].pc = "save" /\ UNCHANGED <<connection, breaks>>
         \/ /\ granted /\ UNCHANGED connection
            /\ \/ UNCHANGED <<event, breaks>>
               \/ breaks' = breaks + 1 /\ event' = [event EXCEPT ![k] = InGoogle(w)]
            /\ worker'[w].pc = "finish" /\ worker'[w].verdict = "queued"
         \/ /\ ~granted /\ UNCHANGED <<event, breaks>>
            /\ worker'[w].pc = "finish"
    BY <1>1, <1>2 DEF WorkTyped, WorkerType
  <2> QED BY <1>0, <2>1, <2>2
<1>5. /\ breaks' = 0 => breaks = 0
      /\ Linked' => Linked /\ granted
      /\ breaks = 0 => granted
      /\ \A l \in Bookings : l # k => event'[l] = event[l]
  <2>1. breaks \in Nat
    BY CalendarConstants DEF RestTyped
  <2>2. breaks = 0 => granted
    BY DEF EventInv, Unbroken, Linked
  <2>3. \A l \in Bookings : l # k => event'[l] = event[l]
    BY <1>4 DEF WorkTyped
  <2> QED BY <1>1, <1>4, <2>1, <2>2, <2>3 DEF Linked
<1>6. \A v \in Workers : v # w =>
            /\ worker'[v] = worker[v] /\ HandOf(v)' /\ AskedOf(v)' /\ MissedNothing(v)'
            /\ worker[v].pc \in Calling => worker[v].job[1] # k
  <2>1. i \in Hands(w)
    BY <1>0 DEF Hands
  <2> QED BY <1>1, <1>3, <1>5, <2>1, OthersAlone
<1>7. HandOf(w)'
  BY <1>0, <1>1, <1>2, <1>4 DEF EventInv, InHand, HandOf, Calling
<1>8. AskedOf(w)'
  <2>1. InGoogle(w) = IF worker[w].seen.there THEN worker[w].seen.start ELSE None
    BY <1>1 DEF EventInv, Asked, AskedOf, InGoogle
  <2>2. worker'[w].pc = "save" => event'[k] = InGoogle(w)
    BY <1>2, <1>4 DEF WorkTyped
  <2> QED BY <1>4, <2>1, <2>2 DEF AskedOf
<1>9. MissedNothing(w)'
  <2> SUFFICES ASSUME Linked', ~Queued(k)'
               PROVE  /\ worker'[w].pc \in Calling => SeenRight(w, k)'
                      /\ ~(worker'[w].pc = "finish" /\ worker'[w].verdict = "done")
    BY <1>2, <1>4 DEF MissedNothing
  <2>1. Linked /\ ~Queued(k) /\ worker[w].pc \in Calling
    BY <1>1, <1>5 DEF Queued, Calling
  <2>2. SeenRight(w, k)
    BY <1>0, <2>1 DEF EventInv, NothingMissed, MissedNothing
  <2> HIDE DEF k
  <2>3. ~(worker'[w].pc = "finish" /\ worker'[w].verdict = "done")
    BY <1>4, <1>5
  <2> QED BY <1>1, <1>4, <1>5, <2>2, <2>3 DEF SeenRight, Upcoming
<1>10. Unbroken'
  <2> SUFFICES ASSUME breaks' = 0
               PROVE  /\ Linked'
                      /\ \A l \in Bookings : ~booking[l].event =>
                            \/ event'[l] = None
                            \/ \E v \in Workers : worker'[v].pc = "save" /\ worker'[v].job[1] = l
    BY <1>1 DEF Unbroken
  <2>1. /\ Linked /\ breaks \in Nat
        /\ \A l \in Bookings : ~booking[l].event =>
            \/ event[l] = None
            \/ \E v \in Workers : worker[v].pc = "save" /\ worker[v].job[1] = l
    BY <1>5, CalendarConstants DEF EventInv, Unbroken, RestTyped
  <2>2. Linked'
    BY <1>1, <1>4, <2>1 DEF Linked
  <2>3. ASSUME NEW l \in Bookings, ~booking[l].event
        PROVE  \/ event'[l] = None
               \/ \E v \in Workers : worker'[v].pc = "save" /\ worker'[v].job[1] = l
    <3>1. ASSUME NEW v \in Workers, worker[v].pc = "save", worker[v].job[1] = l
          PROVE  l # k /\ worker'[v].pc = "save" /\ worker'[v].job[1] = l
      <4>1. v # w
        BY <1>1, <3>1
      <4> QED BY <1>6, <3>1, <4>1 DEF Calling
    <3>2. CASE l = k
      <4>1. event[k] = None
        BY <2>1, <2>3, <3>1, <3>2
      <4> QED BY <1>4, <2>1, <3>2, <4>1
    <3>3. CASE l # k
      <4>1. event'[l] = event[l]
        BY <1>5, <3>3
      <4> QED BY <2>1, <2>3, <3>1, <4>1
    <3> QED BY <3>2, <3>3
  <2> QED BY <2>2, <2>3
<1>11. DoneRight'
  <2> SUFFICES ASSUME NEW l \in Bookings, Settled(l), Linked PROVE Right(l)'
    BY <1>1, <1>5 DEF DoneRight, Settled
  <2>1. l # k
    BY <1>2 DEF Settled, Ids
  <2>2. event'[l] = event[l]
    BY <1>5, <2>1
  <2>3. Right(l)
    BY DEF EventInv, DoneRight
  <2> QED BY <1>1, <1>5, <2>2, <2>3 DEF Right, Upcoming
<1>12. InHand' /\ Asked' /\ NothingMissed'
  BY <1>6, <1>7, <1>8, <1>9 DEF InHand, Asked, NothingMissed
<1> QED BY <1>10, <1>11, <1>12 DEF EventInv

\* What a worker notes about the event is what it asked of Google, or it is a break.
LEMMA SaveKeeps ==
    ASSUME TimesInv, WorkTyped, RestTyped, EventInv, Apart, NEW w \in Workers, SaveEvent(w)
    PROVE  EventInv'
<1>0. PICK i \in Ids : worker[w].job = i /\ job[i].state \in {"processing", "lapsed"}
  BY DEF SaveEvent, EventInv, InHand, HandOf, Calling
<1> DEFINE k == i[1]
           there == worker[w].seen.there
<1>1. /\ worker[w].pc = "save" /\ worker[w].seen \in SeenType
      /\ UNCHANGED <<now, connection, granted, event, job>>
      /\ UNCHANGED breaks \/ breaks' = breaks + 1
      /\ breaks \in Nat
  BY CalendarConstants DEF SaveEvent, WorkTyped, RestTyped, linkVars, Calm, Err, Break
<1>2. /\ worker'[w].pc = "finish" /\ worker'[w].job = i
      /\ worker'[w].batch = worker[w].batch
      /\ \A v \in Workers : v # w => worker'[v] = worker[v]
  <2>1. worker[w] \in WorkerType
    BY DEF WorkTyped
  <2>2. \E v : \/ worker' = [worker EXCEPT ![w].pc = "finish"]
               \/ worker' = [worker EXCEPT ![w].pc = "finish", ![w].verdict = v]
    BY DEF SaveEvent
  <2> QED BY <1>0, <2>1, <2>2 DEF WorkTyped, WorkerType
<1>3. k \in Bookings
  BY DEF Ids
<1>4. \A l \in Bookings :
        /\ booking'[l].state = booking[l].state /\ booking'[l].start = booking[l].start
        /\ l # k => booking'[l] = booking[l]
        /\ l = k /\ ~booking'[l].event => ~there \/ breaks' # 0
  <2> HIDE DEF k
  <2>1. \A l \in Bookings : booking[l] \in [state : {"none", "confirmed", "cancelled"},
                     start : Starts \cup {None}, event : BOOLEAN, link : LinkStates]
    BY DEF TimesInv, TimesTyped
  <2>2. \/ \E link : booking' = [booking EXCEPT ![k].event = there, ![k].link = link]
        \/ booking' = [booking EXCEPT ![k].event = TRUE]
        \/ booking' = booking /\ (~there \/ breaks' # 0)
    <3>1. \/ \E link : booking' = [booking EXCEPT ![worker[w].job[1]].event = there,
                                                 ![worker[w].job[1]].link = link]
          \/ booking' = [booking EXCEPT ![worker[w].job[1]].event = TRUE]
          \/ booking' = booking /\ IF there THEN Break ELSE Err
      BY DEF SaveEvent
    <3>2. Break => breaks' # 0
      BY <1>1 DEF Break
    <3> QED BY <1>0, <3>1, <3>2 DEF k
  <2>3. there \in BOOLEAN
    BY <1>1 DEF SeenType
  <2> HIDE DEF there
  <2> QED BY <1>3, <2>1, <2>2, <2>3 DEF TimesInv, TimesTyped
<1>5. event[k] = IF there THEN worker[w].seen.start ELSE None
  BY <1>0, <1>1 DEF EventInv, Asked, AskedOf
<1>6. \A v \in Workers : v # w =>
            /\ worker'[v] = worker[v] /\ HandOf(v)' /\ AskedOf(v)' /\ MissedNothing(v)'
            /\ worker[v].pc \in Calling => worker[v].job[1] # k
  <2>1. i \in Hands(w)
    BY <1>0 DEF Hands
  <2>2. Linked' => Linked
    BY <1>1 DEF Linked
  <2>3. breaks' = 0 => breaks = 0
    BY <1>1
  <2> QED BY <1>1, <1>2, <1>4, <2>1, <2>2, <2>3, OthersAlone
<1>7. HandOf(w)'
  BY <1>0, <1>1, <1>2 DEF EventInv, InHand, HandOf, Calling
<1>8. AskedOf(w)'
  BY <1>2 DEF AskedOf
<1>9. MissedNothing(w)'
  <2> SUFFICES ASSUME Linked, ~Queued(k) PROVE Right(k)'
    BY <1>1, <1>2 DEF MissedNothing, Linked, Queued, Calling
  <2>1. SeenRight(w, k)
    BY <1>0, <1>1 DEF EventInv, NothingMissed, MissedNothing, Calling
  <2>2. there \in BOOLEAN
    BY <1>1 DEF SeenType
  <2> HIDE DEF k
  <2> QED BY <1>1, <1>3, <1>4, <1>5, <2>1, <2>2 DEF SeenRight, Right, Upcoming
<1>10. Unbroken'
  <2> SUFFICES ASSUME breaks' = 0, NEW l \in Bookings, ~booking'[l].event, event[l] # None
               PROVE  \E v \in Workers : worker'[v].pc = "save" /\ worker'[v].job[1] = l
    BY <1>1 DEF EventInv, Unbroken, Linked
  <2>1. l # k
    BY <1>4, <1>5
  <2>2. PICK v \in Workers : worker[v].pc = "save" /\ worker[v].job[1] = l
    BY <1>1, <1>4, <2>1 DEF EventInv, Unbroken
  <2>3. v # w
    BY <1>0, <2>1, <2>2
  <2> QED BY <1>2, <2>2, <2>3
<1>11. DoneRight'
  BY <1>1, <1>4 DEF EventInv, DoneRight, Linked, Right, Upcoming, Settled
<1>12. InHand' /\ Asked' /\ NothingMissed'
  BY <1>6, <1>7, <1>8, <1>9 DEF InHand, Asked, NothingMissed
<1> QED BY <1>10, <1>11, <1>12 DEF EventInv

\* A job that ends as done ends with the event in its place.
LEMMA FinishKeeps ==
    ASSUME WorkTyped, EventInv, Apart, NEW w \in Workers, FinishCalendarJob(w)
    PROVE  EventInv'
<1>0. PICK i \in Ids : /\ worker[w].job = i /\ i \notin worker[w].batch
                       /\ job[i].state \in {"processing", "lapsed"}
  BY DEF FinishCalendarJob, EventInv, InHand, HandOf
<1> DEFINE k == i[1]
<1>1. /\ worker[w].pc = "finish" /\ job' = Finished(i, worker[w].verdict)
      /\ UNCHANGED <<now, booking, connection, granted, event, breaks>>
  BY <1>0 DEF FinishCalendarJob, timeVars, linkVars, Calm
<1>2. /\ worker'[w].pc = IF worker[w].batch = {} THEN "idle" ELSE "batch"
      /\ worker'[w].batch = worker[w].batch
      /\ \A v \in Workers : v # w => worker'[v] = worker[v]
  BY DEF FinishCalendarJob, WorkTyped, Rest, Idle
<1>4. /\ \A j \in Ids : j # i => job'[j] = job[j]
      /\ job'[i].state \in {"none", "done"} => worker[w].verdict = "done"
  <2> DEFINE v == worker[w].verdict
  <2>1. \/ job' = job
        \/ job' = [job EXCEPT ![i].state = "failed"]
        \/ job' = [job EXCEPT ![i].state = v]
    BY <1>1 DEF Finished
  <2>3. v \in {"done", "queued", "failed"}
    BY DEF WorkTyped, WorkerType, Verdicts
  <2> HIDE DEF v
  <2>2. /\ \A j \in Ids : j # i => job'[j] = job[j]
        /\ job'[i].state \in {"none", "done"} => v = "done"
    BY <1>0, <2>1, <2>3 DEF WorkTyped, JobType
  <2> QED BY <2>2 DEF v
<1>3. \A v \in Workers : v # w =>
            /\ worker'[v] = worker[v] /\ HandOf(v)' /\ AskedOf(v)' /\ MissedNothing(v)'
  <2>1. i \in Hands(w)
    BY <1>0 DEF Hands
  <2>2. Linked' => Linked
    BY <1>1 DEF Linked
  <2>3. \A j \in Ids : j[1] # k => job'[j] = job[j]
    BY <1>4
  <2> QED BY <1>1, <1>2, <2>1, <2>2, <2>3, OthersAlone
<1>5. HandOf(w)'
  <2>1. worker[w].batch \subseteq Ids
    BY DEF WorkTyped, WorkerType
  <2> QED BY <1>0, <1>2, <1>4, <2>1 DEF EventInv, InHand, HandOf, Calling
<1>6. AskedOf(w)' /\ MissedNothing(w)'
  BY <1>2 DEF AskedOf, MissedNothing, Calling
<1>7. Unbroken'
  <2> SUFFICES ASSUME breaks = 0, NEW l \in Bookings, ~booking[l].event, event[l] # None
               PROVE  \E v \in Workers : worker'[v].pc = "save" /\ worker'[v].job[1] = l
    BY <1>1 DEF EventInv, Unbroken, Linked
  <2>1. PICK v \in Workers : worker[v].pc = "save" /\ worker[v].job[1] = l
    BY DEF EventInv, Unbroken
  <2> QED BY <1>1, <1>2, <2>1
<1>8. DoneRight'
  <2> SUFFICES ASSUME NEW l \in Bookings, Settled(l)', Linked PROVE Right(l)
    BY <1>1 DEF DoneRight, Linked, Right, Upcoming
  <2>1. \A n \in Jobs : <<l, n>> \in Ids /\ job'[<<l, n>>].state \in {"none", "done"}
    BY DEF Settled, Ids
  <2>2. CASE l = k
    <3>1. i[2] \in Jobs /\ i = <<k, i[2]>>
      BY DEF Ids
    <3>2. job'[i].state \in {"none", "done"}
      BY <2>1, <2>2, <3>1
    <3>4. worker[w].verdict = "done"
      BY <1>4, <3>2
    <3>3. ~Queued(k)
      BY <1>0, <1>4, <2>1, <2>2 DEF Queued
    <3> QED BY <1>0, <1>1, <2>2, <3>3, <3>4 DEF EventInv, NothingMissed, MissedNothing
  <2>3. CASE l # k
    <3>1. \A n \in Jobs : job[<<l, n>>].state \in {"none", "done"}
      BY <1>4, <2>1, <2>3
    <3> QED BY <3>1 DEF EventInv, DoneRight, Settled
  <2> QED BY <2>2, <2>3
<1>9. InHand' /\ Asked' /\ NothingMissed'
  BY <1>3, <1>5, <1>6 DEF InHand, Asked, NothingMissed
<1> QED BY <1>7, <1>8, <1>9 DEF EventInv

LEMMA StopKeeps ==
    ASSUME WorkTyped, RestTyped, EventInv, NEW w \in Workers, WorkerStops(w)
    PROVE  EventInv'
<1>1. /\ UNCHANGED <<now, booking, connection, granted, event, job>> /\ breaks' = breaks + 1
      /\ breaks \in Nat
  BY CalendarConstants DEF WorkerStops, timeVars, linkVars, Break, RestTyped
<1>2. /\ worker'[w].pc = "idle" /\ worker'[w].batch = {}
      /\ \A v \in Workers : v # w => worker'[v] = worker[v]
  BY DEF WorkerStops, WorkTyped, Idle
<1>3. breaks' # 0
  BY <1>1
<1>4. ASSUME NEW v \in Workers, v # w PROVE HandOf(v)' /\ AskedOf(v)' /\ MissedNothing(v)'
  <2>1. Linked' => Linked
    BY <1>1 DEF Linked
  <2> QED BY <1>1, <1>2, <1>3, <1>4, <2>1, OtherKept
<1>5. HandOf(w)' /\ AskedOf(w)' /\ MissedNothing(w)'
  BY <1>2 DEF HandOf, AskedOf, MissedNothing, Calling
<1>6. InHand' /\ Asked' /\ NothingMissed'
  BY <1>4, <1>5 DEF InHand, Asked, NothingMissed
<1>7. Unbroken'
  BY <1>3 DEF Unbroken
<1>8. DoneRight'
  BY <1>1, <1>3 DEF EventInv, DoneRight, Linked, Right, Upcoming, Settled
<1> QED BY <1>6, <1>7, <1>8 DEF EventInv

LEMMA LapseKeeps ==
    ASSUME WorkTyped, EventInv, NEW i \in Ids, ClaimLapses(i)
    PROVE  EventInv'
<1>1. /\ UNCHANGED <<now, booking, connection, granted, event, worker, breaks>>
      /\ job[i].state = "processing"
  BY DEF ClaimLapses, timeVars, linkVars, Calm, Err
<1>2. /\ job'[i].state = "lapsed" /\ \A j \in Ids : j # i => job'[j] = job[j]
  BY DEF ClaimLapses, WorkTyped, JobType
<1>3. InHand'
  BY <1>1, <1>2 DEF EventInv, InHand, HandOf, WorkTyped, WorkerType
<1>4. Asked' /\ Unbroken'
  BY <1>1 DEF EventInv, Asked, AskedOf, Unbroken, Linked
<1>5. ASSUME NEW k \in Bookings
      PROVE  (Queued(k) => Queued(k)') /\ (Settled(k)' => Settled(k))
  <2>1. ASSUME NEW n \in Jobs
        PROVE  \/ job'[<<k, n>>] = job[<<k, n>>]
               \/ job[<<k, n>>].state = "processing" /\ job'[<<k, n>>].state = "lapsed"
    <3>1. <<k, n>> \in Ids
      BY DEF Ids
    <3> QED BY <1>1, <1>2, <3>1
  <2> QED BY <2>1 DEF Queued, Settled
<1>6. NothingMissed'
  <2>1. \A j \in Ids : j[1] \in Bookings
    BY DEF Ids
  <2> QED BY <1>1, <1>5, <2>1
          DEF EventInv, NothingMissed, MissedNothing, Linked, SeenRight, Right, Upcoming
<1>7. DoneRight'
  BY <1>1, <1>5 DEF EventInv, DoneRight, Linked, Right, Upcoming
<1> QED BY <1>3, <1>4, <1>6, <1>7 DEF EventInv

LEMMA EventInitInv == Init => EventInv
<1> SUFFICES ASSUME Init PROVE EventInv
  OBVIOUS
<1>1. /\ InHand /\ Asked /\ NothingMissed
  BY DEF Init, Idle, InHand, HandOf, Asked, AskedOf, NothingMissed, MissedNothing, Calling
<1>2. Unbroken /\ DoneRight
  BY DEF Init, NotBooked, Unbroken, Linked, DoneRight, Right, Upcoming
<1> QED BY <1>1, <1>2 DEF EventInv

LEMMA EventStepInv ==
    ASSUME Apart, Apart', CalendarInv, RestTyped, EventInv, [Next]_vars
    PROVE  EventInv'
<1>0. /\ TimesInv /\ WorkTyped
      /\ now \in Nat /\ breaks \in Nat
      /\ booking \in [Bookings -> [state : {"none", "confirmed", "cancelled"},
                                   start : Starts \cup {None}, event : BOOLEAN,
                                   link : LinkStates]]
      /\ \A k \in Bookings : booking[k].state = "confirmed" => booking[k].start \in Nat
  <2>1. ASSUME NEW k \in Bookings, booking[k].state = "confirmed"
        PROVE  booking[k].start \in Starts
    <3>1. reservation[k] = [state |-> "booked", at |-> booking[k].start]
      BY <2>1 DEF CalendarInv, TimesInv, TimesMeant
    <3>2. reservation[k].state = "booked" /\ reservation[k].at = booking[k].start
      BY <3>1
    <3> QED BY <3>2 DEF CalendarInv, TimesInv, TimesMeant
  <2>2. \A k \in Bookings : booking[k].state = "confirmed" => booking[k].start \in Nat
    BY <2>1, HoursConstants
  <2>3. breaks \in Nat
    BY CalendarConstants DEF RestTyped
  <2> QED BY <2>2, <2>3 DEF CalendarInv, TimesInv, TimesTyped
<1>a. breaks = 0 => Linked
  BY DEF EventInv, Unbroken
<1> DEFINE Same(k) == /\ booking'[k].state = booking[k].state
                      /\ booking'[k].start = booking[k].start
                      /\ booking'[k].event = booking[k].event
\* Steps that leave the jobs, the times and the states of the bookings as they are.
<1>1. ASSUME UNCHANGED <<event, worker, job>>, now' \in {now, now + 1},
             \A k \in Bookings : Same(k),
             Linked' => Linked, breaks' = 0 => breaks = 0 /\ Linked'
      PROVE  EventInv'
  <2>1. ASSUME NEW k \in Bookings, Upcoming(k)' PROVE Upcoming(k)
    BY <1>0, <1>1, <2>1 DEF Upcoming
  <2> QED BY <1>0, <1>1, <2>1, OthersKeep
\* Steps that change one booking and queue a job for it.
<1>2. ASSUME NEW k \in Bookings, EnqueueSync(k), UNCHANGED <<event, worker, now, linkVars, breaks>>,
             \A l \in Bookings : l # k => booking'[l] = booking[l],
             booking'[k].event = booking[k].event
      PROVE  EventInv'
  <2>1. Linked' => Linked /\ Queued(k)'
    BY <1>0, <1>2, ChangeQueued DEF linkVars, Linked
  <2>2. \A l \in Bookings : l # k => /\ Upcoming(l)' => Upcoming(l)
                                     /\ booking'[l] = booking[l]
    BY <1>2 DEF Upcoming
  <2>3. \A i \in Ids : job[i].state # "none" => job'[i] = job[i]
    BY <1>0, <1>2, ChangeQueued
  <2>4. breaks' = 0 => breaks = 0 /\ Linked'
    BY <1>2, <1>a DEF linkVars, Linked
  <2>5. \A l \in Bookings : Linked' =>
            \/ Queued(l)'
            \/ /\ Linked
               /\ Upcoming(l)' => Upcoming(l) /\ booking'[l].start = booking[l].start
               /\ booking'[l].state = "cancelled" => booking[l].state = "cancelled"
            \/ ~Upcoming(l)' /\ breaks' # 0
    BY <2>1, <2>2
  <2>6. \A l \in Bookings : booking'[l].event = booking[l].event
    BY <1>2
  <2> QED BY <1>0, <1>2, <2>3, <2>4, <2>5, <2>6, OthersKeep
<1>3. CASE Tick
  BY <1>1, <1>3, <1>a DEF Tick, timeVars, linkVars, syncVars, Calm, Linked
<1>4. ASSUME NEW k \in Bookings, NEW s \in Starts, HoldTime(k, s) PROVE EventInv'
  BY <1>1, <1>4, <1>a DEF HoldTime, linkVars, syncVars, Calm, Linked
<1>5. ASSUME NEW k \in Bookings,
             \/ HoldLapses(k)
             \/ \E by \in Parties : \/ \E s \in Starts : CreateReschedule(k, by, s)
                                    \/ ExpireReschedule(k, by) \/ DeclineReschedule(k, by)
      PROVE  EventInv'
  BY <1>1, <1>5, <1>a DEF HoldLapses, CreateReschedule, ExpireReschedule, DeclineReschedule,
                          linkVars, syncVars, Calm, Linked
<1>6. ASSUME NEW k \in Bookings, UpdateMeetingLink(k) \/ CreateMissingMeetingLinks(k)
      PROVE  EventInv'
  <2>1. \E link : booking' = [booking EXCEPT ![k].link = link]
    BY <1>6 DEF UpdateMeetingLink, CreateMissingMeetingLinks
  <2>2. \A l \in Bookings : Same(l)
    BY <1>0, <2>1
  <2>3. UNCHANGED <<event, worker, job, now, connection, granted, breaks>>
    BY <1>6 DEF UpdateMeetingLink, CreateMissingMeetingLinks, linkVars, syncVars, Calm
  <2> HIDE DEF Same
  <2>4. Linked' => Linked
    BY <2>3 DEF Linked
  <2>5. breaks' = 0 => breaks = 0 /\ Linked'
    BY <2>3, <1>a DEF Linked
  <2> QED BY <1>1, <2>2, <2>3, <2>4, <2>5
<1>7. ASSUME NEW k \in Bookings,
             \/ ConfirmBooking(k) \/ ApplyCancellation(k)
             \/ \E by \in Parties : AcceptReschedule(k, by)
      PROVE  EventInv'
  <2>1. \E state, start : \/ booking' = [booking EXCEPT ![k].state = state, ![k].start = start]
                          \/ booking' = [booking EXCEPT ![k].state = state]
                          \/ booking' = [booking EXCEPT ![k].start = start]
    BY <1>7 DEF ConfirmBooking, ApplyCancellation, AcceptReschedule
  <2>2. /\ \A l \in Bookings : l # k => booking'[l] = booking[l]
        /\ booking'[k].event = booking[k].event
    BY <1>0, <2>1
  <2>3. EnqueueSync(k) /\ UNCHANGED <<event, worker, now, linkVars, breaks>>
    BY <1>7 DEF ConfirmBooking, ApplyCancellation, AcceptReschedule, Calm
  <2> QED BY <1>2, <2>2, <2>3
<1>8. CASE SyncSellerBusy
  BY <1>1, <1>8, <1>a DEF SyncSellerBusy, timeVars, syncVars, Calm, Linked
<1>9. CASE AccessWithdrawn \/ CalendarDisconnect
  <2>1. /\ UNCHANGED <<event, worker, job, now, booking>> /\ granted' = FALSE
        /\ breaks' = breaks + 1
    BY <1>9 DEF AccessWithdrawn, CalendarDisconnect, timeVars, syncVars, Break
  <2> QED BY <1>0, <1>1, <2>1 DEF Linked
<1>10. CASE CalendarCallback
  <2> DEFINE due == {k \in Bookings : Upcoming(k)
                                       /\ \A n \in Jobs : job[<<k, n>>].state # "queued"}
  <2>1. /\ UNCHANGED <<event, worker, now, booking, breaks>> /\ ~granted
        /\ Linked' /\ \A k \in due : HasRoom(k)
        /\ job' = [i \in Ids |-> IF i[1] \in due /\ i[2] = NextJob(i[1])
                                 THEN [job[i] EXCEPT !.state = "queued"] ELSE job[i]]
    BY <1>10 DEF CalendarCallback, timeVars, Calm, Linked
  <2>2. breaks # 0
    BY <1>a, <2>1 DEF Linked
  <2>3. ASSUME NEW k \in due
        PROVE  /\ NextJob(k) \in Jobs /\ job[<<k, NextJob(k)>>].state = "none"
               /\ <<k, NextJob(k)>> \in Ids
    BY <2>1, <2>3, NextFree DEF Ids
  <2>4. \A i \in Ids : job[i].state # "none" => job'[i] = job[i]
    <3> SUFFICES ASSUME NEW i \in Ids, i[1] \in due, i[2] = NextJob(i[1])
                 PROVE  job[i].state = "none"
      BY <2>1
    <3>1. i = <<i[1], i[2]>>
      BY DEF Ids
    <3> QED BY <2>3, <3>1
  <2>5. ASSUME NEW k \in Bookings, Upcoming(k) PROVE Queued(k)'
    <3>1. CASE k \in due
      <4> DEFINE n == NextJob(k)
      <4>1. n \in Jobs /\ <<k, n>> \in Ids
        BY <2>3, <3>1
      <4>2. <<k, n>>[1] = k /\ <<k, n>>[2] = NextJob(k)
        OBVIOUS
      <4>3. job'[<<k, n>>] = [job[<<k, n>>] EXCEPT !.state = "queued"]
        <5> HIDE DEF due
        <5> QED BY <2>1, <3>1, <4>1, <4>2
      <4> HIDE DEF n
      <4>4. job'[<<k, n>>].state = "queued"
        BY <1>0, <4>1, <4>3 DEF WorkTyped, JobType
      <4> QED BY <4>1, <4>4 DEF Queued
    <3>2. CASE k \notin due
      <4>1. PICK n \in Jobs : job[<<k, n>>].state = "queued"
        BY <2>5, <3>2
      <4>2. job'[<<k, n>>] = job[<<k, n>>]
        BY <2>4, <4>1 DEF Ids
      <4> QED BY <4>1, <4>2 DEF Queued
    <3> QED BY <3>1, <3>2
  <2>6. ASSUME NEW k \in Bookings PROVE Queued(k)' \/ (~Upcoming(k)' /\ breaks' # 0)
    BY <2>1, <2>2, <2>5 DEF Upcoming
  <2> HIDE DEF due
  <2> QED BY <1>0, <2>1, <2>2, <2>4, <2>6, OthersKeep
<1>11. ASSUME NEW w \in Workers, CalendarWorker(w) PROVE EventInv'
  BY <1>0, <1>11, ClaimKeeps, ReadKeeps, CallKeeps, SaveKeeps, FinishKeeps DEF CalendarWorker
<1>12. ASSUME NEW w \in Workers, WorkerStops(w) PROVE EventInv'
  BY <1>0, <1>12, StopKeeps
<1>13. ASSUME NEW i \in Ids, ClaimLapses(i) PROVE EventInv'
  BY <1>0, <1>13, LapseKeeps
<1>14. CASE UNCHANGED vars
  BY <1>1, <1>14, <1>a DEF vars, timeVars, linkVars, syncVars, Linked
<1>15. CASE Next
  <2> HIDE DEF Same
  <2> QED BY <1>3, <1>4, <1>5, <1>6, <1>7, <1>8, <1>9, <1>10, <1>11, <1>12, <1>13, <1>15 DEF Next
<1> QED BY <1>14, <1>15

\* As long as no two workers have jobs of one booking in hand, Google's calendar
\* agrees with every booking whose jobs are done: an event at the time of an
\* upcoming booking, whatever was refused, lost or stopped on the way, and without
\* a break no event of a cancelled one (processCalendarJob, EnqueueCalendarSync).
\* A change that a worker has not seen leaves a job in the queue.
THEOREM EventsMatch == Spec /\ []Apart => []EventMatchesBooking
<1>1. EventInv => EventMatchesBooking
  BY DEF EventInv, DoneRight, Linked, Right, EventMatchesBooking
<1>2. /\ EventInv /\ CalendarInv /\ RestTyped /\ Apart /\ Apart' /\ [Next]_vars
      => EventInv'
  BY EventStepInv
<1> HIDE DEF Init, Next, vars, CalendarInv, RestTyped, EventInv, EventMatchesBooking, Apart
<1> QED BY <1>1, <1>2, CalendarAlways, RestInitTyped, RestStepTyped, EventInitInv, PTL DEF Spec
===============================================================================
