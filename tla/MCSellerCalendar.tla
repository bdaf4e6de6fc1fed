--------------------------- MODULE MCSellerCalendar ---------------------------
(* The instances of SellerCalendar that the runs check. *)
EXTENDS SellerCalendar, TLC

CONSTANTS k1, k2

\* A day whose clock goes back by one at 3, so that it shows 2 twice; or, with
\* Shift = 1, forward, so that it never shows 3.
OneToFour == {<<1, 4>>}
Back == -1

\* Jobs of different bookings share nothing, and times do not depend on jobs: the
\* run looks at all behaviours of the jobs of one booking, and of the times of
\* two before a job has begun; and of one fault at a time.  The two parties are
\* alike, so the buyer is the one who asks.
Apart ==
    /\ reservation[k2].state = "none" \/ \A i \in Ids : job[i].tries = 0
    /\ errors + breaks <= 1
    /\ \A k \in Bookings : request[k].by # "seller"
===============================================================================
