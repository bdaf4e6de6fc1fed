------------------------------ MODULE SellerTimes ------------------------------
(***************************************************************************)
(* What a seller's times promise to those who take them, without quotes,   *)
(* payments, clocks or clean-ups: a time is held, booked, moved and given  *)
(* up; nobody gets a time that meets one of another, except by taking the  *)
(* place of holds that are given up in the same step; and what is booked   *)
(* ends only by being moved or cancelled.                                  *)
(***************************************************************************)
CONSTANTS
    Clients,        \* those who take a time: quotes, or bookings
    Times,
    Nowhere,        \* the time of a client that has not asked for one
    Conflicts       \* the pairs of times that meet

VARIABLES
    standing,       \* of a client: free, held, booked, or over
    time            \* the time it has, or had

timesVars == <<standing, time>>

TimesInit ==
    /\ standing = [k \in Clients |-> "free"]
    /\ time = [k \in Clients |-> Nowhere]

InForce(k) == standing[k] \in {"held", "booked"}

Clear(k, s, gone) ==
    \A l \in Clients \ (gone \cup {k}) : InForce(l) => <<time[l], s>> \notin Conflicts

OtherHolds(k) == {l \in Clients \ {k} : standing[l] = "held"}

\* k comes to have time s, and the holds of gone give way.
Have(k, s, as, gone) ==
    /\ Clear(k, s, gone)
    /\ standing' = [l \in Clients |-> IF l = k THEN as
                                      ELSE IF l \in gone THEN "free" ELSE standing[l]]
    /\ time' = [time EXCEPT ![k] = s]

\* A first time, or the one it had before.
Hold(k, s) ==
    /\ standing[k] = "free" /\ time[k] \in {Nowhere, s}
    /\ \E gone \in SUBSET OtherHolds(k) : Have(k, s, "held", gone)

\* A payment books the time it was made for, even if the hold was given up.
Confirm(k, s) ==
    /\ standing[k] \in {"free", "held"} /\ time[k] = s
    /\ Have(k, s, "booked", {})

Move(k, s) ==
    /\ standing[k] = "booked"
    /\ \E gone \in SUBSET OtherHolds(k) : Have(k, s, "booked", gone)

GiveUp(k) ==
    /\ standing[k] = "held"
    /\ standing' = [standing EXCEPT ![k] = "free"] /\ UNCHANGED time

Cancel(k) ==
    /\ standing[k] = "booked"
    /\ standing' = [standing EXCEPT ![k] = "over"] /\ UNCHANGED time

TimesNext ==
    \E k \in Clients :
        \/ \E s \in Times : Hold(k, s) \/ Confirm(k, s) \/ Move(k, s)
        \/ GiveUp(k) \/ Cancel(k)

TimesSpec == TimesInit /\ [][TimesNext]_timesVars

\* What is held or booked never meets: it follows from TimesSpec.
TimesApart ==
    \A k, l \in Clients : k # l /\ InForce(k) /\ InForce(l) =>
        <<time[k], time[l]>> \notin Conflicts

===============================================================================
