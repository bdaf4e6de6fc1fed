--------------------------------- MODULE Hours ---------------------------------
(***************************************************************************)
(* The seller's hours on one local date.  The date's clock may be moved    *)
(* once: forward in spring (Shift > 0: a stretch of the clock does not     *)
(* occur), back in autumn (Shift < 0: a stretch occurs twice).  The page   *)
(* and the check of a time work out the hours in two ways.                 *)
(***************************************************************************)
EXTENDS Integers

CONSTANTS
    Starts,     \* the quarter hours of the date, at which a meeting may start
    Length,     \* a booking's duration with the pause after it
    Windows,    \* the weekly windows, or those of an exception: <<from, to>> on the clock
    Jump,       \* the moment at which the clock is moved
    Shift       \* by how much

\* What the clock shows.
Local(t) == IF t < Jump THEN t ELSE t + Shift

\* The date holds every moment at which its clock shows the end of a window.
ASSUME HoursConstants ==
    /\ Starts \subseteq Nat \ {0} /\ Starts # {}
    /\ Length \in Nat \ {0} /\ Jump \in Int /\ Shift \in Int
    /\ Windows \subseteq Nat \X Nat
    /\ \A v \in Windows : \A t \in {v[1], v[2], v[1] - Shift, v[2] - Shift} :
            Local(t) \in {v[1], v[2]} => t \in Starts

\* localInstants: none for a time the clock leaves out, two for one it repeats.
LocalInstants(m) == {t \in Starts : Local(t) = m}

Fits(v, m) == v[1] <= m /\ m + Length <= v[2]

\* Mutant: the pause after the meeting is forgotten.
ListedWithoutPause ==
    {s \in Starts : /\ \E v \in Windows : Fits(v, Local(s)) \/ Fits(v, Local(s) - 1)
                    /\ s + Length \in Starts}

\* sellerDaySlots: by the clock alone.
Listed ==
    {s \in Starts : /\ \E v \in Windows : Fits(v, Local(s))
                    /\ s + Length \in Starts}

\* validScheduledTime: by the clock, and between the moments at which the window
\* begins and ends.
Within ==
    {s \in Starts : \E v \in Windows :
        /\ Fits(v, Local(s))
        /\ \E from \in LocalInstants(v[1]), to \in LocalInstants(v[2]) :
                from < to /\ from <= s /\ s + Length <= to}

===============================================================================
