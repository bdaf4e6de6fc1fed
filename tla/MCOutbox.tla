------------------------------- MODULE MCOutbox -------------------------------
(* The instance of Outbox that the run checks. *)
EXTENDS Outbox, TLC

\* Emails and notifications share nothing but the booking, so the run looks at
\* all behaviours of the one while the other has not begun.  The booking is made
\* for the earlier time.
Apart ==
    /\ \/ \A m \in Mails : mail[m].tries = 0
       \/ ~browser /\ \A j \in Pushes : push[j].state = "none"
    /\ booking.moves = 0 => \A s \in Starts : booking.start <= s
===============================================================================
