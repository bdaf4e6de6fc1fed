----------------------------- MODULE MCSettlement -----------------------------
(* The instances of Settlement that the runs check. *)
EXTENDS Settlement, TLC

CONSTANTS k1, k2

MadeByOperator ==
    {[NoRefund EXCEPT !.state = st, !.amount = Price, !.share = SellerShare(Price)] :
        st \in {"pending_approval", "queued"}}

Made == {NoRefund} \cup MadeByOperator

\* A refund the buyer has got, made after the seller was paid.
Returned == [NoRefund EXCEPT !.state = "processed", !.amount = Price,
                             !.share = SellerShare(Price), !.liability = "receivable",
                             !.sent = TRUE, !.tries = 1]

\* Two bookings that are over: an operator created a refund for the first, or did
\* not; the second has been paid out and refunded.
Over ==
    /\ phase = [b \in Bookings |-> "past"]
    /\ state = [b \in Bookings |-> "confirmed"]
    /\ completed = [b \in Bookings |-> {}]
    /\ payment = [b \in Bookings |-> IF b = k1 THEN "paid" ELSE "refunded"]
    /\ payout = [b \in Bookings |-> IF b = k1 THEN "scheduled" ELSE "released"]
    /\ absent = [b \in Bookings |-> IF b = k1 THEN "seller" ELSE "buyer"]
    /\ refunds \in {[b \in Bookings |-> [i \in Slots |->
                        IF i # 1 THEN NoRefund ELSE IF b = k1 THEN x ELSE Returned]] :
                        x \in Made}
    /\ kora = [b \in Bookings |-> [i \in Slots |->
                        IF b # k1 /\ i = 1 THEN "success" ELSE "none"]]
    /\ outside = [b \in Bookings |-> {}]
    /\ automatic \in BOOLEAN
    /\ worker = [w \in Workers |-> Resting]
    /\ listed = [w \in Workers |-> {}]
    /\ operator = [booking |-> None, slot |-> 1]
    /\ asked = 0

\* Both were reported as no-shows, and the windows of the reports have passed.
\* No fault is left.
Reported ==
    /\ problem = [b \in Bookings |-> "none"]
    /\ report = [b \in Bookings |-> "due"]
    /\ overdue = <<k1, k2>>
    /\ faults = MaxFaults

\* The buyer of the first has reported a problem.
Troubled ==
    /\ problem = [b \in Bookings |-> IF b = k1 THEN "open" ELSE "none"]
    /\ report = [b \in Bookings |-> "none"]
    /\ overdue = <<>>
    /\ faults = 0

LateInit == Over /\ (Reported \/ Troubled)

LateSpec == LateInit /\ [][Next]_vars /\ Fairness

\* The run leaves out problems settled with a part of the price.
Whole == \A b \in Bookings, i \in Slots : refunds[b][i].amount # Part
===============================================================================
