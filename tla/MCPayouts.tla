------------------------------ MODULE MCPayouts ------------------------------
(* The instances of Payouts that the runs check. *)
EXTENDS Payouts, TLC

CONSTANTS p1, p2, w1, w2

\* One payout, and a refund of part of it.
OneEntitlement == p1 :> 2
OneShare == p1 :> 1

\* Two payouts of a seller, of which refunds take at most half: what the first
\* one's refund leaves owing is taken from the second in part, rounded down; what
\* the second one's leaves owing, from the first entirely.
TwoEntitlement == p1 :> 2 @@ p2 :> 3
TwoShare == p1 :> 2 @@ p2 :> 1
===============================================================================
