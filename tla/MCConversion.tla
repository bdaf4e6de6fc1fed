----------------------------- MODULE MCConversion -----------------------------
(* The instances of Conversion that the runs check. *)
EXTENDS Conversion, TLC

CONSTANTS q1, q2, q3, b1, b2, o1, a1, a2, a3

\* Three times: the first two overlap, the third is apart.
Early == {1, 2}
Middle == {2, 3}
Late == {4}

\* Two buyers contend for overlapping times.
ContentionBuyer == q1 :> b1 @@ q2 :> b2
ContentionSlot == q1 :> Early @@ q2 :> Middle
ContentionOffer == q1 :> None @@ q2 :> None
ContentionQuote == a1 :> q1 @@ a2 :> q2
ContentionMethod == a1 :> "transfer" @@ a2 :> "hosted"
ContentionSlots == {Early, Middle}

\* One buyer with an agreed offer: two quotes under it, and one at the listed
\* price for the time of the first.
OfferBuyer == q1 :> b1 @@ q2 :> b1 @@ q3 :> b1
OfferSlot == q1 :> Early @@ q2 :> Late @@ q3 :> Early
OfferOffer == q1 :> o1 @@ q2 :> o1 @@ q3 :> None
OfferQuote == a1 :> q1 @@ a2 :> q2
OfferSlots == {Early, Late}

\* One quote, paid for twice, verified by two API instances.
LeaseBuyer == q1 :> b1
LeaseSlot == q1 :> Early
LeaseOffer == q1 :> None
LeaseQuote == a1 :> q1 @@ a2 :> q1
LeaseSlots == {Early}

\* One quote, one attempt.
SettledQuote == a1 :> q1
SettledMethod == a1 :> "hosted"
===============================================================================
