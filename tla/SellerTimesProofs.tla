--------------------------- MODULE SellerTimesProofs ---------------------------
(* What SellerTimes promises keeps times apart, for any clients and times. *)
EXTENDS SellerTimes, TLAPS

\* Of two times that meet, each meets the other.
Mutual == \A s, t : <<s, t>> \in Conflicts => <<t, s>> \in Conflicts

Shaped == /\ DOMAIN standing = Clients /\ standing = [k \in Clients |-> standing[k]]
          /\ DOMAIN time = Clients /\ time = [k \in Clients |-> time[k]]

LEMMA HaveApart ==
    ASSUME Mutual, Shaped, TimesApart, NEW k \in Clients, NEW s, NEW as,
           NEW gone \in SUBSET Clients, Have(k, s, as, gone)
    PROVE  Shaped' /\ TimesApart'
<1>1. /\ \A l \in Clients : standing'[l] = IF l = k THEN as
                                           ELSE IF l \in gone THEN "free" ELSE standing[l]
      /\ \A l \in Clients : time'[l] = IF l = k THEN s ELSE time[l]
      /\ Shaped'
  BY DEF Have, Shaped
<1>2. \A l \in Clients \ {k} : InForce(l)' => /\ InForce(l)
                                              /\ <<time'[l], s>> \notin Conflicts
                                              /\ <<s, time'[l]>> \notin Conflicts
  BY <1>1 DEF Have, Clear, InForce, Mutual
<1> QED BY <1>1, <1>2 DEF TimesApart

LEMMA TimesStep == Mutual /\ Shaped /\ TimesApart /\ [TimesNext]_timesVars => Shaped' /\ TimesApart'
<1> SUFFICES ASSUME Mutual, Shaped, TimesApart, [TimesNext]_timesVars
             PROVE  Shaped' /\ TimesApart'
  OBVIOUS
<1>1. CASE UNCHANGED timesVars
  BY <1>1 DEF timesVars, Shaped, TimesApart, InForce
<1>2. ASSUME NEW k \in Clients, NEW s \in Times, Hold(k, s) \/ Confirm(k, s) \/ Move(k, s)
      PROVE  Shaped' /\ TimesApart'
  BY <1>2, HaveApart DEF Hold, Confirm, Move, OtherHolds
<1>3. ASSUME NEW k \in Clients, GiveUp(k) \/ Cancel(k)
      PROVE  Shaped' /\ TimesApart'
  BY <1>3 DEF GiveUp, Cancel, Shaped, TimesApart, InForce
<1> QED BY <1>1, <1>2, <1>3 DEF TimesNext

\* The seller's times stay apart under the abstract rules alone: a module that
\* implements them need not look at more than one step to keep its own apart.
THEOREM PromisedApart == Mutual => (TimesSpec => []TimesApart)
<1> SUFFICES ASSUME Mutual PROVE TimesSpec => []TimesApart
  OBVIOUS
<1>1. TimesInit => Shaped /\ TimesApart
  BY DEF TimesInit, Shaped, TimesApart, InForce
<1>2. Shaped /\ TimesApart /\ [TimesNext]_timesVars => Shaped' /\ TimesApart'
  BY TimesStep
<1> QED BY <1>1, <1>2, PTL DEF TimesSpec

===============================================================================
