--------------------------- MODULE ConversionProofs ---------------------------
(* The safety of Conversion, for every set of quotes, attempts and verifiers. *)
EXTENDS Conversion, TLAPS

USE DEF Verifiers

(***************************************************************************)
(* Types.  A verifier that is not idle has an attempt in hand.             *)
(***************************************************************************)

JobKnown == \A v \in Verifiers : pc[v] # "idle" => job[v] \in Attempts

Typed == TypeOK /\ JobKnown

\* Placing a hold keeps the types of everything it writes.
LEMMA PlaceHoldTyped ==
    ASSUME Typed, NEW q \in Quotes, NEW lapsed \in SUBSET Quotes,
           NEW freed \in SUBSET Quotes, PlaceHold(q, lapsed, freed)
    PROVE  Typed'
  BY DEF Typed, TypeOK, RefundsTyped, JobKnown, PlaceHold, payments, events, seller, verifier

\* The verifier that commits goes on with its event, or rests.
LEMMA AppliedTyped ==
    ASSUME Typed, NEW v \in Verifiers, pc[v] # "idle", Applied(v)
    PROVE  /\ pc' \in [Verifiers -> {"idle", "claimed", "verified", "locked", "applied"}]
           /\ job' \in [Verifiers -> Attempts \cup {None}]
           /\ seen' \in [Verifiers -> ChargeStates]
           /\ JobKnown'
<1>1. /\ pc \in [Verifiers -> {"idle", "claimed", "verified", "locked", "applied"}]
      /\ job \in [Verifiers -> Attempts \cup {None}]
      /\ seen \in [Verifiers -> ChargeStates]
      /\ JobKnown
  BY DEF Typed, TypeOK
<1>2. "none" \in ChargeStates
  BY DEF ChargeStates
<1> QED BY <1>1, <1>2 DEF JobKnown, Applied, Rest

\* Returning the money writes states and counts.
LEMMA ReturnMoneyTyped ==
    ASSUME Typed, NEW a \in Attempts, NEW k \in Kinds, ReturnMoney(a, k)
    PROVE  /\ attemptState' \in [Attempts -> {"none", "starting", "initialization_started",
                  "initialization_unknown", "awaiting_payment", "pending", "failed",
                  "success", "exception"}]
           /\ attemptBooking' \in [Attempts -> BOOLEAN]
           /\ refunds' \in [Attempts \X Kinds -> Seq(RefundRows)]
<1>1. ASSUME NEW on \in RefundsOn
      PROVE  Append(refunds[<<a, k>>], [state |-> IF on THEN "queued" ELSE "pending_approval",
                                        kora |-> FALSE, retries |-> 0]) \in Seq(RefundRows)
  <2>1. refunds[<<a, k>>] \in Seq(RefundRows)
    BY DEF Typed, TypeOK, RefundsTyped
  <2>2. [state |-> IF on THEN "queued" ELSE "pending_approval",
         kora |-> FALSE, retries |-> 0] \in RefundRows
    BY DEF RefundRows
  <2> QED BY <2>1, <2>2
<1>2. refunds' \in [Attempts \X Kinds -> Seq(RefundRows)]
  BY <1>1 DEF Typed, TypeOK, RefundsTyped, ReturnMoney
<1> QED BY <1>2 DEF Typed, TypeOK, ReturnMoney

\* What becomes of a refund is one row of it: everything else stays, and a row that
\* had failed is put back only where no other is live.
LEMMA RefundOnly ==
    ASSUME Typed, NEW x \in Attempts \X Kinds, NEW i \in DOMAIN refunds[x],
           RefundWorker(x, i) \/ Operator(x, i)
    PROVE  /\ UNCHANGED <<holds, bookingState, offerState, attemptState, attemptBooking,
                          events, charge, seller, verifier>>
           /\ faults' \in Nat
           /\ \E row \in RefundRows :
                  /\ refunds' = [refunds EXCEPT ![x] = [refunds[x] EXCEPT ![i] = row]]
                  /\ row.state # "failed" => refunds[x][i].state # "failed" \/ ~Live(x)
<1>1. refunds[x][i] \in RefundRows
  BY DEF Typed, TypeOK, RefundsTyped
<1>2. \A row : SetRefund(x, i, row) =>
          /\ UNCHANGED <<holds, bookingState, offerState, attemptState, attemptBooking,
                         events, charge, seller, verifier>>
          /\ refunds' = [refunds EXCEPT ![x] = [refunds[x] EXCEPT ![i] = row]]
  BY DEF SetRefund, Typed, TypeOK, RefundsTyped
<1>3. faults \in Nat
  BY DEF Typed, TypeOK
<1>4. CASE RefundSubmitted(x, i)
  <2>1. [refunds[x][i] EXCEPT !.state = "submitted", !.kora = TRUE] \in RefundRows
    BY <1>1 DEF RefundRows
  <2> QED BY <1>2, <1>3, <1>4, <2>1 DEF RefundSubmitted
<1>5. CASE RefundProcessed(x, i)
  <2>1. [refunds[x][i] EXCEPT !.state = "processed"] \in RefundRows
    BY <1>1 DEF RefundRows
  <2> QED BY <1>2, <1>3, <1>5, <2>1 DEF RefundProcessed
<1>6. CASE RefundFails(x, i)
  <2>1. /\ [refunds[x][i] EXCEPT !.state = "failed"] \in RefundRows
        /\ [refunds[x][i] EXCEPT !.state = "failed"].state = "failed"
    BY <1>1 DEF RefundRows
  <2> QED BY <1>2, <1>3, <1>6, <2>1 DEF RefundFails, Fault
<1>7. CASE RetryRefund(x, i)
  <2>1. refunds[x][i].retries + 1 \in Nat
    BY <1>1 DEF RefundRows
  <2>2. [refunds[x][i] EXCEPT !.state = "queued", !.retries = @ + 1] \in RefundRows
    BY <1>1, <2>1, Zenon DEF RefundRows
  <2> QED BY <1>2, <1>3, <1>7, <2>2 DEF RetryRefund
<1>8. CASE ApproveRefund(x, i) \/ RetryByHand(x, i)
  <2>1. [refunds[x][i] EXCEPT !.state = "queued"] \in RefundRows
    BY <1>1 DEF RefundRows
  <2> QED BY <1>2, <1>3, <1>8, <2>1 DEF ApproveRefund, RetryByHand
<1>9. CASE RecordByHand(x, i)
  <2>1. [refunds[x][i] EXCEPT !.state = "submitted"] \in RefundRows
    BY <1>1 DEF RefundRows
  <2> QED BY <1>2, <1>3, <1>9, <2>1 DEF RecordByHand
<1> QED BY <1>4, <1>5, <1>6, <1>7, <1>8, <1>9 DEF RefundWorker, Operator

\* It stays a row.
LEMMA RefundTyped ==
    ASSUME Typed, NEW x \in Attempts \X Kinds, NEW i \in DOMAIN refunds[x],
           RefundWorker(x, i) \/ Operator(x, i)
    PROVE  RefundsTyped'
<1>1. refunds \in [Attempts \X Kinds -> Seq(RefundRows)]
  BY DEF Typed, TypeOK, RefundsTyped
<1>2. \A row \in RefundRows : [refunds[x] EXCEPT ![i] = row] \in Seq(RefundRows)
  BY <1>1
<1>3. PICK row \in RefundRows :
          refunds' = [refunds EXCEPT ![x] = [refunds[x] EXCEPT ![i] = row]]
  BY RefundOnly
<1> QED BY <1>1, <1>2, <1>3 DEF RefundsTyped

\* The empty system has its types.
LEMMA InitTyped == Init => Typed
<1> SUFFICES ASSUME Init PROVE Typed
  OBVIOUS
<1>1. /\ quoteState \in [Quotes -> {"none", "held", "expired", "converted"}]
      /\ holdActive \in [Quotes -> BOOLEAN]
      /\ holdKind \in [Quotes -> {"hold", "booking"}]
      /\ holdLive \in [Quotes -> BOOLEAN]
      /\ bookingState \in [Quotes -> {"none", "confirmed", "cancelled"}]
      /\ offerState \in [Offers -> {"agreed", "expired", "converted"}]
  BY DEF Init
<1>2. /\ attemptState \in [Attempts -> {"none", "starting", "initialization_started",
            "initialization_unknown", "awaiting_payment", "pending", "failed",
            "success", "exception"}]
      /\ attemptBooking \in [Attempts -> BOOLEAN]
      /\ RefundsTyped
  BY DEF Init, RefundsTyped
<1>3. /\ eventState \in [Attempts -> {"none", "queued", "processing", "retry",
                                     "processed", "failed"}]
      /\ eventTries \in [Attempts -> Nat]
      /\ requeues \in [Attempts -> Nat]
      /\ charge \in [Attempts -> ChargeStates]
  BY DEF Init, ChargeStates
<1>4. /\ paused \in BOOLEAN /\ bookable \subseteq Slots /\ faults \in Nat
      /\ pc \in [Verifiers -> {"idle", "claimed", "verified", "locked", "applied"}]
      /\ job \in [Verifiers -> Attempts \cup {None}]
      /\ seen \in [Verifiers -> ChargeStates]
      /\ JobKnown
  BY DEF Init, ChargeStates, JobKnown
<1> QED BY <1>1, <1>2, <1>3, <1>4 DEF Typed, TypeOK

\* Every action of every actor keeps them.
THEOREM TypeStep == Typed /\ [Next]_vars => Typed'
<1> SUFFICES ASSUME Typed, [Next]_vars PROVE Typed'
  OBVIOUS
<1> USE DEF Typed, TypeOK, RefundsTyped, JobKnown
<1> USE DEF holds, payments, events, seller, verifier, Fault
<1>1. ASSUME NEW q \in Quotes, CreateQuote(q) PROVE Typed'
  <2>1. {r \in Quotes : quoteState[r] = "held" /\ ~holdLive[r]} \in SUBSET Quotes
    OBVIOUS
  <2>2. Replaced(q) \cup StaleInTheWay(q) \in SUBSET Quotes
    BY DEF Replaced, StaleInTheWay
  <2> QED BY <1>1, <2>1, <2>2, PlaceHoldTyped DEF CreateQuote
<1>2. ASSUME NEW q \in Quotes, CreateOfferQuote(q) PROVE Typed'
  <2> DEFINE o == OfferOf[q]
             mine == {r \in Quotes : OfferOf[r] = o}
             lapsed == {r \in mine : quoteState[r] = "held" /\ ~holdLive[r]}
             dead == {r \in mine : IsHold(r) /\ (quoteState[r] = "expired" \/ r \in lapsed)}
  <2>1. lapsed \in SUBSET Quotes
    OBVIOUS
  <2>2. dead \cup Replaced(q) \cup StaleInTheWay(q) \in SUBSET Quotes
    BY DEF Replaced, StaleInTheWay
  <2>3. PlaceHold(q, lapsed, dead \cup Replaced(q) \cup StaleInTheWay(q))
    BY <1>2 DEF CreateOfferQuote
  <2> QED BY <2>1, <2>2, <2>3, PlaceHoldTyped
<1>3. ASSUME NEW q \in Quotes, HoldLapses(q) \/ GetQuote(q) \/ CancelBooking(q)
      PROVE  Typed'
  <2>1. CASE HoldLapses(q)
    BY <2>1 DEF HoldLapses
  <2>2. CASE GetQuote(q)
    BY <2>2 DEF GetQuote
  <2>3. CASE CancelBooking(q)
    BY <2>3 DEF CancelBooking
  <2> QED BY <1>3, <2>1, <2>2, <2>3
<1>4. ASSUME NEW o \in Offers, OfferLapses(o) PROVE Typed'
  BY <1>4 DEF OfferLapses
<1>5. CASE SetPaused
  BY <1>5 DEF SetPaused
<1>6. ASSUME NEW s \in Slots, SetBookable(s) PROVE Typed'
  BY <1>6 DEF SetBookable
<1>7. ASSUME NEW a \in Attempts,
             ExtendHold(a) \/ SaveAttempt(a) \/ OpenCharge(a) \/ MarkInitializationUnknown(a)
      PROVE  Typed'
  <2>1. CASE ExtendHold(a)
    BY <2>1 DEF ExtendHold
  <2>2. CASE SaveAttempt(a)
    BY <2>2 DEF SaveAttempt
  <2>3. CASE OpenCharge(a)
    BY <2>3 DEF OpenCharge, ChargeStates
  <2>4. CASE MarkInitializationUnknown(a)
    BY <2>4 DEF MarkInitializationUnknown
  <2> QED BY <1>7, <2>1, <2>2, <2>3, <2>4
<1>8. ASSUME NEW a \in Attempts, NEW outcome \in Charged \cup {"failed"},
             KoraCharge(a, outcome)
      PROVE  Typed'
  BY <1>8 DEF KoraCharge, Charged, ChargeStates
<1>9. ASSUME NEW a \in Attempts, KoraWebhook(a) \/ RequeueEvent(a) PROVE Typed'
  <2>1. CASE KoraWebhook(a)
    BY <2>1 DEF KoraWebhook
  <2>2. CASE RequeueEvent(a)
    BY <2>2 DEF RequeueEvent
  <2> QED BY <1>9, <2>1, <2>2
<1>10. ASSUME NEW a \in Attempts, NEW w \in Workers, ClaimEvent(w, a) PROVE Typed'
  BY <1>10 DEF ClaimEvent
<1>11. ASSUME NEW a \in Attempts, NEW b \in Browsers, Poll(b, a) PROVE Typed'
  BY <1>11 DEF Poll
<1>12. ASSUME NEW w \in Workers, QueryCharge(w) PROVE Typed'
  BY <1>12 DEF QueryCharge
<1>13. ASSUME NEW w \in Workers, FinishEvent(w) \/ FailEvent(w) PROVE Typed'
  <2>1. ASSUME Rest(w)
        PROVE  /\ pc' \in [Verifiers -> {"idle", "claimed", "verified", "locked", "applied"}]
               /\ job' \in [Verifiers -> Attempts \cup {None}]
               /\ seen' \in [Verifiers -> ChargeStates]
               /\ JobKnown'
    BY <2>1 DEF Rest, ChargeStates
  <2>2. CASE FinishEvent(w)
    BY <2>1, <2>2 DEF FinishEvent
  <2>3. CASE FailEvent(w)
    <3>1. eventState' \in [Attempts -> {"none", "queued", "processing", "retry",
                                       "processed", "failed"}]
      BY <2>3 DEF FailEvent, Deferred
    <3> QED BY <2>1, <2>3, <3>1 DEF FailEvent
  <2> QED BY <1>13, <2>2, <2>3
<1>14. ASSUME NEW v \in Verifiers, Decide(v) PROVE Typed'
  <2>0. pc[v] = "verified" /\ job[v] \in Attempts
    BY <1>14 DEF Decide, RecordUnpaid, RecordOnly, RejectWrongAmount, RejectDuplicate, Reconfirm,
                 LockAttempt
  <2>1. CASE RecordUnpaid(v)
    BY <2>0, <2>1, AppliedTyped DEF RecordUnpaid, Noted
  <2>6. CASE RecordOnly(v)
    BY <2>0, <2>6, AppliedTyped DEF RecordOnly
  <2>2. CASE RejectWrongAmount(v)
    BY <2>0, <2>2, AppliedTyped, ReturnMoneyTyped DEF RejectWrongAmount, Kinds
  <2>3. CASE RejectDuplicate(v)
    BY <2>0, <2>3, AppliedTyped, ReturnMoneyTyped DEF RejectDuplicate, Kinds
  <2>4. CASE Reconfirm(v)
    BY <2>0, <2>4, AppliedTyped DEF Reconfirm
  <2>5. CASE LockAttempt(v)
    BY <2>0, <2>5 DEF LockAttempt
  <2> QED BY <1>14, <2>1, <2>2, <2>3, <2>4, <2>5, <2>6 DEF Decide
<1>15. ASSUME NEW v \in Verifiers, Convert(v) PROVE Typed'
  <2>0. pc[v] = "locked" /\ job[v] \in Attempts
    BY <1>15 DEF Convert, RejectNoTime, RejectPaused, RejectOffer, Book
  <2>1. CASE RejectNoTime(v)
    BY <2>0, <2>1, AppliedTyped, ReturnMoneyTyped DEF RejectNoTime, Kinds
  <2>2. CASE RejectPaused(v)
    BY <2>0, <2>2, AppliedTyped, ReturnMoneyTyped DEF RejectPaused, KeepTime, Kinds
  <2>3. CASE RejectOffer(v)
    BY <2>0, <2>3, AppliedTyped, ReturnMoneyTyped DEF RejectOffer, KeepTime, Kinds
  <2>4. CASE Book(v)
    BY <2>0, <2>4, AppliedTyped DEF Book
  <2> QED BY <1>15, <2>1, <2>2, <2>3, <2>4 DEF Convert
<1>16. ASSUME NEW v \in Verifiers, Crash(v) PROVE Typed'
  BY <1>16 DEF Crash, Rest, ChargeStates
<1>17. ASSUME NEW x \in Attempts \X Kinds, NEW i \in DOMAIN refunds[x],
              RefundWorker(x, i) \/ Operator(x, i)
       PROVE  Typed'
  <2>1. RefundsTyped'
    BY <1>17, RefundTyped
  <2>2. /\ UNCHANGED <<holds, bookingState, offerState, attemptState, attemptBooking,
                       events, charge, seller, verifier>>
        /\ faults' \in Nat
    BY <1>17, RefundOnly
  <2> QED BY <2>1, <2>2
<1>18. CASE UNCHANGED vars
  BY <1>18 DEF vars
<1> QED
  BY <1>1, <1>2, <1>3, <1>4, <1>5, <1>6, <1>7, <1>8, <1>9, <1>10, <1>11, <1>12,
     <1>13, <1>14, <1>15, <1>16, <1>17, <1>18 DEF Next

\* Every variable keeps its type, and a verifier at work has an attempt.
THEOREM TypeCorrect == Spec => []TypeOK
<1>1. Spec => []Typed
  BY InitTyped, TypeStep, PTL DEF Spec
<1>2. Typed => TypeOK
  BY DEF Typed
<1> QED BY <1>1, <1>2, PTL

(***************************************************************************)
(* Times.  What is active never overlaps, and a booked time is never a     *)
(* hold, so that no clean-up of holds, whoever runs it, can reach it.      *)
(***************************************************************************)

Reserved ==
    /\ \A q \in Quotes : bookingState[q] = "confirmed" => holdActive[q]
    /\ \A q \in Quotes : HasBooking(q) <=> quoteState[q] = "converted"
    /\ \A q \in Quotes : HasBooking(q) <=> holdKind[q] = "booking"
    /\ \A q, r \in Quotes : q # r /\ holdActive[q] /\ holdActive[r] => ~Overlap(q, r)

\* Overlapping is mutual.
LEMMA OverlapSymmetric == \A q, r \in Quotes : Overlap(q, r) <=> Overlap(r, q)
  BY DEF Overlap

\* A new hold is placed beside what stays active, and clears away holds only.
LEMMA PlaceHoldReserved ==
    ASSUME Typed, Reserved, NEW q \in Quotes, quoteState[q] = "none",
           NEW lapsed \in SUBSET {r \in Quotes : quoteState[r] = "held"},
           NEW freed \in SUBSET {r \in Quotes : IsHold(r)},
           PlaceHold(q, lapsed, freed)
    PROVE  Reserved'
<1> USE DEF Typed, TypeOK, IsHold
<1>1. \A r \in Quotes : holdActive'[r] <=> r = q \/ (holdActive[r] /\ r \notin freed)
  BY DEF PlaceHold
<1>2. \A r \in Quotes : HasBooking(r)' <=> HasBooking(r)
  BY DEF PlaceHold, HasBooking
<1>3. \A r \in Quotes : bookingState'[r] = "confirmed" => holdActive'[r]
  BY <1>1 DEF PlaceHold, Reserved, HasBooking
<1>4. \A r \in Quotes : HasBooking(r)' <=> quoteState'[r] = "converted"
  BY <1>2 DEF PlaceHold, Reserved
<1>5. \A r \in Quotes : HasBooking(r)' <=> holdKind'[r] = "booking"
  BY <1>2 DEF PlaceHold, Reserved
<1>6. ASSUME NEW r \in Quotes, NEW s \in Quotes, r # s, holdActive'[r], holdActive'[s]
      PROVE  ~Overlap(r, s)
  <2>1. CASE r # q /\ s # q
    BY <1>1, <1>6, <2>1 DEF Reserved
  <2>2. CASE r = q
    BY <1>1, <1>6, <2>2 DEF PlaceHold, TimeFree
  <2>3. CASE s = q
    BY <1>1, <1>6, <2>3, OverlapSymmetric DEF PlaceHold, TimeFree
  <2> QED BY <2>1, <2>2, <2>3
<1> QED BY <1>3, <1>4, <1>5, <1>6 DEF Reserved, Overlap

\* A payment has its time: the hold is in force, or may be taken up again.
LEMMA TimeKept ==
    ASSUME Typed, Reserved, NEW q \in Quotes, HasTime(q),
           holdActive' = [holdActive EXCEPT ![q] = TRUE]
    PROVE  /\ ~HasBooking(q)
           /\ \A r, s \in Quotes : r # s /\ holdActive'[r] /\ holdActive'[s] => ~Overlap(r, s)
<1> USE DEF Typed, TypeOK
<1>1. ~HasBooking(q)
  BY DEF HasTime, HoldValid, Reclaimable, Reserved
<1>2. holdActive[q] \/ TimeFree(q, {})
  BY DEF HasTime, HoldValid, IsHold, Reclaimable
<1>3. ASSUME NEW r \in Quotes, NEW s \in Quotes, r # s, holdActive'[r], holdActive'[s]
      PROVE  ~Overlap(r, s)
  <2>1. CASE holdActive[r] /\ holdActive[s]
    BY <1>3, <2>1 DEF Reserved
  <2>2. CASE ~holdActive[r]
    <3>1. r = q /\ holdActive[s]
      BY <1>3, <2>2
    <3> QED BY <1>2, <1>3, <2>2, <3>1 DEF TimeFree
  <2>3. CASE ~holdActive[s]
    <3>1. s = q /\ holdActive[r]
      BY <1>3, <2>3
    <3> QED BY <1>2, <1>3, <2>3, <3>1, OverlapSymmetric DEF TimeFree
  <2> QED BY <2>1, <2>2, <2>3
<1> QED BY <1>1, <1>3

\* A payment that keeps its time keeps it beside every other reservation.
LEMMA KeepTimeReserved ==
    ASSUME Typed, Reserved, NEW q \in Quotes, HasTime(q), KeepTime(q),
           UNCHANGED bookingState
    PROVE  Reserved'
<1> USE DEF Typed, TypeOK, KeepTime
<1>1. /\ ~HasBooking(q)
      /\ \A r, s \in Quotes : r # s /\ holdActive'[r] /\ holdActive'[s] => ~Overlap(r, s)
  BY TimeKept
<1>2. \A r \in Quotes : bookingState'[r] = "confirmed" => holdActive'[r]
  BY DEF Reserved
<1>3. \A r \in Quotes : HasBooking(r)' <=> quoteState'[r] = "converted"
  BY <1>1 DEF Reserved, HasBooking
<1>4. \A r \in Quotes : HasBooking(r)' <=> holdKind'[r] = "booking"
  BY DEF Reserved, HasBooking
<1> QED BY <1>1, <1>2, <1>3, <1>4 DEF Reserved, Overlap

\* Steps that write no reservation and no booking.
LEMMA UntouchedReserved ==
    Reserved /\ UNCHANGED <<quoteState, holdActive, holdKind, bookingState>> => Reserved'
  BY DEF Reserved, HasBooking, Overlap

\* Every step keeps times reserved to one buyer.
THEOREM ReservedStep == Typed /\ Reserved /\ [Next]_vars => Reserved'
<1> SUFFICES ASSUME Typed, Reserved, [Next]_vars PROVE Reserved'
  OBVIOUS
<1> USE DEF holds
<1>1. ASSUME NEW q \in Quotes, CreateQuote(q) PROVE Reserved'
  <2>1. /\ {r \in Quotes : quoteState[r] = "held" /\ ~holdLive[r]}
                \in SUBSET {r \in Quotes : quoteState[r] = "held"}
        /\ Replaced(q) \cup StaleInTheWay(q) \in SUBSET {r \in Quotes : IsHold(r)}
    BY DEF Replaced, StaleInTheWay
  <2> QED BY <1>1, <2>1, PlaceHoldReserved DEF CreateQuote
<1>2. ASSUME NEW q \in Quotes, CreateOfferQuote(q) PROVE Reserved'
  <2> DEFINE o == OfferOf[q]
             mine == {r \in Quotes : OfferOf[r] = o}
             lapsed == {r \in mine : quoteState[r] = "held" /\ ~holdLive[r]}
             dead == {r \in mine : IsHold(r) /\ (quoteState[r] = "expired" \/ r \in lapsed)}
  <2>1. lapsed \in SUBSET {r \in Quotes : quoteState[r] = "held"}
    OBVIOUS
  <2>2. dead \cup Replaced(q) \cup StaleInTheWay(q) \in SUBSET {r \in Quotes : IsHold(r)}
    BY DEF Replaced, StaleInTheWay
  <2>3. quoteState[q] = "none" /\ PlaceHold(q, lapsed, dead \cup Replaced(q) \cup StaleInTheWay(q))
    BY <1>2 DEF CreateOfferQuote
  <2> QED BY <2>1, <2>2, <2>3, PlaceHoldReserved
<1>3. ASSUME NEW q \in Quotes, HoldLapses(q) PROVE Reserved'
  BY <1>3, UntouchedReserved DEF HoldLapses
<1>4. ASSUME NEW q \in Quotes, GetQuote(q) PROVE Reserved'
  BY <1>4 DEF GetQuote, Reserved, HasBooking, Overlap, Typed, TypeOK
<1>5. ASSUME NEW q \in Quotes, CancelBooking(q) PROVE Reserved'
  BY <1>5 DEF CancelBooking, Reserved, HasBooking, Overlap, Typed, TypeOK
<1>6. ASSUME NEW v \in Verifiers, Convert(v) PROVE Reserved'
  <2> DEFINE q == QuoteOf[job[v]]
  <2>0. q \in Quotes
    BY <1>6, ConstantTypes DEF Typed, TypeOK, JobKnown, Convert, RejectNoTime, RejectPaused,
                               RejectOffer, Book
  <2>1. CASE RejectNoTime(v)
    BY <2>1, UntouchedReserved DEF RejectNoTime
  <2>2. CASE RejectPaused(v)
    BY <2>0, <2>2, KeepTimeReserved DEF RejectPaused
  <2>3. CASE RejectOffer(v)
    BY <2>0, <2>3, KeepTimeReserved DEF RejectOffer
  <2>4. CASE Book(v)
    <3>0. /\ HasTime(q)
          /\ bookingState' = [bookingState EXCEPT ![q] = "confirmed"]
          /\ quoteState' = [quoteState EXCEPT ![q] = "converted"]
          /\ holdActive' = [holdActive EXCEPT ![q] = TRUE]
          /\ holdKind' = [holdKind EXCEPT ![q] = "booking"]
      BY <2>4 DEF Book
    <3> HIDE DEF q
    <3>1. \A r, s \in Quotes : r # s /\ holdActive'[r] /\ holdActive'[s] => ~Overlap(r, s)
      BY <2>0, <3>0, TimeKept
    <3> QED BY <2>0, <3>0, <3>1 DEF Reserved, HasBooking, Overlap, Typed, TypeOK
  <2> QED BY <1>6, <2>1, <2>2, <2>3, <2>4 DEF Convert
<1>7. ASSUME NEW v \in Verifiers, Decide(v) PROVE Reserved'
  BY <1>7, UntouchedReserved DEF Decide, RecordUnpaid, RecordOnly, RejectWrongAmount, RejectDuplicate,
                                 Reconfirm, LockAttempt
<1>8. ASSUME NEW o \in Offers, OfferLapses(o) PROVE Reserved'
  BY <1>8, UntouchedReserved DEF OfferLapses
<1>9. ASSUME SetPaused \/ \E s \in Slots : SetBookable(s) PROVE Reserved'
  BY <1>9, UntouchedReserved DEF SetPaused, SetBookable
<1>10. ASSUME NEW a \in Attempts,
              \/ ExtendHold(a) \/ SaveAttempt(a) \/ OpenCharge(a) \/ MarkInitializationUnknown(a)
              \/ \E outcome \in Charged \cup {"failed"} : KoraCharge(a, outcome)
              \/ KoraWebhook(a) \/ RequeueEvent(a)
              \/ \E w \in Workers : ClaimEvent(w, a)
              \/ \E b \in Browsers : Poll(b, a)
       PROVE  Reserved'
  BY <1>10, UntouchedReserved DEF ExtendHold, SaveAttempt, OpenCharge, MarkInitializationUnknown,
         KoraCharge, KoraWebhook, RequeueEvent, ClaimEvent, Poll
<1>11. ASSUME NEW w \in Verifiers, QueryCharge(w) \/ FinishEvent(w) \/ FailEvent(w) \/ Crash(w)
       PROVE  Reserved'
  BY <1>11, UntouchedReserved DEF QueryCharge, FinishEvent, FailEvent, Crash
<1>12. ASSUME NEW x \in Attempts \X Kinds, NEW i \in DOMAIN refunds[x],
              RefundWorker(x, i) \/ Operator(x, i)
       PROVE  Reserved'
  BY <1>12, UntouchedReserved, RefundOnly DEF holds, events, verifier
<1>13. CASE UNCHANGED vars
  BY <1>13, UntouchedReserved DEF vars
<1> QED
  BY <1>1, <1>2, <1>3, <1>4, <1>5, <1>6, <1>7, <1>8, <1>9, <1>10, <1>11, <1>12, <1>13
  DEF Next

\* No sequence of holds, lapses, late payments, clean-ups and cancellations takes
\* the time of a confirmed booking or books it twice.
THEOREM BookedTimeStays == Spec => []BookedTimeReserved
<1>1. Init => Typed /\ Reserved
  <2>1. Init => Reserved
    BY DEF Init, Reserved, HasBooking
  <2> QED BY <2>1, InitTyped
<1>2. Typed /\ Reserved /\ [Next]_vars => (Typed /\ Reserved)'
  BY TypeStep, ReservedStep
<1>3. Typed /\ Reserved => BookedTimeReserved
  BY DEF Reserved, BookedTimeReserved, HasBooking
<1> QED BY <1>1, <1>2, <1>3, PTL DEF Spec

(***************************************************************************)
(* Charges.  What a verifier was told of a finished charge stays true,     *)
(* however long it takes to apply it: Kora is asked before the lock.       *)
(***************************************************************************)

Final == Charged \cup {"failed"}

Charges ==
    /\ \A a \in Attempts :
           attemptState[a] \in {"none", "starting", "initialization_started", "initialization_unknown"}
               => charge[a] = "none"
    /\ \A v \in Verifiers : pc[v] \in {"verified", "locked"} =>
           /\ seen[v] \in Final => charge[job[v]] = seen[v]
           /\ pc[v] = "locked" => seen[v] = "paid"

\* A verifier that commits keeps what the others know of their charges.
LEMMA AppliedCharges ==
    ASSUME Typed, Charges, NEW v \in Verifiers, pc[v] # "idle", Applied(v),
           UNCHANGED charge,
           \A a \in Attempts : \/ attemptState'[a] = attemptState[a]
                               \/ attemptState'[a] \in {"pending", "failed", "success",
                                                        "exception"}
    PROVE  Charges'
  BY DEF Typed, TypeOK, JobKnown, Charges, Applied, Rest

\* Returning the money leads no attempt back to where it had no charge.
LEMMA ReturnMoneyCharges ==
    ASSUME Typed, NEW a \in Attempts, NEW k \in Kinds, ReturnMoney(a, k)
    PROVE  \A b \in Attempts : \/ attemptState'[b] = attemptState[b]
                               \/ attemptState'[b] \in {"pending", "failed", "success",
                                                        "exception"}
  BY DEF Typed, TypeOK, ReturnMoney

\* Steps that write no attempt, no charge and no verifier.
LEMMA UntouchedCharges ==
    Charges /\ UNCHANGED <<attemptState, charge, verifier>> => Charges'
  BY DEF Charges, verifier

\* Every step keeps what a verifier was told of a finished charge true.
THEOREM ChargesStep == Typed /\ Charges /\ [Next]_vars => Charges'
<1> SUFFICES ASSUME Typed, Charges, [Next]_vars PROVE Charges'
  OBVIOUS
<1> USE DEF verifier, payments
<1>1. ASSUME NEW q \in Quotes,
             \/ CreateQuote(q) \/ CreateOfferQuote(q) \/ HoldLapses(q) \/ GetQuote(q)
             \/ CancelBooking(q)
      PROVE  Charges'
  BY <1>1, UntouchedCharges
     DEF CreateQuote, CreateOfferQuote, PlaceHold, HoldLapses, GetQuote, CancelBooking
<1>2. ASSUME NEW o \in Offers, OfferLapses(o) PROVE Charges'
  BY <1>2, UntouchedCharges DEF OfferLapses
<1>3. ASSUME SetPaused \/ \E s \in Slots : SetBookable(s) PROVE Charges'
  BY <1>3, UntouchedCharges DEF SetPaused, SetBookable
<1>4. ASSUME NEW a \in Attempts, ExtendHold(a) \/ SaveAttempt(a) \/ MarkInitializationUnknown(a)
      PROVE  Charges'
  <2>1. CASE ExtendHold(a) \/ SaveAttempt(a)
    BY <2>1 DEF Typed, TypeOK, Charges, ExtendHold, SaveAttempt
  <2>2. CASE MarkInitializationUnknown(a)
    BY <2>2 DEF Typed, TypeOK, Charges, MarkInitializationUnknown
  <2> QED BY <1>4, <2>1, <2>2
<1>5. ASSUME NEW a \in Attempts, OpenCharge(a) PROVE Charges'
  <2>1. charge[a] \notin Final
    BY <1>5 DEF Charges, OpenCharge, Final, Charged
  <2> QED BY <1>5, <2>1 DEF Typed, TypeOK, JobKnown, Charges, OpenCharge
<1>6. ASSUME NEW a \in Attempts, NEW outcome \in Charged \cup {"failed"},
             KoraCharge(a, outcome)
      PROVE  Charges'
  <2>1. charge[a] = "open" /\ charge[a] \notin Final
    BY <1>6 DEF KoraCharge, Final, Charged
  <2> QED BY <1>6, <2>1 DEF Typed, TypeOK, JobKnown, Charges, KoraCharge
<1>7. ASSUME NEW a \in Attempts, KoraWebhook(a) \/ RequeueEvent(a) PROVE Charges'
  BY <1>7, UntouchedCharges DEF KoraWebhook, RequeueEvent
<1>8. ASSUME NEW a \in Attempts, NEW w \in Workers, ClaimEvent(w, a) PROVE Charges'
  BY <1>8 DEF Typed, TypeOK, JobKnown, Charges, ClaimEvent
<1>9. ASSUME NEW a \in Attempts, NEW b \in Browsers, Poll(b, a) PROVE Charges'
  BY <1>9 DEF Typed, TypeOK, JobKnown, Charges, Poll
<1>10. ASSUME NEW w \in Workers, QueryCharge(w) PROVE Charges'
  BY <1>10 DEF Typed, TypeOK, JobKnown, Charges, QueryCharge
<1>11. ASSUME NEW v \in Verifiers, FinishEvent(v) \/ FailEvent(v) \/ Crash(v) PROVE Charges'
  BY <1>11 DEF Typed, TypeOK, JobKnown, Charges, FinishEvent, FailEvent, Crash, Rest
<1>12. ASSUME NEW v \in Verifiers, Decide(v) PROVE Charges'
  <2>0. pc[v] = "verified" /\ job[v] \in Attempts
    BY <1>12 DEF Typed, JobKnown, Decide, RecordUnpaid, RecordOnly, RejectWrongAmount, RejectDuplicate,
                 Reconfirm, LockAttempt
  <2>1. CASE RecordUnpaid(v)
    BY <2>0, <2>1, AppliedCharges DEF Typed, TypeOK, RecordUnpaid, Noted
  <2>6. CASE RecordOnly(v)
    BY <2>0, <2>6, AppliedCharges DEF Typed, TypeOK, RecordOnly
  <2>2. CASE RejectWrongAmount(v)
    BY <2>0, <2>2, AppliedCharges, ReturnMoneyCharges DEF RejectWrongAmount, Kinds
  <2>3. CASE RejectDuplicate(v)
    BY <2>0, <2>3, AppliedCharges, ReturnMoneyCharges DEF RejectDuplicate, Kinds
  <2>4. CASE Reconfirm(v)
    BY <2>0, <2>4, AppliedCharges DEF Typed, TypeOK, Reconfirm
  <2>5. CASE LockAttempt(v)
    BY <2>5 DEF Typed, TypeOK, JobKnown, Charges, LockAttempt, PaidInFull
  <2> QED BY <1>12, <2>1, <2>2, <2>3, <2>4, <2>5, <2>6 DEF Decide
<1>13. ASSUME NEW v \in Verifiers, Convert(v) PROVE Charges'
  <2>0. pc[v] = "locked" /\ job[v] \in Attempts
    BY <1>13 DEF Typed, JobKnown, Convert, RejectNoTime, RejectPaused, RejectOffer, Book
  <2>1. CASE RejectNoTime(v)
    BY <2>0, <2>1, AppliedCharges, ReturnMoneyCharges DEF RejectNoTime, Kinds
  <2>2. CASE RejectPaused(v)
    BY <2>0, <2>2, AppliedCharges, ReturnMoneyCharges DEF RejectPaused, Kinds
  <2>3. CASE RejectOffer(v)
    BY <2>0, <2>3, AppliedCharges, ReturnMoneyCharges DEF RejectOffer, Kinds
  <2>4. CASE Book(v)
    BY <2>0, <2>4, AppliedCharges DEF Typed, TypeOK, Book
  <2> QED BY <1>13, <2>1, <2>2, <2>3, <2>4 DEF Convert
<1>14. ASSUME NEW x \in Attempts \X Kinds, NEW i \in DOMAIN refunds[x],
              RefundWorker(x, i) \/ Operator(x, i)
       PROVE  Charges'
  BY <1>14, UntouchedCharges, RefundOnly DEF holds, events, verifier
<1>15. CASE UNCHANGED vars
  BY <1>15, UntouchedCharges DEF vars
<1> QED
  BY <1>1, <1>2, <1>3, <1>4, <1>5, <1>6, <1>7, <1>8, <1>9, <1>10, <1>11, <1>12, <1>13,
     <1>14, <1>15 DEF Next

\* The verdict a verifier applies is the verdict of Kora still.
LEMMA VerdictStands ==
    ASSUME Typed, Charges, NEW v \in Verifiers
    PROVE  /\ pc[v] = "verified" /\ seen[v] \in Charged => charge[job[v]] \in Charged
           /\ pc[v] = "locked" => charge[job[v]] = "paid"
           /\ pc[v] = "verified" /\ PaidInFull(v) => charge[job[v]] = "paid"
           /\ pc[v] = "verified" /\ seen[v] = "unmatched" => charge[job[v]] = "unmatched"
           /\ pc[v] = "verified" /\ seen[v] = "paid_wrong" => charge[job[v]] = "paid_wrong"
  BY DEF Typed, Charges, Final, Charged, PaidInFull

\* A finished charge is finished.
LEMMA FinalStays ==
    ASSUME Typed, Charges, [Next]_vars, NEW a \in Attempts, charge[a] \in Final
    PROVE  charge'[a] = charge[a]
<1>1. ASSUME NEW b \in Attempts, OpenCharge(b) PROVE charge'[a] = charge[a]
  <2>1. charge[b] = "none"
    BY <1>1 DEF OpenCharge, Charges
  <2> QED BY <1>1, <2>1 DEF OpenCharge, Final, Charged, Typed, TypeOK
<1>2. ASSUME NEW b \in Attempts, NEW outcome \in Charged \cup {"failed"},
             KoraCharge(b, outcome)
      PROVE  charge'[a] = charge[a]
  BY <1>2 DEF KoraCharge, Final, Charged, Typed, TypeOK
<1>3. CASE UNCHANGED charge
  BY <1>3
<1>4. \/ UNCHANGED charge
      \/ \E b \in Attempts : OpenCharge(b)
      \/ \E b \in Attempts, outcome \in Charged \cup {"failed"} : KoraCharge(b, outcome)
  <2>1. ASSUME NEW q \in Quotes,
               \/ CreateQuote(q) \/ CreateOfferQuote(q) \/ HoldLapses(q) \/ GetQuote(q)
               \/ CancelBooking(q)
        PROVE  UNCHANGED charge
    BY <2>1 DEF CreateQuote, CreateOfferQuote, PlaceHold, HoldLapses, GetQuote, CancelBooking
  <2>2. ASSUME NEW v \in Verifiers,
               \/ Decide(v) \/ Convert(v) \/ Crash(v)
               \/ QueryCharge(v) \/ FinishEvent(v) \/ FailEvent(v)
        PROVE  UNCHANGED charge
    BY <2>2 DEF Decide, RecordUnpaid, RecordOnly, RejectWrongAmount, RejectDuplicate, Reconfirm,
           LockAttempt, Convert, RejectNoTime, RejectPaused, RejectOffer, Book, Crash,
           QueryCharge, FinishEvent, FailEvent
  <2>3. ASSUME NEW b \in Attempts,
               \/ ExtendHold(b) \/ SaveAttempt(b) \/ MarkInitializationUnknown(b) \/ KoraWebhook(b)
               \/ RequeueEvent(b) \/ (\E w \in Workers : ClaimEvent(w, b))
               \/ (\E w \in Browsers : Poll(w, b))
        PROVE  UNCHANGED charge
    BY <2>3 DEF ExtendHold, SaveAttempt, MarkInitializationUnknown, KoraWebhook, RequeueEvent,
           ClaimEvent, Poll
  <2>4. ASSUME NEW x \in Attempts \X Kinds, NEW i \in DOMAIN refunds[x],
               RefundWorker(x, i) \/ Operator(x, i)
        PROVE  UNCHANGED charge
    BY <2>4, RefundOnly
  <2>5. ASSUME \/ \E o \in Offers : OfferLapses(o)
               \/ SetPaused
               \/ \E s \in Slots : SetBookable(s)
               \/ UNCHANGED vars
        PROVE  UNCHANGED charge
    BY <2>5 DEF OfferLapses, SetPaused, SetBookable, vars
  <2> QED BY <2>1, <2>2, <2>3, <2>4, <2>5 DEF Next
<1> QED BY <1>1, <1>2, <1>3, <1>4

(***************************************************************************)
(* Sales.  A booking has one payer, and an agreement one booking.          *)
(***************************************************************************)

Sold ==
    /\ \A a \in Attempts : attemptBooking[a] => HasBooking(QuoteOf[a]) /\ charge[a] = "paid"
    /\ \A q \in Quotes : HasBooking(q) => \E a \in AttemptsOf(q) : attemptBooking[a]
    /\ \A a, b \in Attempts :
           attemptBooking[a] /\ attemptBooking[b] /\ QuoteOf[a] = QuoteOf[b] => a = b
    /\ \A q \in Quotes :
           HasBooking(q) /\ OfferOf[q] \in Offers => offerState[OfferOf[q]] = "converted"
    /\ OneBookingPerOffer

Safe == Typed /\ Reserved /\ Charges /\ Sold

\* Steps that sell nothing.
LEMMA UntouchedSold ==
    ASSUME Safe, [Next]_vars, UNCHANGED <<attemptBooking, bookingState, offerState>>
    PROVE  Sold'
<1>1. \A a \in Attempts : attemptBooking'[a] => charge'[a] = "paid"
  BY FinalStays DEF Safe, Sold, Final, Charged
<1> QED BY <1>1 DEF Safe, Sold, HasBooking, AttemptsOf, OneBookingPerOffer

\* A booking is sold to the attempt that paid, under an agreement still unsold.
LEMMA BookSold ==
    ASSUME Safe, NEW v \in Verifiers, Book(v)
    PROVE  Sold'
<1> DEFINE a == job[v]
           q == QuoteOf[a]
<1>1. /\ a \in Attempts /\ q \in Quotes
      /\ pc[v] = "locked" /\ HasTime(q) /\ OfferOpen(q)
  BY ConstantTypes DEF Book, Safe, Typed, JobKnown
<1>2. ~HasBooking(q)
  BY <1>1 DEF Safe, Reserved, HasTime, HoldValid, Reclaimable
<1>3. charge[a] = "paid" /\ UNCHANGED charge
  BY <1>1, VerdictStands DEF Safe, Book
<1>4. /\ \A b \in Attempts : attemptBooking'[b] <=> b = a \/ attemptBooking[b]
      /\ \A r \in Quotes : HasBooking(r)' <=> r = q \/ HasBooking(r)
  BY <1>1 DEF Book, HasBooking, Safe, Typed, TypeOK
<1>5. \A b \in Attempts : attemptBooking[b] => QuoteOf[b] # q
  BY <1>2 DEF Safe, Sold
<1>6. OfferOf[q] \in Offers =>
          /\ offerState[OfferOf[q]] # "converted"
          /\ offerState'[OfferOf[q]] = "converted"
  BY <1>1 DEF Book, OfferOpen, Safe, Typed, TypeOK
<1>7. \A r \in Quotes : OfferOf[r] \in Offers /\ offerState[OfferOf[r]] = "converted"
                            => offerState'[OfferOf[r]] = "converted"
  BY DEF Book, Safe, Typed, TypeOK
<1> HIDE DEF a, q
<1>8. \A b \in Attempts :
          attemptBooking'[b] => HasBooking(QuoteOf[b])' /\ charge'[b] = "paid"
  <2> SUFFICES ASSUME NEW b \in Attempts, attemptBooking'[b]
               PROVE  HasBooking(QuoteOf[b])' /\ charge'[b] = "paid"
    OBVIOUS
  <2>1. QuoteOf[b] \in Quotes
    BY ConstantTypes
  <2> QED BY <1>1, <1>3, <1>4, <2>1 DEF Safe, Sold, q
<1>9. \A r \in Quotes : HasBooking(r)' => \E b \in AttemptsOf(r) : attemptBooking'[b]
  BY <1>1, <1>4 DEF Safe, Sold, AttemptsOf, q
<1>10. \A b, c \in Attempts :
           attemptBooking'[b] /\ attemptBooking'[c] /\ QuoteOf[b] = QuoteOf[c] => b = c
  BY <1>1, <1>4, <1>5 DEF Safe, Sold, q
<1>11. \A r \in Quotes :
           HasBooking(r)' /\ OfferOf[r] \in Offers => offerState'[OfferOf[r]] = "converted"
  BY <1>1, <1>4, <1>6, <1>7 DEF Safe, Sold
<1>12. OneBookingPerOffer'
  <2> SUFFICES ASSUME NEW r \in Quotes, NEW s \in Quotes, HasBooking(r)', HasBooking(s)',
                      OfferOf[r] \in Offers, OfferOf[r] = OfferOf[s]
               PROVE  r = s
    BY DEF OneBookingPerOffer
  <2>1. CASE HasBooking(r) /\ HasBooking(s)
    BY <2>1 DEF Safe, Sold, OneBookingPerOffer
  <2>2. CASE ~HasBooking(r)
    BY <1>1, <1>2, <1>4, <1>6, <2>2 DEF Safe, Sold
  <2>3. CASE ~HasBooking(s)
    BY <1>1, <1>2, <1>4, <1>6, <2>3 DEF Safe, Sold
  <2> QED BY <2>1, <2>2, <2>3
<1> QED BY <1>8, <1>9, <1>10, <1>11, <1>12 DEF Sold, AttemptsOf

\* Every step keeps one payer for a booking and one booking for an agreement.
THEOREM SoldStep == Safe /\ [Next]_vars => Sold'
<1> SUFFICES ASSUME Safe, [Next]_vars PROVE Sold'
  OBVIOUS
<1> USE DEF payments
<1>1. ASSUME NEW q \in Quotes,
             CreateQuote(q) \/ CreateOfferQuote(q) \/ HoldLapses(q) \/ GetQuote(q)
      PROVE  Sold'
  BY <1>1, UntouchedSold DEF CreateQuote, CreateOfferQuote, PlaceHold, HoldLapses, GetQuote
<1>2. ASSUME NEW q \in Quotes, CancelBooking(q) PROVE Sold'
  <2>1. \A r \in Quotes : HasBooking(r)' <=> HasBooking(r)
    BY <1>2 DEF CancelBooking, HasBooking, Safe, Typed, TypeOK
  <2>2. \A a \in Attempts : QuoteOf[a] \in Quotes
    BY ConstantTypes
  <2>3. UNCHANGED <<attemptBooking, charge, offerState>>
    BY <1>2 DEF CancelBooking
  <2> QED BY <2>1, <2>2, <2>3 DEF Safe, Sold, AttemptsOf, OneBookingPerOffer
<1>3. ASSUME NEW o \in Offers, OfferLapses(o) PROVE Sold'
  <2>1. \A r \in Offers : offerState[r] = "converted" => offerState'[r] = "converted"
    BY <1>3 DEF OfferLapses, Safe, Typed, TypeOK
  <2>2. UNCHANGED <<attemptBooking, charge, bookingState>>
    BY <1>3 DEF OfferLapses
  <2> QED BY <2>1, <2>2 DEF Safe, Sold, AttemptsOf, HasBooking, OneBookingPerOffer
<1>4. ASSUME NEW v \in Verifiers, Convert(v) PROVE Sold'
  BY <1>4, UntouchedSold, BookSold
     DEF Convert, RejectNoTime, RejectPaused, RejectOffer, ReturnMoney
<1>5. ASSUME NEW v \in Verifiers,
             Decide(v) \/ Crash(v) \/ QueryCharge(v) \/ FinishEvent(v) \/ FailEvent(v)
      PROVE  Sold'
  BY <1>5, UntouchedSold DEF Decide, RecordUnpaid, RecordOnly, RejectWrongAmount, RejectDuplicate,
         Reconfirm, LockAttempt, ReturnMoney, Crash, QueryCharge, FinishEvent, FailEvent
<1>6. ASSUME NEW a \in Attempts,
             \/ ExtendHold(a) \/ SaveAttempt(a) \/ OpenCharge(a) \/ MarkInitializationUnknown(a)
             \/ \E outcome \in Charged \cup {"failed"} : KoraCharge(a, outcome)
             \/ KoraWebhook(a) \/ RequeueEvent(a)
             \/ \E w \in Workers : ClaimEvent(w, a)
             \/ \E b \in Browsers : Poll(b, a)
      PROVE  Sold'
  BY <1>6, UntouchedSold DEF ExtendHold, SaveAttempt, OpenCharge, MarkInitializationUnknown,
         KoraCharge, KoraWebhook, RequeueEvent, ClaimEvent, Poll
<1>7. ASSUME NEW x \in Attempts \X Kinds, NEW i \in DOMAIN refunds[x],
             RefundWorker(x, i) \/ Operator(x, i)
      PROVE  Sold'
  BY <1>7, UntouchedSold, RefundOnly DEF Safe, holds, events, verifier
<1>8. ASSUME SetPaused \/ (\E s \in Slots : SetBookable(s)) \/ UNCHANGED vars PROVE Sold'
  BY <1>8, UntouchedSold DEF SetPaused, SetBookable, vars
<1> QED
  BY <1>1, <1>2, <1>3, <1>4, <1>5, <1>6, <1>7, <1>8 DEF Next

\* The empty system is safe.
LEMMA InitSafe == Init => Safe
<1> SUFFICES ASSUME Init PROVE Safe
  OBVIOUS
<1>1. Reserved
  BY DEF Init, Reserved, HasBooking
<1>2. Charges
  BY DEF Init, Charges
<1>3. Sold
  <2>1. \A q \in Quotes : ~HasBooking(q)
    BY DEF Init, HasBooking
  <2>2. \A a \in Attempts : ~attemptBooking[a]
    BY DEF Init
  <2> QED BY <2>1, <2>2 DEF Sold, OneBookingPerOffer
<1> QED BY <1>1, <1>2, <1>3, InitTyped DEF Safe

\* The safety invariant is inductive.
LEMMA SafeStep == Safe /\ [Next]_vars => Safe'
  BY TypeStep, ReservedStep, ChargesStep, SoldStep DEF Safe

\* It holds in every reachable state.
LEMMA AlwaysSafe == Spec => []Safe
  BY InitSafe, SafeStep, PTL DEF Spec

\* A quote is booked for one payment, whatever attempts, workers, return pages
\* and repeated answers there are.
THEOREM OnePaymentPerBooking == Spec => []BookingPaidOnce
<1>1. Safe => BookingPaidOnce
  BY DEF Safe, Sold, Reserved, BookingPaidOnce
<1> QED BY <1>1, AlwaysSafe, PTL

\* An agreed price is sold once.
THEOREM OfferSoldOnce == Spec => []OneBookingPerOffer
<1>1. Safe => OneBookingPerOffer
  BY DEF Safe, Sold
<1> QED BY <1>1, AlwaysSafe, PTL

(***************************************************************************)
(* Money.  A decision, once made, is about a finished charge, so that what *)
(* was true of the charge when the verifier asked is true of it for good.  *)
(***************************************************************************)

\* The steps that touch neither an attempt nor a refund keep the account.
LEMMA UntouchedAccounted ==
    ASSUME Safe, PaidChargeAccounted, [Next]_vars,
           UNCHANGED <<attemptState, attemptBooking, refunds>>
    PROVE  PaidChargeAccounted'
<1>1. \A a \in Attempts : charge[a] \in Charged => charge'[a] = charge[a]
  BY FinalStays DEF Safe, Final, Charged
<1>2. \A x \in Attempts \X Kinds : Returned(x)' <=> Returned(x)
  BY DEF Returned
<1>3. \A a \in Attempts, k \in Kinds : <<a, k>> \in Attempts \X Kinds
  OBVIOUS
<1> QED BY <1>1, <1>2, <1>3 DEF PaidChargeAccounted, Charged

\* Neither do the steps of a checkout, which decide nothing.
LEMMA UndecidedAccounted ==
    ASSUME Safe, PaidChargeAccounted, [Next]_vars,
           UNCHANGED <<attemptBooking, refunds>>,
           \A a \in Attempts : attemptState'[a] \in Settled => attemptState'[a] = attemptState[a]
    PROVE  PaidChargeAccounted'
<1>1. \A a \in Attempts : charge[a] \in Charged => charge'[a] = charge[a]
  BY FinalStays DEF Safe, Final, Charged
<1>2. \A x \in Attempts \X Kinds : Returned(x)' <=> Returned(x)
  BY DEF Returned
<1>3. \A a \in Attempts, k \in Kinds : <<a, k>> \in Attempts \X Kinds
  OBVIOUS
<1> QED BY <1>1, <1>2, <1>3 DEF PaidChargeAccounted, Charged, Settled

\* Returning the money of a charged attempt accounts for it.
LEMMA ReturnMoneyAccounted ==
    ASSUME Safe, PaidChargeAccounted, NEW a \in Attempts, NEW k \in Kinds,
           charge[a] = IF k = "wrong_amount" THEN "paid_wrong" ELSE "paid",
           UNCHANGED charge, ReturnMoney(a, k)
    PROVE  PaidChargeAccounted'
<1> DEFINE xs == Attempts \X Kinds
           r == <<a, k>>
<1>1. refunds \in [xs -> Seq(RefundRows)] /\ r \in xs
  BY DEF Safe, Typed, TypeOK, RefundsTyped
<1>2. PICK on \in RefundsOn :
          refunds' = [refunds EXCEPT ![r] =
              IF Live(r) THEN @
              ELSE Append(@, [state |-> IF on THEN "queued" ELSE "pending_approval",
                              kora |-> FALSE, retries |-> 0])]
  BY DEF ReturnMoney
<1> DEFINE row == [state |-> IF on THEN "queued" ELSE "pending_approval",
                   kora |-> FALSE, retries |-> 0]
<1> HIDE DEF row
<1>3. /\ \A x \in xs : Returned(x)' <=> x = r \/ Returned(x)
      /\ \A x \in xs : \A i, j \in DOMAIN refunds'[x] :
             refunds'[x][i].state # "failed" /\ refunds'[x][j].state # "failed" => i = j
  <2>1. CASE Live(r)
    <3>1. refunds' = refunds
      BY <1>1, <1>2, <2>1
    <3>2. Returned(r)
      BY <2>1, <1>1 DEF Live, Returned
    <3> QED BY <3>1, <3>2 DEF PaidChargeAccounted, Returned
  <2>2. CASE ~Live(r)
    <3>1. refunds' = [refunds EXCEPT ![r] = Append(refunds[r], row)]
      BY <1>1, <1>2, <2>2 DEF row
    <3>2. refunds[r] \in Seq(RefundRows) /\ row.state # "failed"
      BY <1>1 DEF row
    <3>3. /\ Append(refunds[r], row) # <<>>
          /\ DOMAIN Append(refunds[r], row) = 1 .. (Len(refunds[r]) + 1)
          /\ \A i \in 1 .. Len(refunds[r]) : Append(refunds[r], row)[i] = refunds[r][i]
      BY <3>2
    <3>4. \A i \in 1 .. Len(refunds[r]) : refunds[r][i].state = "failed"
      BY <2>2, <3>2 DEF Live
    <3>5. /\ refunds'[r] = Append(refunds[r], row)
          /\ \A x \in xs \ {r} : refunds'[x] = refunds[x]
      BY <1>1, <3>1
    <3>6. \A x \in xs : Returned(x)' <=> x = r \/ Returned(x)
      BY <3>3, <3>5 DEF Returned
    <3>7. ASSUME NEW i \in DOMAIN refunds'[r], NEW j \in DOMAIN refunds'[r],
                 refunds'[r][i].state # "failed", refunds'[r][j].state # "failed"
          PROVE  i = j
      <4>1. Len(refunds[r]) \in Nat
        BY <3>2
      <4>2. i = Len(refunds[r]) + 1 /\ j = Len(refunds[r]) + 1
        <5>1. \A h \in DOMAIN refunds'[r] :
                  refunds'[r][h].state # "failed" => h = Len(refunds[r]) + 1
          <6> SUFFICES ASSUME NEW h \in DOMAIN refunds'[r], refunds'[r][h].state # "failed",
                              h # Len(refunds[r]) + 1
                       PROVE  FALSE
            OBVIOUS
          <6>1. h \in 1 .. Len(refunds[r])
            BY <3>3, <3>5, <4>1
          <6> QED BY <3>3, <3>4, <3>5, <6>1
        <5> QED BY <3>7, <5>1
      <4> QED BY <4>2
    <3>8. \A x \in xs \ {r} : \A i, j \in DOMAIN refunds'[x] :
              refunds'[x][i].state # "failed" /\ refunds'[x][j].state # "failed" => i = j
      BY <3>5 DEF PaidChargeAccounted
    <3> QED BY <3>6, <3>7, <3>8
  <2> QED BY <2>1, <2>2
<1>4. /\ \A b \in Attempts :
             attemptState'[b] = IF b = a THEN "exception" ELSE attemptState[b]
      /\ UNCHANGED attemptBooking
  BY DEF ReturnMoney, Safe, Typed, TypeOK
<1>5. \A b \in Attempts, j \in Kinds : <<b, j>> \in xs /\ (<<b, j>> = <<a, k>> <=> b = a /\ j = k)
  OBVIOUS
<1> QED BY <1>3, <1>4, <1>5 DEF PaidChargeAccounted

\* Every step keeps the account of the money.
THEOREM AccountedStep == Safe /\ PaidChargeAccounted /\ [Next]_vars => PaidChargeAccounted'
<1> SUFFICES ASSUME Safe, PaidChargeAccounted, [Next]_vars PROVE PaidChargeAccounted'
  OBVIOUS
<1> USE DEF payments
<1>1. ASSUME NEW q \in Quotes,
             \/ CreateQuote(q) \/ CreateOfferQuote(q) \/ HoldLapses(q) \/ GetQuote(q)
             \/ CancelBooking(q)
      PROVE  PaidChargeAccounted'
  BY <1>1, UntouchedAccounted
     DEF CreateQuote, CreateOfferQuote, PlaceHold, HoldLapses, GetQuote, CancelBooking
<1>2. ASSUME \/ \E o \in Offers : OfferLapses(o)
             \/ SetPaused
             \/ \E s \in Slots : SetBookable(s)
             \/ UNCHANGED vars
      PROVE  PaidChargeAccounted'
  BY <1>2, UntouchedAccounted DEF OfferLapses, SetPaused, SetBookable, vars
<1>3. ASSUME NEW a \in Attempts,
             ExtendHold(a) \/ SaveAttempt(a) \/ OpenCharge(a) \/ MarkInitializationUnknown(a)
      PROVE  PaidChargeAccounted'
  BY <1>3, UndecidedAccounted
     DEF ExtendHold, SaveAttempt, OpenCharge, MarkInitializationUnknown, Safe, Typed, TypeOK, Settled
<1>4. ASSUME NEW a \in Attempts,
             \/ \E outcome \in Charged \cup {"failed"} : KoraCharge(a, outcome)
             \/ KoraWebhook(a) \/ RequeueEvent(a)
             \/ \E w \in Workers : ClaimEvent(w, a)
             \/ \E b \in Browsers : Poll(b, a)
      PROVE  PaidChargeAccounted'
  BY <1>4, UntouchedAccounted DEF KoraCharge, KoraWebhook, RequeueEvent, ClaimEvent, Poll
<1>5. ASSUME NEW v \in Verifiers,
             Crash(v) \/ QueryCharge(v) \/ FinishEvent(v) \/ FailEvent(v)
      PROVE  PaidChargeAccounted'
  BY <1>5, UntouchedAccounted DEF Crash, QueryCharge, FinishEvent, FailEvent
<1>6. ASSUME NEW v \in Verifiers, Decide(v) PROVE PaidChargeAccounted'
  <2>0. pc[v] = "verified" /\ job[v] \in Attempts
    BY <1>6 DEF Safe, Typed, JobKnown, Decide, RecordUnpaid, RecordOnly, RejectWrongAmount,
                RejectDuplicate, Reconfirm, LockAttempt
  <2>1. CASE RecordUnpaid(v)
    BY <2>0, <2>1, UndecidedAccounted DEF RecordUnpaid, Noted, Safe, Typed, TypeOK, Settled
  <2>6. CASE RecordOnly(v)
    <3>1. charge[job[v]] = "unmatched"
      BY <2>6, VerdictStands DEF RecordOnly, Safe
    <3>2. UNCHANGED <<attemptBooking, refunds, charge>>
      BY <2>6 DEF RecordOnly
    <3>3. \A a \in Attempts :
              attemptState'[a] = IF a = job[v] THEN "exception" ELSE attemptState[a]
      BY <2>6 DEF RecordOnly, Safe, Typed, TypeOK
    <3> QED BY <3>1, <3>2, <3>3 DEF PaidChargeAccounted, Returned
  <2>2. CASE RejectWrongAmount(v)
    BY <2>0, <2>2, VerdictStands, ReturnMoneyAccounted DEF RejectWrongAmount, Safe, Kinds
  <2>3. CASE RejectDuplicate(v)
    BY <2>0, <2>3, VerdictStands, ReturnMoneyAccounted DEF RejectDuplicate, Safe, Kinds, Charged
  <2>4. CASE Reconfirm(v)
    <3>1. charge[job[v]] = "paid" /\ attemptBooking[job[v]]
      BY <2>4, VerdictStands DEF Reconfirm, Safe
    <3>2. UNCHANGED <<attemptBooking, refunds, charge>>
      BY <2>4 DEF Reconfirm
    <3>3. \A a \in Attempts :
              attemptState'[a] = IF a = job[v] THEN "success" ELSE attemptState[a]
      BY <2>4 DEF Reconfirm, Safe, Typed, TypeOK
    <3> QED BY <3>1, <3>2, <3>3 DEF PaidChargeAccounted, Returned, Charged
  <2>5. CASE LockAttempt(v)
    BY <2>5, UntouchedAccounted DEF LockAttempt
  <2> QED BY <1>6, <2>1, <2>2, <2>3, <2>4, <2>5, <2>6 DEF Decide
<1>7. ASSUME NEW v \in Verifiers, Convert(v) PROVE PaidChargeAccounted'
  <2>0. pc[v] = "locked" /\ job[v] \in Attempts
    BY <1>7 DEF Safe, Typed, JobKnown, Convert, RejectNoTime, RejectPaused, RejectOffer, Book
  <2>1. charge[job[v]] = "paid" /\ charge[job[v]] \in Charged
    BY <2>0, VerdictStands DEF Safe, Charged
  <2>2. CASE RejectNoTime(v)
    BY <2>0, <2>1, <2>2, ReturnMoneyAccounted DEF RejectNoTime, Kinds
  <2>3. CASE RejectPaused(v)
    BY <2>0, <2>1, <2>3, ReturnMoneyAccounted DEF RejectPaused, Kinds
  <2>4. CASE RejectOffer(v)
    BY <2>0, <2>1, <2>4, ReturnMoneyAccounted DEF RejectOffer, Kinds
  <2>5. CASE Book(v)
    <3>1. UNCHANGED <<refunds, charge>>
      BY <2>5 DEF Book
    <3>2. \A a \in Attempts :
              /\ attemptState'[a] = IF a = job[v] THEN "success" ELSE attemptState[a]
              /\ attemptBooking'[a] <=> a = job[v] \/ attemptBooking[a]
      BY <2>5 DEF Book, Safe, Typed, TypeOK
    <3> QED BY <2>1, <3>1, <3>2 DEF PaidChargeAccounted, Returned, Charged
  <2> QED BY <1>7, <2>2, <2>3, <2>4, <2>5 DEF Convert
<1>8. ASSUME NEW x \in Attempts \X Kinds, NEW i \in DOMAIN refunds[x],
             RefundWorker(x, i) \/ Operator(x, i)
      PROVE  PaidChargeAccounted'
  <2>0. Typed
    BY DEF Safe
  <2>1. PICK row \in RefundRows :
            /\ refunds' = [refunds EXCEPT ![x] = [refunds[x] EXCEPT ![i] = row]]
            /\ row.state # "failed" => refunds[x][i].state # "failed" \/ ~Live(x)
    BY <1>8, <2>0, RefundOnly
  <2>2. UNCHANGED <<attemptState, attemptBooking, charge>>
    BY <1>8, <2>0, RefundOnly
  <2>3. refunds \in [Attempts \X Kinds -> Seq(RefundRows)]
    BY <2>0 DEF Typed, TypeOK, RefundsTyped
  <2>4. \A y \in Attempts \X Kinds : Returned(y)' <=> Returned(y)
    BY <2>1, <2>3 DEF Returned
  <2>5. ASSUME NEW y \in Attempts \X Kinds,
               NEW g \in DOMAIN refunds'[y], NEW h \in DOMAIN refunds'[y],
               refunds'[y][g].state # "failed", refunds'[y][h].state # "failed"
        PROVE  g = h
    BY <2>1, <2>3, <2>5 DEF PaidChargeAccounted, Live
  <2>6. \A y \in Attempts, k \in Kinds : <<y, k>> \in Attempts \X Kinds
    OBVIOUS
  <2> QED BY <2>2, <2>4, <2>5, <2>6 DEF PaidChargeAccounted
<1> QED
  BY <1>1, <1>2, <1>3, <1>4, <1>5, <1>6, <1>7, <1>8 DEF Next

\* No booking without its money in full, no exception that fits without its refund,
\* and no refund of money that Kora never took.
THEOREM MoneyAccounted == Spec => []PaidChargeAccounted
<1>1. Init => PaidChargeAccounted
  BY DEF Init, PaidChargeAccounted, Returned
<1>2. Safe /\ PaidChargeAccounted /\ [Next]_vars => PaidChargeAccounted'
  BY AccountedStep
<1> QED BY <1>1, <1>2, AlwaysSafe, PTL DEF Spec

(***************************************************************************)
(* Steps.                                                                  *)
(***************************************************************************)

\* One step of anybody leaves decided attempts decided and bookings paid for.
LEMMA DecisionStep ==
    ASSUME Typed, [Next]_vars, NEW a \in Attempts
    PROVE  /\ attemptState[a] \in Settled => attemptState'[a] \in Settled
           /\ attemptBooking[a] => attemptBooking'[a]
<1> USE DEF Typed, TypeOK, Settled, payments
<1>1. ASSUME NEW q \in Quotes,
             \/ CreateQuote(q) \/ CreateOfferQuote(q) \/ HoldLapses(q) \/ GetQuote(q)
             \/ CancelBooking(q)
      PROVE  UNCHANGED <<attemptState, attemptBooking>>
  BY <1>1 DEF CreateQuote, CreateOfferQuote, PlaceHold, HoldLapses, GetQuote, CancelBooking
<1>2. ASSUME \/ \E o \in Offers : OfferLapses(o)
             \/ SetPaused
             \/ \E s \in Slots : SetBookable(s)
             \/ \E x \in Attempts \X Kinds : \E i \in DOMAIN refunds[x] :
                    RefundWorker(x, i) \/ Operator(x, i)
             \/ UNCHANGED vars
      PROVE  UNCHANGED <<attemptState, attemptBooking>>
  BY <1>2, RefundOnly DEF OfferLapses, SetPaused, SetBookable, vars
<1>3. ASSUME NEW b \in Attempts,
             ExtendHold(b) \/ SaveAttempt(b) \/ OpenCharge(b) \/ MarkInitializationUnknown(b)
      PROVE  /\ attemptState[a] \in Settled => attemptState'[a] \in Settled
             /\ attemptBooking[a] => attemptBooking'[a]
  BY <1>3 DEF ExtendHold, SaveAttempt, OpenCharge, MarkInitializationUnknown
<1>4. ASSUME NEW b \in Attempts,
             \/ \E outcome \in Charged \cup {"failed"} : KoraCharge(b, outcome)
             \/ KoraWebhook(b) \/ RequeueEvent(b)
             \/ \E w \in Workers : ClaimEvent(w, b)
             \/ \E c \in Browsers : Poll(c, b)
      PROVE  UNCHANGED <<attemptState, attemptBooking>>
  BY <1>4 DEF KoraCharge, KoraWebhook, RequeueEvent, ClaimEvent, Poll
<1>5. ASSUME NEW v \in Verifiers,
             Crash(v) \/ QueryCharge(v) \/ FinishEvent(v) \/ FailEvent(v)
      PROVE  UNCHANGED <<attemptState, attemptBooking>>
  BY <1>5 DEF Crash, QueryCharge, FinishEvent, FailEvent
<1>6. ASSUME NEW v \in Verifiers, Decide(v)
      PROVE  /\ attemptState[a] \in Settled => attemptState'[a] \in Settled
             /\ attemptBooking[a] => attemptBooking'[a]
  BY <1>6 DEF Decide, RecordUnpaid, Noted, RecordOnly, RejectWrongAmount, RejectDuplicate, Reconfirm,
              LockAttempt, ReturnMoney
<1>7. ASSUME NEW v \in Verifiers, Convert(v)
      PROVE  /\ attemptState[a] \in Settled => attemptState'[a] \in Settled
             /\ attemptBooking[a] => attemptBooking'[a]
  BY <1>7 DEF Convert, RejectNoTime, RejectPaused, RejectOffer, Book, ReturnMoney
<1> QED BY <1>1, <1>2, <1>3, <1>4, <1>5, <1>6, <1>7 DEF Next

\* No late or stale answer reopens a decided attempt or unbooks a paid booking.
THEOREM DecisionsStand == Spec => DecisionStands
<1>1. Typed /\ [Next]_vars =>
          [\A a \in Attempts :
               /\ attemptState[a] \in Settled => attemptState'[a] \in Settled
               /\ attemptBooking[a] => attemptBooking'[a]]_vars
  BY DecisionStep
<1>2. Spec => []Typed
  BY InitTyped, TypeStep, PTL DEF Spec
<1> QED BY <1>1, <1>2, PTL DEF Spec, DecisionStands

\* A hold in force that somebody is paying for is not among those a new hold
\* replaces or clears away.
LEMMA PlaceHoldSpares ==
    ASSUME Typed, NEW p \in Quotes, quoteState[p] = "none",
           NEW lapsed \in SUBSET {r \in Quotes : ~holdLive[r]},
           NEW freed \in SUBSET {r \in Quotes : ~holdLive[r] \/ ~HoldValid(r) \/ ~HasAttempt(r)},
           PlaceHold(p, lapsed, freed),
           NEW q \in Quotes, HoldValid(q), HasAttempt(q)
    PROVE  HoldValid(q)'
<1>1. q # p /\ q \notin lapsed /\ q \notin freed
  BY DEF HoldValid
<1> QED BY <1>1 DEF PlaceHold, HoldValid, IsHold, Typed, TypeOK

\* One step of anybody keeps it, unless it is the step of its own expiry or of
\* its own booking.
LEMMA PayerStep ==
    ASSUME Typed, Reserved, [Next]_vars, NEW q \in Quotes, HoldValid(q), HasAttempt(q)
    PROVE  \/ HoldValid(q)' \/ HasBooking(q)'
           \/ quoteState'[q] = "held" /\ IsHold(q)' /\ ~holdLive'[q]
<1> DEFINE Kept == \/ HoldValid(q)' \/ HasBooking(q)'
                   \/ quoteState'[q] = "held" /\ IsHold(q)' /\ ~holdLive'[q]
<1> USE DEF Typed, TypeOK, HoldValid, IsHold, holds
<1>1. ASSUME NEW p \in Quotes, CreateQuote(p) PROVE Kept
  <2>1. /\ {r \in Quotes : quoteState[r] = "held" /\ ~holdLive[r]}
               \in SUBSET {r \in Quotes : ~holdLive[r]}
        /\ Replaced(p) \cup StaleInTheWay(p)
               \in SUBSET {r \in Quotes : ~holdLive[r] \/ ~HoldValid(r) \/ ~HasAttempt(r)}
    BY DEF Replaced, StaleInTheWay
  <2> QED BY <1>1, <2>1, PlaceHoldSpares DEF CreateQuote
<1>2. ASSUME NEW p \in Quotes, CreateOfferQuote(p) PROVE Kept
  <2> DEFINE o == OfferOf[p]
             mine == {r \in Quotes : OfferOf[r] = o}
             lapsed == {r \in mine : quoteState[r] = "held" /\ ~holdLive[r]}
             dead == {r \in mine : IsHold(r) /\ (quoteState[r] = "expired" \/ r \in lapsed)}
  <2>1. lapsed \in SUBSET {r \in Quotes : ~holdLive[r]}
    OBVIOUS
  <2>2. dead \cup Replaced(p) \cup StaleInTheWay(p)
            \in SUBSET {r \in Quotes : ~holdLive[r] \/ ~HoldValid(r) \/ ~HasAttempt(r)}
    BY DEF Replaced, StaleInTheWay
  <2>3. /\ quoteState[p] = "none"
        /\ PlaceHold(p, lapsed, dead \cup Replaced(p) \cup StaleInTheWay(p))
    BY <1>2 DEF CreateOfferQuote
  <2> QED BY <2>1, <2>2, <2>3, PlaceHoldSpares
<1>3. ASSUME NEW p \in Quotes, HoldLapses(p) \/ GetQuote(p) PROVE Kept
  <2>1. CASE HoldLapses(p) /\ p = q
    <3>1. /\ UNCHANGED <<quoteState, holdActive, holdKind>>
          /\ ~holdLive'[q]
      BY <2>1 DEF HoldLapses
    <3> QED BY <3>1
  <2>2. CASE HoldLapses(p) /\ p # q
    BY <2>2 DEF HoldLapses
  <2>3. CASE GetQuote(p)
    <3>1. p # q
      BY <2>3 DEF GetQuote
    <3> QED BY <2>3, <3>1 DEF GetQuote
  <2> QED BY <1>3, <2>1, <2>2, <2>3
<1>4. ASSUME NEW p \in Quotes, CancelBooking(p) PROVE Kept
  <2>1. quoteState[p] = "converted"
    BY <1>4 DEF CancelBooking, Reserved, HasBooking
  <2> QED BY <1>4, <2>1 DEF CancelBooking
<1>5. ASSUME NEW v \in Verifiers, Convert(v) PROVE Kept
  <2>1. CASE RejectNoTime(v)
    BY <2>1 DEF RejectNoTime
  <2>2. CASE RejectPaused(v) \/ RejectOffer(v)
    BY <2>2 DEF RejectPaused, RejectOffer, KeepTime
  <2>3. CASE Book(v)
    <3>1. CASE q = QuoteOf[job[v]]
      BY <2>3, <3>1 DEF Book, HasBooking
    <3>2. CASE q # QuoteOf[job[v]]
      BY <2>3, <3>2 DEF Book
    <3> QED BY <3>1, <3>2
  <2> QED BY <1>5, <2>1, <2>2, <2>3 DEF Convert
<1>6. ASSUME NEW v \in Verifiers,
             Decide(v) \/ Crash(v) \/ QueryCharge(v) \/ FinishEvent(v) \/ FailEvent(v)
      PROVE  Kept
  <2>1. UNCHANGED holds
    BY <1>6 DEF Decide, RecordUnpaid, RecordOnly, RejectWrongAmount, RejectDuplicate, Reconfirm,
                LockAttempt, Crash, QueryCharge, FinishEvent, FailEvent
  <2> QED BY <2>1
<1>7. ASSUME NEW a \in Attempts,
             \/ ExtendHold(a) \/ SaveAttempt(a) \/ OpenCharge(a) \/ MarkInitializationUnknown(a)
             \/ \E outcome \in Charged \cup {"failed"} : KoraCharge(a, outcome)
             \/ KoraWebhook(a) \/ RequeueEvent(a)
             \/ \E w \in Workers : ClaimEvent(w, a)
             \/ \E b \in Browsers : Poll(b, a)
      PROVE  Kept
  <2>1. UNCHANGED holds
    BY <1>7 DEF ExtendHold, SaveAttempt, OpenCharge, MarkInitializationUnknown, KoraCharge,
                KoraWebhook, RequeueEvent, ClaimEvent, Poll
  <2> QED BY <2>1
<1>8. ASSUME \/ \E o \in Offers : OfferLapses(o)
             \/ SetPaused
             \/ \E s \in Slots : SetBookable(s)
             \/ \E x \in Attempts \X Kinds : \E i \in DOMAIN refunds[x] :
                    RefundWorker(x, i) \/ Operator(x, i)
             \/ UNCHANGED vars
      PROVE  Kept
  <2>1. UNCHANGED holds
    BY <1>8, RefundOnly DEF OfferLapses, SetPaused, SetBookable, vars
  <2> QED BY <2>1
<1> QED BY <1>1, <1>2, <1>3, <1>4, <1>5, <1>6, <1>7, <1>8 DEF Next

\* A time that an account was shown for goes to nobody else before its hold runs out.
THEOREM PayerKeepsHold == Spec => HoldOfPayerKept
<1>0. \A q \in Quotes : AccountShown(q) => HasAttempt(q)
  BY DEF AccountShown, HasAttempt
<1>1. Typed /\ Reserved /\ [Next]_vars =>
          [\A q \in Quotes : HoldValid(q) /\ AccountShown(q) =>
               \/ HoldValid(q)' \/ HasBooking(q)'
               \/ quoteState'[q] = "held" /\ IsHold(q)' /\ ~holdLive'[q]]_vars
  BY <1>0, PayerStep
<1>2. Safe => Typed /\ Reserved
  BY DEF Safe
<1> QED BY <1>1, <1>2, AlwaysSafe, PTL DEF Spec, HoldOfPayerKept

(***************************************************************************)
(* Events.  A worker has an event in hand, which Kora sends of a finished  *)
(* charge only; what it has applied is decided and stays so, whoever else  *)
(* takes the event over when the lease runs out.                           *)
(***************************************************************************)

Events ==
    /\ \A a \in Attempts : eventState[a] # "none" => charge[a] \in Final
    /\ \A w \in Workers : pc[w] # "idle" => eventState[job[w]] # "none"
    /\ \A w \in Workers : pc[w] \in {"verified", "locked"} => seen[w] = charge[job[w]]
    /\ \A v \in Verifiers : pc[v] = "applied" =>
           /\ v \in Workers
           /\ charge[job[v]] \in Charged => attemptState[job[v]] \in Settled
    /\ ProcessedIsDecided

\* What a step leaves of an event and of a verifier's work, when it writes neither.
LEMMA UntouchedEvents ==
    ASSUME Safe, Events, [Next]_vars, UNCHANGED <<eventState, verifier>>
    PROVE  Events'
<1>1. \A a \in Attempts : charge[a] \in Final => charge'[a] = charge[a]
  BY FinalStays DEF Safe
<1>2. \A a \in Attempts : attemptState[a] \in Settled => attemptState'[a] \in Settled
  BY DecisionStep DEF Safe
<1>3. \A v \in Verifiers : pc[v] # "idle" => job[v] \in Attempts
  BY DEF Safe, Typed, JobKnown
<1>4. \A a \in Attempts : eventState'[a] # "none" => charge'[a] \in Final
  BY <1>1 DEF Events
<1>5. \A w \in Workers : pc[w] # "idle" => charge[job[w]] \in Final
  BY <1>3 DEF Events
<1>6. \A w \in Workers : pc'[w] \in {"verified", "locked"} => seen'[w] = charge'[job'[w]]
  BY <1>1, <1>3, <1>5 DEF Events, verifier
<1>7. \A v \in Verifiers : pc'[v] = "applied" =>
          /\ v \in Workers
          /\ charge'[job'[v]] \in Charged => attemptState'[job'[v]] \in Settled
  BY <1>1, <1>2, <1>3, <1>5 DEF Events, verifier
<1>8. ProcessedIsDecided'
  BY <1>1, <1>2 DEF Events, ProcessedIsDecided
<1> QED BY <1>4, <1>6, <1>7, <1>8 DEF Events, verifier

\* A verifier that commits a decision leaves a worker with a decided charge.
LEMMA AppliedEvents ==
    ASSUME Safe, Events, [Next]_vars, UNCHANGED <<eventState, charge>>,
           NEW v \in Verifiers, pc[v] # "idle", Applied(v),
           v \in Workers /\ charge[job[v]] \in Charged => attemptState'[job[v]] \in Settled
    PROVE  Events'
<1>1. \A a \in Attempts : attemptState[a] \in Settled => attemptState'[a] \in Settled
  BY DecisionStep DEF Safe
<1>2. job[v] \in Attempts
  BY DEF Safe, Typed, JobKnown
<1>3. \A u \in Verifiers : pc[u] # "idle" => job[u] \in Attempts
  BY DEF Safe, Typed, JobKnown
<1>4. CASE v \in Browsers
  <2>1. v \notin Workers
    BY <1>4, ConstantTypes
  <2>2. \A u \in Verifiers \ {v} :
            pc'[u] = pc[u] /\ job'[u] = job[u] /\ seen'[u] = seen[u]
    BY <1>4 DEF Applied, Rest, Safe, Typed, TypeOK
  <2>3. pc'[v] = "idle"
    BY <1>4 DEF Applied, Rest, Safe, Typed, TypeOK
  <2> QED BY <1>1, <1>3, <2>1, <2>2, <2>3 DEF Events, ProcessedIsDecided
<1>5. CASE v \notin Browsers
  <2>1. \A u \in Verifiers \ {v} : pc'[u] = pc[u]
    BY <1>5 DEF Applied, Safe, Typed, TypeOK
  <2>2. pc'[v] = "applied" /\ UNCHANGED <<job, seen>>
    BY <1>5 DEF Applied, Safe, Typed, TypeOK
  <2> QED BY <1>1, <1>2, <1>3, <1>5, <2>1, <2>2 DEF Events, ProcessedIsDecided
<1> QED BY <1>4, <1>5

\* Every step keeps it.
THEOREM EventsStep == Safe /\ Events /\ [Next]_vars => Events'
<1> SUFFICES ASSUME Safe, Events, [Next]_vars PROVE Events'
  OBVIOUS
<1> USE DEF events, verifier
<1>0. /\ \A a \in Attempts : attemptState[a] \in Settled => attemptState'[a] \in Settled
      /\ \A v \in Verifiers : pc[v] # "idle" => job[v] \in Attempts
  BY DecisionStep DEF Safe, Typed, JobKnown
<1>1. ASSUME NEW q \in Quotes,
             \/ CreateQuote(q) \/ CreateOfferQuote(q) \/ HoldLapses(q) \/ GetQuote(q)
             \/ CancelBooking(q)
      PROVE  Events'
  BY <1>1, UntouchedEvents
     DEF CreateQuote, CreateOfferQuote, PlaceHold, HoldLapses, GetQuote, CancelBooking
<1>2. ASSUME \/ \E o \in Offers : OfferLapses(o)
             \/ SetPaused
             \/ \E s \in Slots : SetBookable(s)
             \/ \E x \in Attempts \X Kinds : \E i \in DOMAIN refunds[x] :
                    RefundWorker(x, i) \/ Operator(x, i)
             \/ UNCHANGED vars
      PROVE  Events'
  <2>1. CASE \/ \E o \in Offers : OfferLapses(o)
             \/ SetPaused
             \/ \E s \in Slots : SetBookable(s)
             \/ UNCHANGED vars
    BY <2>1, UntouchedEvents DEF OfferLapses, SetPaused, SetBookable, vars
  <2>2. ASSUME NEW x \in Attempts \X Kinds, NEW i \in DOMAIN refunds[x],
               RefundWorker(x, i) \/ Operator(x, i)
        PROVE  Events'
    <3>1. UNCHANGED <<holds, bookingState, offerState, attemptState, attemptBooking,
                      events, charge, seller, verifier>>
      BY <2>2, RefundOnly DEF Safe
    <3> QED BY <3>1, UntouchedEvents
  <2> QED BY <1>2, <2>1, <2>2
<1>3. ASSUME NEW a \in Attempts,
             \/ ExtendHold(a) \/ SaveAttempt(a) \/ OpenCharge(a) \/ MarkInitializationUnknown(a)
             \/ \E outcome \in Charged \cup {"failed"} : KoraCharge(a, outcome)
      PROVE  Events'
  BY <1>3, UntouchedEvents
     DEF ExtendHold, SaveAttempt, OpenCharge, MarkInitializationUnknown, KoraCharge
<1>4. ASSUME NEW a \in Attempts, KoraWebhook(a) PROVE Events'
  <2>1. /\ charge[a] \in Final
        /\ UNCHANGED <<charge, attemptState, pc, job, seen>>
        /\ \A b \in Attempts : eventState'[b] = IF b = a THEN "queued" ELSE eventState[b]
    BY <1>4 DEF KoraWebhook, Final, Safe, Typed, TypeOK, payments
  <2> QED BY <1>0, <2>1 DEF Events, ProcessedIsDecided
<1>5. ASSUME NEW a \in Attempts, RequeueEvent(a) PROVE Events'
  <2>1. /\ eventState[a] # "none"
        /\ UNCHANGED <<charge, attemptState, pc, job, seen>>
        /\ \A b \in Attempts : eventState'[b] = IF b = a THEN "queued" ELSE eventState[b]
    BY <1>5 DEF RequeueEvent, Safe, Typed, TypeOK, payments
  <2> QED BY <1>0, <2>1 DEF Events, ProcessedIsDecided
<1>6. ASSUME NEW a \in Attempts, NEW w \in Workers, ClaimEvent(w, a) PROVE Events'
  <2>1. /\ eventState[a] # "none"
        /\ UNCHANGED <<charge, attemptState, seen>>
        /\ \A b \in Attempts : eventState'[b] = IF b = a THEN "processing" ELSE eventState[b]
        /\ \A u \in Verifiers \ {w} : pc'[u] = pc[u] /\ job'[u] = job[u]
        /\ pc'[w] = "claimed" /\ job'[w] = a
    BY <1>6 DEF ClaimEvent, Claimable, Safe, Typed, TypeOK, payments
  <2> QED BY <1>0, <1>6, <2>1 DEF Events, ProcessedIsDecided
<1>7. ASSUME NEW a \in Attempts, NEW b \in Browsers, Poll(b, a) PROVE Events'
  <2>1. /\ UNCHANGED <<charge, attemptState, eventState>>
        /\ \A u \in Verifiers \ {b} :
               pc'[u] = pc[u] /\ job'[u] = job[u] /\ seen'[u] = seen[u]
        /\ pc'[b] = "verified" /\ b \notin Workers
    BY <1>7, ConstantTypes DEF Poll, Safe, Typed, TypeOK, payments
  <2> QED BY <1>0, <2>1 DEF Events, ProcessedIsDecided
<1>8. ASSUME NEW w \in Workers, QueryCharge(w) PROVE Events'
  <2>1. /\ UNCHANGED <<charge, attemptState, eventState, job>>
        /\ \A u \in Verifiers \ {w} : pc'[u] = pc[u] /\ seen'[u] = seen[u]
        /\ pc[w] # "idle" /\ pc'[w] = "verified" /\ seen'[w] = charge[job[w]]
    BY <1>8 DEF QueryCharge, Safe, Typed, TypeOK, payments
  <2> QED BY <1>0, <1>8, <2>1 DEF Events, ProcessedIsDecided
<1>9. ASSUME NEW v \in Verifiers, Crash(v) \/ (v \in Workers /\ (FinishEvent(v) \/ FailEvent(v)))
      PROVE  Events'
  <2>1. /\ UNCHANGED <<charge, attemptState>>
        /\ \A u \in Verifiers \ {v} :
               pc'[u] = pc[u] /\ job'[u] = job[u] /\ seen'[u] = seen[u]
        /\ pc'[v] = "idle" /\ pc[v] # "idle"
    BY <1>9 DEF FinishEvent, FailEvent, Crash, Rest, Safe, Typed, TypeOK, payments
  <2>3. CASE Crash(v)
    <3>1. UNCHANGED eventState
      BY <2>3 DEF Crash
    <3> QED BY <1>0, <2>1, <3>1 DEF Events, ProcessedIsDecided
  <2>4. CASE v \in Workers /\ FinishEvent(v)
    <3>1. /\ pc[v] = "applied"
          /\ \A b \in Attempts :
                 eventState'[b] = IF b = job[v] THEN "processed" ELSE eventState[b]
      BY <2>4 DEF FinishEvent, Safe, Typed, TypeOK
    <3>2. v \in Workers /\ job[v] \in Attempts
      BY <1>0, <3>1 DEF Events
    <3>3. charge[job[v]] \in Final
      BY <3>1, <3>2 DEF Events
    <3> QED BY <1>0, <2>1, <3>1, <3>2, <3>3 DEF Events, ProcessedIsDecided
  <2>5. CASE v \in Workers /\ FailEvent(v)
    <3> DEFINE d == Deferred(job[v])
    <3>1. /\ d \in {"retry", "failed"}
          /\ \A b \in Attempts :
                 eventState'[b] = IF b = job[v] THEN d ELSE eventState[b]
      BY <2>5 DEF FailEvent, Deferred, Safe, Typed, TypeOK
    <3>2. job[v] \in Attempts /\ eventState[job[v]] # "none"
      BY <1>0, <2>1, <2>5 DEF Events
    <3> HIDE DEF d
    <3> QED BY <1>0, <2>1, <3>1, <3>2 DEF Events, ProcessedIsDecided
  <2> QED BY <1>9, <2>3, <2>4, <2>5
<1>10. ASSUME NEW v \in Verifiers, Decide(v) PROVE Events'
  <2>0. pc[v] = "verified" /\ job[v] \in Attempts
    BY <1>0, <1>10 DEF Decide, RecordUnpaid, RecordOnly, RejectWrongAmount, RejectDuplicate, Reconfirm,
                       LockAttempt
  <2>1. CASE RecordUnpaid(v)
    <3>1. seen[v] \notin Charged
      BY <2>1 DEF RecordUnpaid, Charged
    <3>2. v \in Workers => charge[job[v]] \notin Charged
      BY <2>0, <3>1 DEF Events
    <3> QED BY <2>0, <2>1, <3>2, AppliedEvents DEF RecordUnpaid
  <2>2. CASE RejectWrongAmount(v) \/ RejectDuplicate(v)
    <3>1. attemptState'[job[v]] = "exception"
      BY <2>0, <2>2 DEF RejectWrongAmount, RejectDuplicate, ReturnMoney, Safe, Typed, TypeOK
    <3> QED BY <2>0, <2>2, <3>1, AppliedEvents DEF RejectWrongAmount, RejectDuplicate, Settled
  <2>6. CASE RecordOnly(v)
    <3>1. attemptState'[job[v]] = "exception"
      BY <2>0, <2>6 DEF RecordOnly, Safe, Typed, TypeOK
    <3> QED BY <2>0, <2>6, <3>1, AppliedEvents DEF RecordOnly, Settled
  <2>3. CASE Reconfirm(v)
    <3>1. attemptState'[job[v]] = "success"
      BY <2>0, <2>3 DEF Reconfirm, Safe, Typed, TypeOK
    <3> QED BY <2>0, <2>3, <3>1, AppliedEvents DEF Reconfirm, Settled
  <2>4. CASE LockAttempt(v)
    <3>1. /\ UNCHANGED <<charge, attemptState, eventState, job, seen>>
          /\ \A u \in Verifiers \ {v} : pc'[u] = pc[u]
          /\ pc'[v] = "locked"
      BY <2>4 DEF LockAttempt, Safe, Typed, TypeOK, payments
    <3> QED BY <1>0, <2>0, <3>1 DEF Events, ProcessedIsDecided
  <2> QED BY <1>10, <2>1, <2>2, <2>3, <2>4, <2>6 DEF Decide
<1>11. ASSUME NEW v \in Verifiers, Convert(v) PROVE Events'
  <2>0. pc[v] = "locked" /\ job[v] \in Attempts
    BY <1>0, <1>11 DEF Convert, RejectNoTime, RejectPaused, RejectOffer, Book
  <2>1. attemptState'[job[v]] \in Settled
    BY <2>0, <1>11 DEF Convert, RejectNoTime, RejectPaused, RejectOffer, Book, ReturnMoney,
                       Settled, Safe, Typed, TypeOK
  <2>2. Applied(v) /\ UNCHANGED <<eventState, charge>>
    BY <1>11 DEF Convert, RejectNoTime, RejectPaused, RejectOffer, Book
  <2> QED BY <2>0, <2>1, <2>2, AppliedEvents
<1> QED
  BY <1>1, <1>2, <1>3, <1>4, <1>5, <1>6, <1>7, <1>8, <1>9, <1>10, <1>11 DEF Next

\* An event marked processed is about a decided charge.
THEOREM ProcessedDecided == Spec => []ProcessedIsDecided
<1>1. Init => Events
  BY DEF Init, Events, ProcessedIsDecided
<1>2. Safe /\ Events /\ [Next]_vars => Events'
  BY EventsStep
<1>3. Events => ProcessedIsDecided
  BY DEF Events
<1> QED BY <1>1, <1>2, <1>3, AlwaysSafe, PTL DEF Spec

(***************************************************************************)
(* The rules of SellerTimes.                                               *)
(***************************************************************************)

\* Few actions write a reservation, a quote's state or a booking.
LEMMA OnlyTimesMove ==
    ASSUME Typed, [Next]_vars
    PROVE  \/ \E q \in Quotes : \/ CreateQuote(q) \/ CreateOfferQuote(q)
                                \/ GetQuote(q) \/ CancelBooking(q)
           \/ \E v \in Verifiers : RejectPaused(v) \/ RejectOffer(v) \/ Book(v)
           \/ UNCHANGED <<quoteState, holdActive, bookingState>>
<1> USE DEF holds
<1>1. ASSUME NEW q \in Quotes, HoldLapses(q)
      PROVE  UNCHANGED <<quoteState, holdActive, bookingState>>
  BY <1>1 DEF HoldLapses
<1>2. ASSUME \/ \E o \in Offers : OfferLapses(o)
             \/ SetPaused \/ \E s \in Slots : SetBookable(s)
      PROVE  UNCHANGED <<quoteState, holdActive, bookingState>>
  BY <1>2 DEF OfferLapses, SetPaused, SetBookable
<1>3. ASSUME NEW a \in Attempts,
             \/ ExtendHold(a) \/ SaveAttempt(a) \/ OpenCharge(a) \/ MarkInitializationUnknown(a)
             \/ \E outcome \in Charged \cup {"failed"} : KoraCharge(a, outcome)
             \/ KoraWebhook(a) \/ RequeueEvent(a)
             \/ \E w \in Workers : ClaimEvent(w, a)
             \/ \E b \in Browsers : Poll(b, a)
      PROVE  UNCHANGED <<quoteState, holdActive, bookingState>>
  BY <1>3 DEF ExtendHold, SaveAttempt, OpenCharge, MarkInitializationUnknown, KoraCharge,
              KoraWebhook, RequeueEvent, ClaimEvent, Poll
<1>4. ASSUME NEW v \in Verifiers,
             QueryCharge(v) \/ FinishEvent(v) \/ FailEvent(v) \/ Crash(v) \/ RejectNoTime(v)
      PROVE  UNCHANGED <<quoteState, holdActive, bookingState>>
  BY <1>4 DEF QueryCharge, FinishEvent, FailEvent, Crash, RejectNoTime
<1>5. ASSUME NEW v \in Verifiers, Decide(v)
      PROVE  UNCHANGED <<quoteState, holdActive, bookingState>>
  BY <1>5 DEF Decide, RecordUnpaid, RecordOnly, RejectWrongAmount, RejectDuplicate, Reconfirm, LockAttempt
<1>6. ASSUME NEW x \in Attempts \X Kinds, NEW i \in DOMAIN refunds[x],
             RefundWorker(x, i) \/ Operator(x, i)
      PROVE  UNCHANGED <<quoteState, holdActive, bookingState>>
  BY <1>6, RefundOnly
<1>7. CASE UNCHANGED vars
  BY <1>7 DEF vars
<1>8. CASE Next
  BY <1>1, <1>2, <1>3, <1>4, <1>5, <1>6, <1>8 DEF Next, Convert
<1> QED BY <1>7, <1>8

\* A new quote is placed, and clears away holds.
LEMMA QuotesPlaced ==
    ASSUME NEW q \in Quotes, CreateQuote(q) \/ CreateOfferQuote(q)
    PROVE  /\ quoteState[q] = "none"
           /\ \E lapsed \in SUBSET {r \in Quotes : quoteState[r] = "held"},
                 freed \in SUBSET {r \in Quotes : IsHold(r)} : PlaceHold(q, lapsed, freed)
<1>1. CASE CreateQuote(q)
  <2>1. /\ {r \in Quotes : quoteState[r] = "held" /\ ~holdLive[r]}
                \in SUBSET {r \in Quotes : quoteState[r] = "held"}
        /\ Replaced(q) \cup StaleInTheWay(q) \in SUBSET {r \in Quotes : IsHold(r)}
    BY DEF Replaced, StaleInTheWay
  <2> QED BY <1>1, <2>1 DEF CreateQuote
<1>2. CASE CreateOfferQuote(q)
  <2> DEFINE o == OfferOf[q]
             mine == {r \in Quotes : OfferOf[r] = o}
             lapsed == {r \in mine : quoteState[r] = "held" /\ ~holdLive[r]}
             dead == {r \in mine : IsHold(r) /\ (quoteState[r] = "expired" \/ r \in lapsed)}
  <2>1. lapsed \in SUBSET {r \in Quotes : quoteState[r] = "held"}
    OBVIOUS
  <2>2. dead \cup Replaced(q) \cup StaleInTheWay(q) \in SUBSET {r \in Quotes : IsHold(r)}
    BY DEF Replaced, StaleInTheWay
  <2>3. quoteState[q] = "none" /\ PlaceHold(q, lapsed, dead \cup Replaced(q) \cup StaleInTheWay(q))
    BY <1>2 DEF CreateOfferQuote
  <2> HIDE DEF lapsed, dead
  <2> QED BY <2>1, <2>2, <2>3
<1> QED BY <1>1, <1>2

\* A quote nobody has asked for holds no time.
Unasked == \A q \in Quotes : quoteState[q] = "none" => ~holdActive[q]

LEMMA UnaskedStep == Typed /\ Unasked /\ [Next]_vars => Unasked'
<1> SUFFICES ASSUME Typed, Unasked, [Next]_vars PROVE Unasked'
  OBVIOUS
<1>1. ASSUME NEW q \in Quotes, CreateQuote(q) \/ CreateOfferQuote(q) PROVE Unasked'
  BY <1>1, QuotesPlaced DEF PlaceHold, Unasked, Typed, TypeOK
<1>2. ASSUME NEW q \in Quotes, GetQuote(q) \/ CancelBooking(q) PROVE Unasked'
  <2>1. CASE GetQuote(q)
    BY <2>1 DEF GetQuote, Unasked, Typed, TypeOK
  <2>2. CASE CancelBooking(q)
    BY <2>2 DEF CancelBooking, Unasked, Typed, TypeOK
  <2> QED BY <1>2, <2>1, <2>2
<1>3. ASSUME NEW v \in Verifiers, RejectPaused(v) \/ RejectOffer(v) \/ Book(v) PROVE Unasked'
  BY <1>3 DEF RejectPaused, RejectOffer, Book, KeepTime, Unasked, Typed, TypeOK
<1>4. CASE UNCHANGED <<quoteState, holdActive, bookingState>>
  BY <1>4 DEF Unasked
<1> QED BY <1>1, <1>2, <1>3, <1>4, OnlyTimesMove

TimesInv == Typed /\ Reserved /\ Unasked

\* What is in force in the way of a quote, the exclusion constraint sees.
LEMMA FreeIsClear ==
    ASSUME TimesInv, NEW q \in Quotes, NEW gone \in SUBSET Quotes,
           TimeFree(q, gone) \/ holdActive[q]
    PROVE  Times!Clear(q, SlotOf[q], gone)
<1> SUFFICES ASSUME NEW r \in Quotes \ (gone \cup {q}), Standing(r) \in {"held", "booked"}
             PROVE  TimeOf(r) = SlotOf[r] /\ ~Overlap(r, q)
  BY DEF Times!Clear, Times!InForce, Overlap, Meeting
<1>1. holdActive[r] /\ quoteState[r] # "none"
  BY DEF Standing, TimesInv, Reserved, Unasked, Typed, TypeOK
<1>2. ~Overlap(r, q)
  BY <1>1, OverlapSymmetric DEF TimeFree, TimesInv, Reserved
<1> QED BY <1>1, <1>2 DEF TimeOf

\* A quote that is placed has its time in the place of the holds it clears away.
LEMMA PlaceHoldTakes ==
    ASSUME TimesInv, NEW q \in Quotes, quoteState[q] = "none",
           NEW lapsed \in SUBSET {r \in Quotes : quoteState[r] = "held"},
           NEW freed \in SUBSET {r \in Quotes : IsHold(r)},
           PlaceHold(q, lapsed, freed)
    PROVE  Times!TimesNext
<1> USE DEF TimesInv, Typed, TypeOK
<1> DEFINE gone == freed \ {q}
<1>1. ~holdActive[q] /\ bookingState[q] = "none"
  BY DEF Unasked, Reserved, HasBooking
<1>2. \A r \in freed : Standing(r) = "held"
  BY DEF IsHold, Reserved, HasBooking, Standing
<1>3. gone \in SUBSET {r \in Quotes \ {q} : Standing(r) = "held"}
  BY <1>2
<1>4. Times!Clear(q, SlotOf[q], gone)
  <2>1. TimeFree(q, gone)
    BY DEF PlaceHold, TimeFree
  <2> QED BY <2>1, FreeIsClear
<1>5. \A r \in Quotes : Standing(r)' = IF r = q THEN "held"
                                       ELSE IF r \in gone THEN "free" ELSE Standing(r)
  BY <1>1, <1>2 DEF PlaceHold, Standing
<1>6. \A r \in Quotes : TimeOf(r)' = IF r = q THEN SlotOf[q] ELSE TimeOf(r)
  BY DEF PlaceHold, TimeOf
<1> HIDE DEF gone
<1>7. Times!Have(q, SlotOf[q], "held", gone)
  <2>1. [r \in Quotes |-> Standing(r)]' =
            [r \in Quotes |-> IF r = q THEN "held" ELSE IF r \in gone THEN "free"
                              ELSE [l \in Quotes |-> Standing(l)][r]]
    BY <1>5
  <2>2. [r \in Quotes |-> TimeOf(r)]' = [[r \in Quotes |-> TimeOf(r)] EXCEPT ![q] = SlotOf[q]]
    BY <1>6
  <2> QED BY <1>4, <2>1, <2>2 DEF Times!Have
<1>8. SlotOf[q] \in Slots /\ Standing(q) = "free" /\ TimeOf(q) = None
  BY <1>1, ConstantTypes DEF Standing, TimeOf
<1>9. Times!Hold(q, SlotOf[q])
  BY <1>3, <1>7, <1>8 DEF Times!Hold, Times!OtherHolds
<1> QED BY <1>8, <1>9 DEF Times!TimesNext

\* A late payment takes its time up again, or still has it.
LEMMA KeepTimeTakes ==
    ASSUME TimesInv, NEW q \in Quotes, HasTime(q), KeepTime(q), UNCHANGED bookingState
    PROVE  [Times!TimesNext]_(Times!timesVars)
<1> USE DEF TimesInv, Typed, TypeOK
<1>1. /\ bookingState[q] = "none" /\ quoteState[q] # "none"
      /\ holdActive[q] \/ TimeFree(q, {})
  BY DEF HasTime, HoldValid, IsHold, Reclaimable, Reserved, HasBooking
<1>2. \A r \in Quotes : Standing(r)' = IF r = q THEN "held" ELSE Standing(r)
  BY <1>1 DEF KeepTime, Standing
<1>3. \A r \in Quotes : TimeOf(r)' = TimeOf(r)
  BY <1>1 DEF KeepTime, TimeOf
<1>4. CASE holdActive[q]
  <2>1. Standing(q) = "held"
    BY <1>1, <1>4 DEF Standing
  <2> QED BY <1>2, <1>3, <2>1 DEF Times!timesVars
<1>5. CASE ~holdActive[q]
  <2>1. Times!Clear(q, SlotOf[q], {})
    BY <1>1, FreeIsClear
  <2>2. SlotOf[q] \in Slots /\ Standing(q) = "free" /\ TimeOf(q) = SlotOf[q]
    BY <1>1, <1>5, ConstantTypes DEF Standing, TimeOf
  <2>3. Times!Have(q, SlotOf[q], "held", {})
    BY <1>2, <1>3, <2>1, <2>2 DEF Times!Have
  <2>4. Times!Hold(q, SlotOf[q])
    BY <2>2, <2>3 DEF Times!Hold, Times!OtherHolds
  <2> QED BY <2>2, <2>4 DEF Times!TimesNext
<1> QED BY <1>4, <1>5

\* A booking is made at the time of its quote.
LEMMA BookConfirms ==
    ASSUME TimesInv, NEW v \in Verifiers, QuoteOf[job[v]] \in Quotes, Book(v)
    PROVE  Times!TimesNext
<1> DEFINE q == QuoteOf[job[v]]
<1>0. /\ q \in Quotes /\ HasTime(q)
      /\ bookingState' = [bookingState EXCEPT ![q] = "confirmed"]
      /\ quoteState' = [quoteState EXCEPT ![q] = "converted"]
      /\ holdActive' = [holdActive EXCEPT ![q] = TRUE]
  BY DEF Book
<1> HIDE DEF q
<1> USE DEF TimesInv, Typed, TypeOK
<1>1. /\ bookingState[q] = "none" /\ quoteState[q] # "none"
      /\ holdActive[q] \/ TimeFree(q, {})
  BY <1>0 DEF HasTime, HoldValid, IsHold, Reclaimable, Reserved, HasBooking
<1>2. \A r \in Quotes : Standing(r)' = IF r = q THEN "booked" ELSE Standing(r)
  BY <1>0 DEF Standing
<1>3. \A r \in Quotes : TimeOf(r)' = TimeOf(r)
  BY <1>0, <1>1 DEF TimeOf
<1>4. Times!Clear(q, SlotOf[q], {})
  BY <1>0, <1>1, FreeIsClear
<1>5. /\ SlotOf[q] \in Slots /\ Standing(q) \in {"free", "held"}
      /\ TimeOf(q) = SlotOf[q]
  BY <1>0, <1>1, ConstantTypes DEF Standing, TimeOf
<1>6. Times!Have(q, SlotOf[q], "booked", {})
  BY <1>0, <1>2, <1>3, <1>4, <1>5 DEF Times!Have
<1>7. Times!Confirm(q, SlotOf[q])
  BY <1>0, <1>5, <1>6 DEF Times!Confirm
<1> QED BY <1>0, <1>5, <1>7 DEF Times!TimesNext

\* Reading a lapsed quote gives up its hold; cancelling ends a booking.
LEMMA LetGo ==
    ASSUME TimesInv, NEW q \in Quotes, GetQuote(q) \/ CancelBooking(q)
    PROVE  [Times!TimesNext]_(Times!timesVars)
<1> USE DEF TimesInv, Typed, TypeOK
<1>1. CASE GetQuote(q)
  <2>1. bookingState[q] = "none" /\ holdKind[q] = "hold" /\ quoteState[q] = "held"
    BY <1>1 DEF GetQuote, Reserved, HasBooking
  <2>2. \A r \in Quotes : Standing(r)' = IF r = q THEN "free" ELSE Standing(r)
    BY <1>1, <2>1 DEF GetQuote, Standing
  <2>3. \A r \in Quotes : TimeOf(r)' = TimeOf(r)
    BY <1>1, <2>1 DEF GetQuote, TimeOf
  <2>4. CASE holdActive[q]
    <3>1. Standing(q) = "held"
      BY <2>1, <2>4 DEF Standing
    <3>2. Times!GiveUp(q)
      BY <2>2, <2>3, <3>1 DEF Times!GiveUp
    <3> QED BY <3>2 DEF Times!TimesNext
  <2>5. CASE ~holdActive[q]
    <3>1. Standing(q) = "free"
      BY <2>1, <2>5 DEF Standing
    <3> QED BY <2>2, <2>3, <3>1 DEF Times!timesVars
  <2> QED BY <2>4, <2>5
<1>2. CASE CancelBooking(q)
  <2>1. \A r \in Quotes : /\ Standing(r)' = IF r = q THEN "over" ELSE Standing(r)
                          /\ TimeOf(r)' = TimeOf(r)
    BY <1>2 DEF CancelBooking, Standing, TimeOf
  <2>2. Standing(q) = "booked"
    BY <1>2 DEF CancelBooking, Standing
  <2>3. Times!Cancel(q)
    BY <2>1, <2>2 DEF Times!Cancel
  <2> QED BY <2>3 DEF Times!TimesNext
<1> QED BY <1>1, <1>2

LEMMA InitTimes == Init => TimesInv /\ Times!TimesInit
<1> SUFFICES ASSUME Init PROVE TimesInv /\ Times!TimesInit
  OBVIOUS
<1>1. Reserved /\ Unasked
  BY DEF Init, Reserved, HasBooking, Unasked
<1>2. \A q \in Quotes : Standing(q) = "free" /\ TimeOf(q) = None
  BY DEF Init, Standing, TimeOf
<1> QED BY <1>1, <1>2, InitTyped DEF TimesInv, Times!TimesInit

LEMMA TimesStep == TimesInv /\ [Next]_vars => [Times!TimesNext]_(Times!timesVars)
<1> SUFFICES ASSUME TimesInv, [Next]_vars PROVE [Times!TimesNext]_(Times!timesVars)
  OBVIOUS
<1>1. ASSUME NEW q \in Quotes, CreateQuote(q) \/ CreateOfferQuote(q) PROVE Times!TimesNext
  BY <1>1, QuotesPlaced, PlaceHoldTakes
<1>2. ASSUME NEW q \in Quotes, GetQuote(q) \/ CancelBooking(q)
      PROVE  [Times!TimesNext]_(Times!timesVars)
  BY <1>2, LetGo
<1>3. ASSUME NEW v \in Verifiers, RejectPaused(v) \/ RejectOffer(v) \/ Book(v)
      PROVE  [Times!TimesNext]_(Times!timesVars)
  <2>1. QuoteOf[job[v]] \in Quotes
    BY <1>3, ConstantTypes DEF TimesInv, Typed, TypeOK, JobKnown, RejectPaused, RejectOffer, Book
  <2>2. CASE RejectPaused(v) \/ RejectOffer(v)
    BY <2>1, <2>2, KeepTimeTakes DEF RejectPaused, RejectOffer
  <2>3. CASE Book(v)
    BY <2>1, <2>3, BookConfirms
  <2> QED BY <1>3, <2>2, <2>3
<1>4. CASE UNCHANGED <<quoteState, holdActive, bookingState>>
  BY <1>4 DEF Times!timesVars, Standing, TimeOf
<1> QED BY <1>1, <1>2, <1>3, <1>4, OnlyTimesMove DEF TimesInv

\* Conversion implements SellerTimes: every hold, clean-up, late payment, refusal
\* and cancellation is a step that the abstract times permit, or none.
THEOREM ImplementsTimes == Spec => KeepsTimes
<1>1. TimesInv /\ [Next]_vars => TimesInv'
  BY TypeStep, ReservedStep, UnaskedStep DEF TimesInv
<1> HIDE DEF Init, Next, vars, TimesInv, Times!TimesInit, Times!TimesNext, Times!timesVars
<1> QED BY <1>1, InitTimes, TimesStep, PTL DEF Spec, KeepsTimes, Times!TimesSpec

===============================================================================
