--------------------------- MODULE SettlementProofs ---------------------------
(***************************************************************************)
(* That the seller's share of every refund is borne in one way, that Kora  *)
(* pays back one refund of a booking, and that no refund is more than was  *)
(* paid, for any bookings, amounts, retries and limits.                    *)
(***************************************************************************)
EXTENDS Settlement, FiniteSetTheorems, SequenceTheorems, WellFoundedInduction, TLAPS

RefundType == [state : RefundStates, amount : Int, share : Int,
               liability : {"payable", "receivable"}, sent : BOOLEAN,
               tries : Int, auto : Int, counted : BOOLEAN]

RefundsTyped == refunds \in [Bookings -> [Slots -> RefundType]]

LiveSlot(b, i) == refunds[b][i].state \notin {"none", "failed"}

\* The index refunds_one_per_booking.
OneLive == \A b \in Bookings : \A i, j \in Slots : LiveSlot(b, i) /\ LiveSlot(b, j) => i = j

PayoutTyped == payout \in [Bookings -> {"scheduled", "released", "cancelled"}]

\* Before the release every share is to come out of the payout; after it, just
\* those that did.
SharesSettled ==
    \A b \in Bookings, i \in Slots :
        IF payout[b] = "released"
        THEN refunds[b][i].state # "none" =>
                (refunds[b][i].counted <=> refunds[b][i].liability = "payable")
        ELSE refunds[b][i].liability = "payable"

\* What becomes of a refund in one step: it stays, is worked on, or is created.
Stays(b, i) == refunds'[b][i] = refunds[b][i]

WorkedOn(b, i) ==
    /\ refunds[b][i].state # "none" /\ refunds'[b][i].state # "none"
    /\ refunds'[b][i].liability = refunds[b][i].liability
    /\ refunds'[b][i].counted = refunds[b][i].counted
    /\ LiveSlot(b, i)' => LiveSlot(b, i) \/ ~Live(b)

Created(b, i) ==
    /\ refunds[b][i].state = "none" /\ refunds'[b][i].state \in {"queued", "pending_approval"}
    /\ refunds'[b][i].liability = LiabilityOf(b) /\ refunds'[b][i].counted = FALSE
    /\ ~Live(b)

\* One refund changes at most.
OneChange ==
    /\ RefundsTyped'
    /\ \/ refunds' = refunds
       \/ \E b \in Bookings, i \in Slots :
            /\ WorkedOn(b, i) \/ Created(b, i)
            /\ \A c \in Bookings, j \in Slots : c # b \/ j # i => Stays(c, j)

\* Nothing but creations.
OnlyCreated == \A b \in Bookings, i \in Slots : Stays(b, i) \/ Created(b, i)

LEMMA SetOne ==
    ASSUME RefundsTyped, NEW b \in Bookings, NEW i \in Slots, NEW r \in RefundType,
           refunds' = [refunds EXCEPT ![b][i] = r]
    PROVE  /\ RefundsTyped' /\ refunds'[b][i] = r
           /\ \A c \in Bookings, j \in Slots : c # b \/ j # i => Stays(c, j)
<1>1. /\ refunds' = [refunds EXCEPT ![b] = [refunds[b] EXCEPT ![i] = r]]
      /\ refunds[b] \in [Slots -> RefundType]
  BY DEF RefundsTyped
<1>2. refunds'[b] = [refunds[b] EXCEPT ![i] = r]
      /\ \A c \in Bookings \ {b} : refunds'[c] = refunds[c]
  BY <1>1 DEF RefundsTyped
<1>3. refunds'[b] \in [Slots -> RefundType] /\ refunds'[b][i] = r
      /\ \A j \in Slots \ {i} : refunds'[b][j] = refunds[b][j]
  BY <1>1, <1>2
<1> QED BY <1>1, <1>2, <1>3 DEF RefundsTyped, Stays

\* A refund is worked on.
LEMMA SetWorked ==
    ASSUME RefundsTyped, NEW b \in Bookings, NEW i \in Slots, NEW r \in RefundType,
           refunds[b][i].state # "none", r.state # "none",
           r.liability = refunds[b][i].liability, r.counted = refunds[b][i].counted,
           r.state # "failed" => LiveSlot(b, i) \/ ~Live(b),
           refunds' = [refunds EXCEPT ![b][i] = r]
    PROVE  OneChange
<1>1. /\ RefundsTyped' /\ refunds'[b][i] = r
      /\ \A c \in Bookings, j \in Slots : c # b \/ j # i => Stays(c, j)
  BY SetOne
<1>2. WorkedOn(b, i)
  BY <1>1 DEF WorkedOn, LiveSlot
<1> QED BY <1>1, <1>2 DEF OneChange

\* What the worker, the operator and the automatic retry write: the state, whether it
\* was sent, the attempts.
Rewritten(r, old) ==
    /\ r \in RefundType
    /\ r.liability = old.liability /\ r.counted = old.counted

LEMMA WriteState ==
    ASSUME RefundsTyped, NEW b \in Bookings, NEW i \in Slots, NEW st \in RefundStates
    PROVE  LET r == [refunds[b][i] EXCEPT !.state = st] IN
           Rewritten(r, refunds[b][i]) /\ r.state = st
<1>1. refunds[b][i] \in RefundType
  BY DEF RefundsTyped
<1> QED BY <1>1 DEF RefundType, Rewritten

LEMMA WriteSent ==
    ASSUME RefundsTyped, NEW b \in Bookings, NEW i \in Slots, NEW st \in RefundStates
    PROVE  LET r == [refunds[b][i] EXCEPT !.state = st, !.sent = TRUE] IN
           Rewritten(r, refunds[b][i]) /\ r.state = st
<1>1. refunds[b][i] \in RefundType
  BY DEF RefundsTyped
<1> QED BY <1>1 DEF RefundType, Rewritten

\* A refund that fails, or is worked on, while it is live.
LEMMA SetLive ==
    ASSUME RefundsTyped, NEW b \in Bookings, NEW i \in Slots, NEW r,
           Rewritten(r, refunds[b][i]), refunds[b][i].state # "none", r.state # "none",
           r.state # "failed" => LiveSlot(b, i) \/ ~Live(b),
           SetRefund(b, i, r)
    PROVE  OneChange /\ refunds'[b][i] = r
<1>1. r \in RefundType /\ refunds' = [refunds EXCEPT ![b][i] = r]
  BY DEF SetRefund, Rewritten
<1>2. refunds'[b][i] = r
  BY <1>1, SetOne
<1>3. OneChange
  BY <1>1, SetWorked DEF Rewritten
<1> QED BY <1>2, <1>3

LEMMA CreateRefundChange ==
    ASSUME RefundsTyped, NEW b \in Bookings, NEW amount \in Int, NEW reason,
           CreateRefund(b, amount, reason)
    PROVE  OneChange /\ OnlyCreated
<1>1. PICK i \in Slots, st \in {"queued", "pending_approval"} :
        /\ NextSlot(b, i)
        /\ refunds' = [refunds EXCEPT ![b][i] =
                [NoRefund EXCEPT !.state = st, !.amount = WithFee(amount, reason),
                                 !.share = SellerShare(amount),
                                 !.liability = LiabilityOf(b)]]
  <2>1. CASE automatic
    BY <2>1 DEF CreateRefund
  <2>2. CASE ~automatic
    BY <2>2 DEF CreateRefund
  <2> QED BY <2>1, <2>2
<1> DEFINE r == [NoRefund EXCEPT !.state = st, !.amount = WithFee(amount, reason),
                                 !.share = SellerShare(amount),
                                 !.liability = LiabilityOf(b)]
<1>2. WithFee(amount, reason) \in Int /\ SellerShare(amount) \in Int
      /\ LiabilityOf(b) \in {"payable", "receivable"}
  <2>1. (amount * Deduction) \div Price \in Int
    BY SettlementConstants
  <2>2. WithFee(amount, reason) \in {amount, amount + Fee}
    BY DEF WithFee
  <2> QED BY <2>1, <2>2, SettlementConstants DEF SellerShare, PlatformShare, LiabilityOf
<1>3. /\ r \in RefundType /\ r.state \in {"queued", "pending_approval"}
      /\ r.liability = LiabilityOf(b) /\ r.counted = FALSE
  <2>1. NoRefund \in RefundType /\ NoRefund.counted = FALSE
    BY DEF NoRefund, RefundType, RefundStates
  <2>2. st \in RefundStates
    BY DEF RefundStates
  <2> QED BY <1>2, <2>1, <2>2 DEF RefundType
<1>4. refunds' = [refunds EXCEPT ![b][i] = r]
  BY <1>1
<1> HIDE DEF r
<1>5. /\ RefundsTyped' /\ refunds'[b][i] = r
      /\ \A c \in Bookings, j \in Slots : c # b \/ j # i => Stays(c, j)
  BY <1>3, <1>4, SetOne
<1>6. Created(b, i)
  BY <1>1, <1>3, <1>5 DEF Created, NextSlot, CreateRefund
<1> QED BY <1>5, <1>6 DEF OneChange, OnlyCreated

LEMMA NoChange ==
    ASSUME RefundsTyped, UNCHANGED refunds
    PROVE  OneChange /\ OnlyCreated
BY DEF OneChange, OnlyCreated, Stays, RefundsTyped

LEMMA CreateIfPaidChange ==
    ASSUME RefundsTyped, NEW b \in Bookings, NEW amount \in Int, NEW reason,
           CreateRefundIfPaid(b, amount, reason)
    PROVE  OneChange /\ OnlyCreated
BY CreateRefundChange, NoChange DEF CreateRefundIfPaid

\* The statements of the worker and of finalizeRefund.
LEMMA StatementChange ==
    ASSUME RefundsTyped, NEW b \in Bookings, NEW i \in Slots, refunds[b][i].state # "none",
           \/ MarkRefundFailed(b, i) \/ MarkRefundSubmitted(b, i)
           \/ RetryRefund(b, i) \/ FinalizeRefund(b, i)
    PROVE  OneChange
<1> DEFINE old == refunds[b][i]
<1>1. CASE UNCHANGED refunds
  BY <1>1, NoChange
<1>2. CASE SetRefund(b, i, [old EXCEPT !.state = "failed"])
  <2>1. /\ Rewritten([old EXCEPT !.state = "failed"], old)
        /\ [old EXCEPT !.state = "failed"].state = "failed"
    BY WriteState DEF RefundStates
  <2> QED BY <1>2, <2>1, SetLive
<1>3. CASE old.state \in {"queued", "submitted"}
           /\ SetRefund(b, i, [old EXCEPT !.state = "submitted", !.sent = TRUE])
  <2>1. /\ Rewritten([old EXCEPT !.state = "submitted", !.sent = TRUE], old)
        /\ [old EXCEPT !.state = "submitted", !.sent = TRUE].state = "submitted"
    BY WriteSent DEF RefundStates
  <2>2. LiveSlot(b, i)
    BY <1>3 DEF LiveSlot
  <2> QED BY <1>3, <2>1, <2>2, SetLive
<1>4. CASE ~(old.state = "failed" /\ Live(b))
           /\ SetRefund(b, i, [old EXCEPT !.state = "processed"])
  <2>1. /\ Rewritten([old EXCEPT !.state = "processed"], old)
        /\ [old EXCEPT !.state = "processed"].state = "processed"
    BY WriteState DEF RefundStates
  <2>2. LiveSlot(b, i) \/ ~Live(b)
    BY <1>4 DEF LiveSlot
  <2> QED BY <1>4, <2>1, <2>2, SetLive
<1> QED BY <1>1, <1>2, <1>3, <1>4 DEF MarkRefundFailed, MarkRefundSubmitted, RetryRefund,
                                       FinalizeRefund

-------------------------------------------------------------------------------
(* What the worker and the operator know. *)

WorkerType == [pc : {"idle", "claimed", "missing", "answered", "finalizing", "releasing"},
               booking : Bookings \cup {None}, slot : Slots, told : KoraStates]

KoraTyped == kora \in [Bookings -> [Slots -> KoraStates]]

HasRefund(w) ==
    worker[w].pc # "idle" =>
        /\ worker[w].booking \in Bookings
        /\ worker[w].pc # "releasing" => refunds[worker[w].booking][worker[w].slot].state # "none"

AgentsTyped ==
    /\ KoraTyped
    /\ worker \in [Workers -> WorkerType]
    /\ operator \in [booking : Bookings \cup {None}, slot : Slots]

\* Whoever works on a refund works on one there is.
AgentsKnow ==
    /\ \A w \in Workers : HasRefund(w)
    /\ operator.booking # None => refunds[operator.booking][operator.slot].state # "none"

WorkInv == RefundsTyped /\ PayoutTyped /\ AgentsTyped /\ AgentsKnow

\* A payout that is being released is locked by one worker, scheduled still, and no
\* refund of its booking has failed.
ReleaseHeld ==
    \A w \in Workers :
        worker[w].pc = "releasing" =>
            /\ payout[worker[w].booking] = "scheduled"
            /\ \A i \in Slots : refunds[worker[w].booking][i].state # "failed"
            /\ \A v \in Workers :
                worker[v].pc = "releasing" /\ worker[v].booking = worker[w].booking => v = w

ShareInv == SharesSettled /\ ReleaseHeld

LEMMA FirstSlot == 1 \in Slots
BY SettlementConstants DEF Slots

LEMMA RestingTyped == Resting \in WorkerType /\ Resting.pc = "idle"
BY FirstSlot DEF Resting, WorkerType, KoraStates

\* No refund is forgotten.
LEMMA StayMade ==
    ASSUME OneChange, NEW b \in Bookings, NEW i \in Slots
    PROVE  refunds[b][i].state # "none" => refunds'[b][i].state # "none"
BY DEF OneChange, WorkedOn, Created, Stays

LEMMA ReleaseMakesNothing ==
    ASSUME RefundsTyped, NEW w \in Workers, NEW b \in Bookings, b = worker[w].booking,
           ReleasePayout(w)
    PROVE  /\ RefundsTyped'
           /\ \A c \in Bookings, i \in Slots :
                /\ refunds'[c][i].state = refunds[c][i].state
                /\ refunds'[c][i].liability = refunds[c][i].liability
                /\ c # b => refunds'[c][i].counted = refunds[c][i].counted
                /\ c = b => (refunds'[c][i].counted <=> Deducted(b, i))
<1>1. refunds' = [refunds EXCEPT ![b] =
            [i \in Slots |-> [refunds[b][i] EXCEPT
                                !.counted = i \in {j \in Slots : Deducted(b, j)}]]]
  BY DEF ReleasePayout
<1>2. ASSUME NEW i \in Slots
      PROVE  /\ refunds'[b][i] \in RefundType
             /\ refunds'[b][i].state = refunds[b][i].state
             /\ refunds'[b][i].liability = refunds[b][i].liability
             /\ refunds'[b][i].counted <=> Deducted(b, i)
  <2>1. refunds[b][i] \in RefundType
    BY DEF RefundsTyped
  <2>2. refunds'[b][i] = [refunds[b][i] EXCEPT !.counted = i \in {j \in Slots : Deducted(b, j)}]
    BY <1>1 DEF RefundsTyped
  <2> DEFINE d == i \in {j \in Slots : Deducted(b, j)}
  <2>3. d <=> Deducted(b, i)
    OBVIOUS
  <2>4. refunds'[b][i] = [refunds[b][i] EXCEPT !.counted = d] /\ d \in BOOLEAN
    BY <2>2
  <2> HIDE DEF d
  <2>5. /\ refunds'[b][i] \in RefundType
        /\ refunds'[b][i].state = refunds[b][i].state
        /\ refunds'[b][i].liability = refunds[b][i].liability
        /\ refunds'[b][i].counted = d
    BY <2>1, <2>4 DEF RefundType
  <2> QED BY <2>3, <2>5
<1>3. \A c \in Bookings \ {b} : refunds'[c] = refunds[c]
  BY <1>1 DEF RefundsTyped
<1>4. RefundsTyped'
  <2>1. refunds'[b] = [i \in Slots |-> refunds'[b][i]]
    BY <1>1 DEF RefundsTyped
  <2>2. refunds'[b] \in [Slots -> RefundType]
    BY <1>2, <2>1
  <2>3. refunds' = [c \in Bookings |-> refunds'[c]]
    BY <1>1 DEF RefundsTyped
  <2> QED BY <1>3, <2>2, <2>3 DEF RefundsTyped
<1> QED BY <1>2, <1>3, <1>4

LEMMA WorkInitInv == Init => WorkInv /\ ShareInv
<1> SUFFICES ASSUME Init PROVE WorkInv /\ ShareInv
  OBVIOUS
<1>1. /\ refunds = [b \in Bookings |-> [i \in Slots |-> NoRefund]]
      /\ kora = [b \in Bookings |-> [i \in Slots |-> "none"]]
      /\ payout = [b \in Bookings |-> "scheduled"]
      /\ worker = [w \in Workers |-> Resting]
      /\ operator = [booking |-> None, slot |-> 1]
  BY DEF Init
<1>2. NoRefund \in RefundType /\ NoRefund.liability = "payable"
  BY DEF NoRefund, RefundType, RefundStates
<1>3. RefundsTyped /\ PayoutTyped /\ SharesSettled
  BY <1>1, <1>2 DEF RefundsTyped, PayoutTyped, SharesSettled
<1>4. AgentsTyped
  BY <1>1, RestingTyped, FirstSlot DEF AgentsTyped, KoraTyped, KoraStates
<1>5. AgentsKnow
  BY <1>1, RestingTyped DEF AgentsKnow, HasRefund
<1>6. ReleaseHeld
  BY <1>1, RestingTyped DEF ReleaseHeld
<1> QED BY <1>3, <1>4, <1>5, <1>6 DEF WorkInv, ShareInv

-------------------------------------------------------------------------------
(* Which actions change refunds, and how. *)

LEMMA AmountsTyped == Amounts \cup {0, Price} \subseteq Int
BY SettlementConstants DEF Amounts

LEMMA ParticipantsChange ==
    ASSUME RefundsTyped, NEW b \in Bookings, Participants(b)
    PROVE  OneChange /\ OnlyCreated
<1>1. ASSUME NEW role \in Roles, CancelBooking(b, role) PROVE OneChange /\ OnlyCreated
  BY <1>1, AmountsTyped, CreateRefundChange, NoChange DEF CancelBooking
<1>2. ASSUME NEW amount \in Amounts, SellerRefunds(b, amount) PROVE OneChange /\ OnlyCreated
  BY <1>2, AmountsTyped, CreateIfPaidChange, NoChange DEF SellerRefunds, SettleProblem
<1>3. ASSUME NEW role \in Roles,
             CompleteBooking(b, role) \/ ReportBookingIssue(b, role) \/ ReportNoShow(b, role)
      PROVE  OneChange /\ OnlyCreated
  BY <1>3, NoChange DEF CompleteBooking, ReportBookingIssue, ReportNoShow, money
<1>4. CASE \/ TimePasses(b) \/ Reschedule(b) \/ SellerDisagrees(b)
           \/ DisputeNoShow(b) \/ NoShowLapses(b)
  BY <1>4, NoChange DEF TimePasses, Reschedule, SellerDisagrees, DisputeNoShow,
                        NoShowLapses, money
<1> QED BY <1>1, <1>2, <1>3, <1>4 DEF Participants

\* Whoever is named, also nobody: then nothing is created.
LEMMA NoShowChange ==
    ASSUME RefundsTyped, NEW b, NEW who, NEW outcome, SettleNoShow(b, who, outcome)
    PROVE  OneChange /\ OnlyCreated
<1>1. UNCHANGED refunds \/ CreateRefundIfPaid(b, Price, "seller_no_show")
  BY DEF SettleNoShow
<1>2. CASE UNCHANGED refunds
  BY <1>2, NoChange
<1>3. CASE b \in Bookings /\ CreateRefundIfPaid(b, Price, "seller_no_show")
  BY <1>3, AmountsTyped, CreateIfPaidChange
<1>4. CASE b \notin Bookings /\ CreateRefundIfPaid(b, Price, "seller_no_show")
  <2>1. UNCHANGED refunds \/ \E i \in Slots : \E r : refunds' = [refunds EXCEPT ![b] = r]
    BY <1>4 DEF CreateRefundIfPaid, CreateRefund
  <2>2. UNCHANGED refunds
    BY <1>4, <2>1 DEF RefundsTyped
  <2> QED BY <2>2, NoChange
<1> QED BY <1>1, <1>2, <1>3, <1>4

LEMMA OperatorChange ==
    ASSUME RefundsTyped, NEW b \in Bookings, Operator(b)
    PROVE  OneChange
<1>1. ASSUME NEW amount \in Amounts, OpsCreateRefund(b, amount) PROVE OneChange
  BY <1>1, AmountsTyped, CreateRefundChange DEF OpsCreateRefund
<1>2. ASSUME NEW amount \in Amounts \cup {0}, OpsResolveBookingIssue(b, amount) PROVE OneChange
  BY <1>2, AmountsTyped, CreateRefundChange, NoChange DEF OpsResolveBookingIssue
<1>3. ASSUME NEW who, NEW outcome, OpsResolveNoShow(b, who, outcome) PROVE OneChange
  BY <1>3, NoShowChange DEF OpsResolveNoShow
<1>4. ASSUME NEW i \in Slots, OpsApprove(b, i) PROVE OneChange
  <2>1. /\ refunds[b][i].state = "pending_approval"
        /\ SetRefund(b, i, [refunds[b][i] EXCEPT !.state = "queued"])
    BY <1>4 DEF OpsApprove
  <2>2. LET r == [refunds[b][i] EXCEPT !.state = "queued"] IN
        Rewritten(r, refunds[b][i]) /\ r.state = "queued"
    BY WriteState DEF RefundStates
  <2> QED BY <2>1, <2>2, SetLive DEF LiveSlot
<1>5. ASSUME NEW i \in Slots, OpsRetry(b, i) PROVE OneChange
  <2> DEFINE n == 0
             r == [refunds[b][i] EXCEPT !.state = "queued", !.tries = n]
  <2>1. refunds[b][i].state = "failed" /\ ~Live(b) /\ SetRefund(b, i, r)
    BY <1>5 DEF OpsRetry, Requeue
  <2>2. refunds[b][i] \in RefundType /\ n \in Int
    BY DEF RefundsTyped
  <2> HIDE DEF n
  <2>3. Rewritten(r, refunds[b][i]) /\ r.state = "queued"
    BY <2>2 DEF RefundType, RefundStates, Rewritten
  <2> HIDE DEF r
  <2> QED BY <2>1, <2>3, SetLive
<1>6. ASSUME NEW i \in Slots, OpsRecord(b, i) PROVE OneChange
  <2>1. /\ refunds[b][i].state # "none" /\ (LiveSlot(b, i) \/ ~Live(b))
        /\ SetRefund(b, i, [refunds[b][i] EXCEPT !.state = "submitted"])
    BY <1>6 DEF OpsRecord, Recordable, LiveSlot
  <2>2. LET r == [refunds[b][i] EXCEPT !.state = "submitted"] IN
        Rewritten(r, refunds[b][i]) /\ r.state = "submitted"
    BY WriteState DEF RefundStates
  <2> QED BY <2>1, <2>2, SetLive
<1> QED BY <1>1, <1>2, <1>3, <1>4, <1>5, <1>6 DEF Operator

LEMMA RetryChange ==
    ASSUME RefundsTyped, NEW b \in Bookings, NEW i \in Slots, AutoRetryFailures(b, i)
    PROVE  OneChange
<1> DEFINE n == 0
           m == refunds[b][i].auto + 1
           r == [refunds[b][i] EXCEPT !.state = "queued", !.tries = n, !.auto = m]
<1>1. refunds[b][i].state = "failed" /\ ~Live(b) /\ SetRefund(b, i, r)
  BY DEF AutoRetryFailures, Requeue
<1>2. refunds[b][i] \in RefundType /\ n \in Int
  BY DEF RefundsTyped
<1>3. m \in Int
  BY <1>2 DEF RefundType
<1> HIDE DEF n, m
<1>4. Rewritten(r, refunds[b][i]) /\ r.state = "queued"
  BY <1>2, <1>3 DEF RefundType, RefundStates, Rewritten
<1> HIDE DEF r
<1> QED BY <1>1, <1>4, SetLive

\* What a worker does to the refund it has taken up, and to itself.
LEMMA ProceedChange ==
    ASSUME RefundsTyped, AgentsTyped, AgentsKnow, NEW w \in Workers,
           ~ReleasePayout(w), Proceed(w) \/ Crash(w)
    PROVE  OneChange
<1> DEFINE b == worker[w].booking
           i == worker[w].slot
<1>0. worker[w] \in WorkerType
  BY DEF AgentsTyped
<1>1. /\ worker[w].pc # "idle" => b \in Bookings /\ i \in Slots
      /\ worker[w].pc \notin {"idle", "releasing"} => refunds[b][i].state # "none"
  BY <1>0 DEF AgentsKnow, HasRefund, WorkerType
<1> HIDE DEF b, i
<1>2. ASSUME QueryRefund(w) \/ SendRefund(w) \/ RecordAnswer(w) \/ WorkerFinalizes(w)
      PROVE  OneChange
  <2>1. worker[w].pc \notin {"idle", "releasing"}
    BY <1>2 DEF QueryRefund, SendRefund, RecordAnswer, WorkerFinalizes
  <2>2. \/ UNCHANGED refunds \/ MarkRefundFailed(b, i) \/ MarkRefundSubmitted(b, i)
        \/ RetryRefund(b, i) \/ FinalizeRefund(b, i)
    BY <1>2 DEF QueryRefund, SendRefund, RecordAnswer, WorkerFinalizes, b, i
  <2> QED BY <1>1, <2>1, <2>2, NoChange, StatementChange
<1>3. ASSUME NEW c \in Bookings, SettleUnanswered(w, c) \/ PassOver(w, c) PROVE OneChange
  BY <1>3, AmountsTyped, CreateIfPaidChange, NoChange
     DEF SettleUnanswered, SettleProblem, PassOver, money
<1>4. CASE Crash(w)
  BY <1>4, NoChange DEF Crash, money
<1> QED BY <1>2, <1>3, <1>4 DEF Proceed

LEMMA ClaimChange ==
    ASSUME RefundsTyped, NEW w \in Workers, NEW b \in Bookings, NEW i \in Slots,
           ClaimDueRefunds(w, b, i)
    PROVE  /\ OneChange
           /\ \A c \in Bookings, j \in Slots : refunds'[c][j].state = refunds[c][j].state
<1>1. refunds[b][i] \in RefundType /\ Due(b, i)
  BY DEF RefundsTyped, ClaimDueRefunds
<1> DEFINE n == IF refunds[b][i].tries < MaxTries THEN refunds[b][i].tries + 1
                ELSE refunds[b][i].tries
           r == [refunds[b][i] EXCEPT !.tries = n]
<1>2. n \in Int
  BY <1>1 DEF RefundType
<1>4. SetRefund(b, i, r)
  BY DEF ClaimDueRefunds
<1> HIDE DEF n
<1>3. Rewritten(r, refunds[b][i]) /\ r.state = refunds[b][i].state
  BY <1>1, <1>2 DEF RefundType, Rewritten
<1> HIDE DEF r
<1>5. OneChange /\ refunds'[b][i] = r
  BY <1>1, <1>3, <1>4, SetLive DEF Due, LiveSlot
<1>6. \A c \in Bookings, j \in Slots : c # b \/ j # i => Stays(c, j)
  BY <1>3, <1>4, SetOne DEF SetRefund, Rewritten
<1> QED BY <1>3, <1>5, <1>6 DEF Stays

LEMMA FinalizeChange ==
    ASSUME RefundsTyped, AgentsTyped, AgentsKnow, OpsFinalize
    PROVE  OneChange
<1>1. /\ operator.booking \in Bookings /\ operator.slot \in Slots
      /\ refunds[operator.booking][operator.slot].state # "none"
      /\ FinalizeRefund(operator.booking, operator.slot)
  BY DEF AgentsTyped, AgentsKnow, OpsFinalize
<1> QED BY <1>1, StatementChange

\* A step creates one refund, works on one, or releases a payout.
LEMMA NextChange ==
    ASSUME WorkInv, [Next]_vars
    PROVE  \/ OneChange /\ UNCHANGED payout
           \/ \E w \in Workers : ReleasePayout(w)
<1>0. RefundsTyped /\ AgentsTyped /\ AgentsKnow
  BY DEF WorkInv
<1>1. CASE UNCHANGED vars
  BY <1>0, <1>1, NoChange DEF vars, money
<1>2. CASE SetAutomatic \/ OpsStops
  BY <1>0, <1>2, NoChange DEF SetAutomatic, OpsStops, money
<1>3. CASE OpsFinalize
  BY <1>0, <1>3, FinalizeChange DEF OpsFinalize
<1>4. ASSUME NEW b \in Bookings, Participants(b) PROVE OneChange /\ UNCHANGED payout
  <2>1. UNCHANGED payout
    BY <1>4 DEF Participants, CancelBooking, SellerRefunds, SettleProblem, CompleteBooking,
                ReportBookingIssue, ReportNoShow, TimePasses, Reschedule, SellerDisagrees,
                DisputeNoShow, NoShowLapses, money
  <2> QED BY <1>0, <1>4, <2>1, ParticipantsChange
<1>5. ASSUME NEW b \in Bookings, Operator(b) PROVE OneChange /\ UNCHANGED payout
  <2>1. UNCHANGED payout
    BY <1>5 DEF Operator, OpsCreateRefund, OpsResolveBookingIssue, OpsResolveNoShow,
                SettleNoShow, OpsApprove, OpsRetry, Requeue, OpsRecord
  <2> QED BY <1>0, <1>5, <2>1, OperatorChange
<1>6. ASSUME NEW b \in Bookings, NEW i \in Slots, AutoRetryFailures(b, i) \/ KoraSettles(b, i)
      PROVE  OneChange /\ UNCHANGED payout
  BY <1>0, <1>6, RetryChange, NoChange DEF AutoRetryFailures, Requeue, KoraSettles
<1>7. ASSUME NEW w \in Workers, Worker(w), ~ReleasePayout(w)
      PROVE  OneChange /\ UNCHANGED payout
  <2>1. CASE ListUnanswered(w)
    BY <1>0, <2>1, NoChange DEF ListUnanswered, money
  <2>2. CASE ResolveNoShows(w)
    <3>1. SettleNoShow(Head(overdue), absent[Head(overdue)], "accepted")
      BY <2>2 DEF ResolveNoShows
    <3>2. OneChange
      BY <1>0, <3>1, NoShowChange
    <3>3. UNCHANGED payout
      BY <3>1 DEF SettleNoShow
    <3> QED BY <3>2, <3>3
  <2>3. CASE Proceed(w) \/ Crash(w)
    <3>1. UNCHANGED payout
      BY <1>7, <2>3 DEF Proceed, Crash, QueryRefund, SendRefund, RecordAnswer, WorkerFinalizes,
                  SettleUnanswered, SettleProblem, PassOver, money
    <3> QED BY <1>0, <1>7, <2>3, <3>1, ProceedChange
  <2>5. ASSUME NEW b \in Bookings, LockPayout(w, b) PROVE OneChange /\ UNCHANGED payout
    BY <1>0, <2>5, NoChange DEF LockPayout, money
  <2>4. ASSUME NEW b \in Bookings, NEW i \in Slots, ClaimDueRefunds(w, b, i)
        PROVE  OneChange /\ UNCHANGED payout
    BY <1>0, <2>4, ClaimChange DEF ClaimDueRefunds
  <2> QED BY <1>7, <2>1, <2>2, <2>3, <2>4, <2>5 DEF Worker
<1> QED BY <1>1, <1>2, <1>3, <1>4, <1>5, <1>6, <1>7 DEF Next

\* What is locked is a booking's.
LEMMA ReleasedBooking ==
    ASSUME WorkInv, NEW w \in Workers, ReleasePayout(w)
    PROVE  worker[w].booking \in Bookings /\ worker[w].pc = "releasing"
BY DEF WorkInv, AgentsKnow, HasRefund, ReleasePayout

-------------------------------------------------------------------------------
(* Shares. *)

LEMMA OneChangeSettled ==
    ASSUME SharesSettled, PayoutTyped, OneChange, UNCHANGED payout
    PROVE  SharesSettled'
<1> SUFFICES ASSUME NEW b \in Bookings, NEW i \in Slots
             PROVE  IF payout[b] = "released"
                    THEN refunds'[b][i].state # "none" =>
                            (refunds'[b][i].counted <=> refunds'[b][i].liability = "payable")
                    ELSE refunds'[b][i].liability = "payable"
  BY DEF SharesSettled
<1>1. Stays(b, i) \/ WorkedOn(b, i) \/ Created(b, i)
  BY DEF OneChange, Stays
<1>2. CASE Stays(b, i)
  BY <1>2 DEF Stays, SharesSettled
<1>3. CASE WorkedOn(b, i)
  BY <1>3 DEF WorkedOn, SharesSettled
<1>4. CASE Created(b, i)
  BY <1>4 DEF Created, LiabilityOf
<1> QED BY <1>1, <1>2, <1>3, <1>4

\* What is released has no failed refund, so that all there are were deducted.
LEMMA ReleaseSettled ==
    ASSUME WorkInv, ShareInv, NEW w \in Workers, ReleasePayout(w)
    PROVE  SharesSettled'
<1> DEFINE b == worker[w].booking
<1>0. RefundsTyped /\ PayoutTyped /\ b \in Bookings /\ worker[w].pc = "releasing"
  BY ReleasedBooking DEF WorkInv
<1>1. /\ payout[b] = "scheduled" /\ \A i \in Slots : refunds[b][i].state # "failed"
      /\ \E x \in {"cancelled", "released"} : payout' = [payout EXCEPT ![b] = x]
  BY <1>0 DEF ShareInv, ReleaseHeld, ReleasePayout
<1>2. \A c \in Bookings \ {b} : payout'[c] = payout[c]
  BY <1>0, <1>1 DEF PayoutTyped
<1> HIDE DEF b
<1>3. ASSUME NEW c \in Bookings, NEW i \in Slots
      PROVE  IF payout'[c] = "released"
             THEN refunds'[c][i].state # "none" =>
                     (refunds'[c][i].counted <=> refunds'[c][i].liability = "payable")
             ELSE refunds'[c][i].liability = "payable"
  <2>0. /\ refunds'[c][i].state = refunds[c][i].state
        /\ refunds'[c][i].liability = refunds[c][i].liability
        /\ c # b => refunds'[c][i].counted = refunds[c][i].counted
        /\ c = b => (refunds'[c][i].counted <=> Deducted(b, i))
    BY <1>0, ReleaseMakesNothing DEF b
  <2>1. CASE c = b
    <3>1. refunds[b][i].liability = "payable" /\ refunds[b][i].state # "failed"
      BY <1>0, <1>1 DEF ShareInv, SharesSettled
    <3>2. /\ refunds'[b][i].liability = "payable" /\ refunds'[b][i].state = refunds[b][i].state
          /\ refunds'[b][i].counted <=> Deducted(b, i)
      BY <2>0, <2>1, <3>1
    <3>3. refunds[b][i].state # "none" => Deducted(b, i)
      BY <3>1 DEF Deducted
    <3> QED BY <2>1, <3>2, <3>3
  <2>2. CASE c # b
    BY <1>2, <2>0, <2>2 DEF ShareInv, SharesSettled
  <2> QED BY <2>1, <2>2
<1> QED BY <1>3 DEF SharesSettled

\* The agents.
LEMMA AgentStep ==
    ASSUME WorkInv, [Next]_vars
    PROVE  AgentsTyped' /\ AgentsKnow'
<1>0. RefundsTyped /\ AgentsTyped /\ AgentsKnow
  BY DEF WorkInv
<1>1. \A b \in Bookings, i \in Slots :
        refunds[b][i].state # "none" => refunds'[b][i].state # "none"
  <2>1. ASSUME NEW w \in Workers, ReleasePayout(w), NEW b \in Bookings, NEW i \in Slots
        PROVE  refunds'[b][i].state = refunds[b][i].state
    BY <1>0, <2>1, ReleasedBooking, ReleaseMakesNothing
  <2> QED BY <2>1, NextChange, StayMade
<1>2. ASSUME NEW w \in Workers, worker'[w] = worker[w] PROVE HasRefund(w)'
  BY <1>0, <1>1, <1>2 DEF AgentsTyped, AgentsKnow, HasRefund, WorkerType
<1>3. ASSUME UNCHANGED operator
      PROVE  operator'.booking # None =>
                refunds'[operator'.booking][operator'.slot].state # "none"
  BY <1>0, <1>1, <1>3 DEF AgentsTyped, AgentsKnow
<1>4. ASSUME UNCHANGED <<kora, worker, operator>> PROVE AgentsTyped' /\ AgentsKnow'
  BY <1>0, <1>2, <1>3, <1>4 DEF AgentsTyped, AgentsKnow, KoraTyped
<1>5. CASE OpsFinalize \/ OpsStops
  <2>1. UNCHANGED <<kora, worker>> /\ operator' = [booking |-> None, slot |-> 1]
    BY <1>5 DEF OpsFinalize, OpsStops, money
  <2> QED BY <1>0, <1>2, <2>1, FirstSlot DEF AgentsTyped, AgentsKnow, KoraTyped
<1>6. ASSUME NEW b \in Bookings, NEW i \in Slots, OpsRecord(b, i)
      PROVE  AgentsTyped' /\ AgentsKnow'
  <2>1. UNCHANGED <<kora, worker>> /\ operator' = [booking |-> b, slot |-> i]
        /\ refunds[b][i].state # "none"
    BY <1>6 DEF OpsRecord, Recordable
  <2> QED BY <1>0, <1>1, <1>2, <2>1 DEF AgentsTyped, AgentsKnow, KoraTyped
<1>7. ASSUME NEW w \in Workers, NEW x \in WorkerType, worker' = [worker EXCEPT ![w] = x],
             KoraTyped', UNCHANGED operator,
             x.pc # "idle" => x.booking \in Bookings,
             x.pc \notin {"idle", "releasing"} => refunds[x.booking][x.slot].state # "none"
      PROVE  AgentsTyped' /\ AgentsKnow'
  <2>1. /\ worker' \in [Workers -> WorkerType] /\ worker'[w] = x
        /\ \A v \in Workers \ {w} : worker'[v] = worker[v]
    BY <1>0, <1>7 DEF AgentsTyped
  <2>2. HasRefund(w)'
    BY <1>1, <1>7, <2>1 DEF HasRefund, WorkerType
  <2> QED BY <1>0, <1>2, <1>3, <1>7, <2>1, <2>2 DEF AgentsTyped, AgentsKnow
<1>8. ASSUME NEW b \in Bookings, NEW i \in Slots, NEW st \in KoraStates,
             kora' = [kora EXCEPT ![b][i] = st]
      PROVE  KoraTyped'
  <2>1. kora[b] \in [Slots -> KoraStates] /\ kora' = [kora EXCEPT ![b] = [kora[b] EXCEPT ![i] = st]]
    BY <1>0, <1>8 DEF AgentsTyped, KoraTyped
  <2> QED BY <1>0, <2>1 DEF AgentsTyped, KoraTyped
<1>9. ASSUME NEW w \in Workers, NEW pc \in {"claimed", "missing", "answered", "finalizing"},
             NEW told \in KoraStates, Move(w, pc, told),
             worker[w].pc \notin {"idle", "releasing"},
             KoraTyped', UNCHANGED operator
      PROVE  AgentsTyped' /\ AgentsKnow'
  <2> DEFINE x == [worker[w] EXCEPT !.pc = pc, !.told = told]
  <2>1. worker[w] \in WorkerType /\ worker' = [worker EXCEPT ![w] = x]
    BY <1>0, <1>9 DEF AgentsTyped, Move
  <2>2. x \in WorkerType /\ x.booking = worker[w].booking /\ x.slot = worker[w].slot
    BY <2>1 DEF WorkerType
  <2>3. worker[w].booking \in Bookings
        /\ refunds[worker[w].booking][worker[w].slot].state # "none"
    BY <1>0, <1>9 DEF AgentsKnow, HasRefund
  <2> HIDE DEF x
  <2> QED BY <1>7, <1>9, <2>1, <2>2, <2>3
<1>10. ASSUME NEW w \in Workers, Rest(w), KoraTyped', UNCHANGED operator
       PROVE  AgentsTyped' /\ AgentsKnow'
  BY <1>7, <1>10, RestingTyped DEF Rest
<1>11. KoraTyped
  BY <1>0 DEF AgentsTyped
<1>12. ASSUME NEW w \in Workers, Worker(w) PROVE AgentsTyped' /\ AgentsKnow'
  <2> DEFINE b == worker[w].booking
             i == worker[w].slot
  <2>0. /\ worker[w] \in WorkerType
        /\ worker[w].pc # "idle" => b \in Bookings /\ i \in Slots /\ kora[b][i] \in KoraStates
    BY <1>0, <1>11 DEF AgentsTyped, AgentsKnow, HasRefund, WorkerType, KoraTyped
  <2>1. CASE ListUnanswered(w) \/ ResolveNoShows(w)
    BY <1>4, <2>1 DEF ListUnanswered, ResolveNoShows, SettleNoShow, money, agents
  <2>2. ASSUME NEW c \in Bookings, SettleUnanswered(w, c) \/ PassOver(w, c)
        PROVE  AgentsTyped' /\ AgentsKnow'
    BY <1>4, <2>2 DEF SettleUnanswered, SettleProblem, PassOver, money
  <2>3. CASE QueryRefund(w)
    <3>1. UNCHANGED <<kora, operator>> /\ worker[w].pc = "claimed" /\ KoraTyped'
      BY <1>11, <2>3 DEF QueryRefund, KoraTyped
    <3>2. Move(w, "answered", kora[b][i]) \/ Move(w, "missing", "none") \/ Rest(w)
      BY <2>3 DEF QueryRefund
    <3> QED BY <1>9, <1>10, <2>0, <3>1, <3>2 DEF KoraStates
  <2>4. CASE SendRefund(w)
    <3>1. UNCHANGED operator /\ worker[w].pc = "missing"
      BY <2>4 DEF SendRefund
    <3>2. UNCHANGED kora \/ kora' = [kora EXCEPT ![b][i] = "processing"]
      BY <2>0, <2>4, <3>1, <1>11 DEF SendRefund, KoraTyped
    <3>3. KoraTyped'
      BY <1>8, <1>11, <2>0, <3>1, <3>2 DEF KoraTyped, KoraStates
    <3>4. Move(w, "answered", "processing") \/ Rest(w)
      BY <2>4 DEF SendRefund
    <3> QED BY <1>9, <1>10, <3>1, <3>3, <3>4 DEF KoraStates
  <2>5. CASE RecordAnswer(w)
    <3>1. UNCHANGED <<kora, operator>> /\ worker[w].pc = "answered" /\ KoraTyped'
      BY <1>11, <2>5 DEF RecordAnswer, KoraTyped
    <3>2. Move(w, "finalizing", "success") \/ Rest(w)
      BY <2>5 DEF RecordAnswer
    <3> QED BY <1>9, <1>10, <3>1, <3>2 DEF KoraStates
  <2>6. CASE WorkerFinalizes(w) \/ Crash(w) \/ ReleasePayout(w)
    BY <1>10, <1>11, <2>6 DEF WorkerFinalizes, Crash, ReleasePayout, money, KoraTyped
  <2>8. ASSUME NEW c \in Bookings, LockPayout(w, c) PROVE AgentsTyped' /\ AgentsKnow'
    <3> DEFINE x == [worker[w] EXCEPT !.pc = "releasing", !.booking = c]
    <3>1. x \in WorkerType /\ x.booking = c /\ x.pc = "releasing"
      BY <2>0 DEF WorkerType
    <3>2. worker' = [worker EXCEPT ![w] = x] /\ KoraTyped' /\ UNCHANGED operator
      BY <1>11, <2>8 DEF LockPayout, money, KoraTyped
    <3> HIDE DEF x
    <3> QED BY <1>7, <3>1, <3>2
  <2>7. ASSUME NEW c \in Bookings, NEW j \in Slots, ClaimDueRefunds(w, c, j)
        PROVE  AgentsTyped' /\ AgentsKnow'
    <3>1. PICK told \in {"none", "processing"} :
            worker' = [worker EXCEPT ![w] = [pc |-> "claimed", booking |-> c, slot |-> j,
                                             told |-> told]]
      BY <2>7 DEF ClaimDueRefunds
    <3> DEFINE x == [pc |-> "claimed", booking |-> c, slot |-> j, told |-> told]
    <3>2. x \in WorkerType /\ x.booking = c /\ x.slot = j
      BY DEF WorkerType, KoraStates
    <3>3. UNCHANGED <<kora, operator>> /\ refunds[c][j].state # "none" /\ KoraTyped'
      BY <1>11, <2>7 DEF ClaimDueRefunds, Due, KoraTyped
    <3>4. worker' = [worker EXCEPT ![w] = x]
      BY <3>1
    <3> HIDE DEF x
    <3> QED BY <1>7, <3>2, <3>3, <3>4
  <2> QED BY <1>12, <2>1, <2>2, <2>3, <2>4, <2>5, <2>6, <2>7, <2>8 DEF Worker, Proceed
<1>13. ASSUME NEW b \in Bookings, NEW i \in Slots, KoraSettles(b, i)
       PROVE  AgentsTyped' /\ AgentsKnow'
  <2>1. KoraTyped' /\ UNCHANGED <<worker, operator>>
    BY <1>8, <1>13 DEF KoraSettles, KoraStates, agents
  <2> QED BY <1>0, <1>2, <1>3, <2>1 DEF AgentsTyped, AgentsKnow
<1>14. CASE SetAutomatic \/ UNCHANGED vars
  BY <1>4, <1>14 DEF SetAutomatic, vars, money, agents
<1>15. ASSUME NEW b \in Bookings, Participants(b)
       PROVE  AgentsTyped' /\ AgentsKnow'
  BY <1>4, <1>15 DEF Participants, CancelBooking, SellerRefunds, SettleProblem, CompleteBooking,
                ReportBookingIssue, ReportNoShow, TimePasses, Reschedule, SellerDisagrees,
                DisputeNoShow, NoShowLapses, money, agents
<1>16. ASSUME NEW b \in Bookings, Operator(b) PROVE AgentsTyped' /\ AgentsKnow'
  BY <1>4, <1>6, <1>16 DEF Operator, OpsCreateRefund, OpsResolveBookingIssue, OpsResolveNoShow,
                SettleNoShow, OpsApprove, OpsRetry, Requeue, agents
<1>17. ASSUME NEW b \in Bookings, NEW i \in Slots, AutoRetryFailures(b, i)
       PROVE  AgentsTyped' /\ AgentsKnow'
  BY <1>4, <1>17 DEF AutoRetryFailures, Requeue, agents
<1> QED BY <1>5, <1>12, <1>13, <1>14, <1>15, <1>16, <1>17 DEF Next

LEMMA WorkStepInv == WorkInv /\ [Next]_vars => WorkInv'
<1> SUFFICES ASSUME WorkInv, [Next]_vars PROVE RefundsTyped' /\ PayoutTyped'
  BY AgentStep DEF WorkInv
<1>1. CASE OneChange /\ UNCHANGED payout
  BY <1>1 DEF WorkInv, OneChange, PayoutTyped
<1>2. ASSUME NEW w \in Workers, ReleasePayout(w) PROVE RefundsTyped' /\ PayoutTyped'
  <2>1. PayoutTyped'
    BY <1>2, ReleasedBooking DEF ReleasePayout, WorkInv, PayoutTyped
  <2> QED BY <1>2, <2>1, ReleasedBooking, ReleaseMakesNothing DEF WorkInv
<1> QED BY <1>1, <1>2, NextChange

LEMMA WorkAlways == Spec => []WorkInv
<1> HIDE DEF Init, Next, vars, WorkInv, ShareInv
<1> QED BY WorkInitInv, WorkStepInv, PTL DEF Spec

\* No refund fails while the payout of its booking is being released: the one thing
\* that releasePayout reads without a lock.
RefundsHold ==
    \A b \in Bookings, i \in Slots :
        Locked(b) /\ refunds[b][i].state # "failed" => refunds'[b][i].state # "failed"

\* Who releases a payout after a step did so before it, or has just locked it.
LEMMA LockStep ==
    ASSUME WorkInv, [Next]_vars
    PROVE  \/ \A v \in Workers :
                worker'[v].pc = "releasing" =>
                    /\ worker[v].pc = "releasing" /\ worker'[v].booking = worker[v].booking
                    /\ ~ReleasePayout(v)
           \/ \E w \in Workers, b \in Bookings : LockPayout(w, b)
<1>0. worker \in [Workers -> WorkerType]
  BY DEF WorkInv, AgentsTyped
<1> DEFINE Same == \A v \in Workers :
                worker'[v].pc = "releasing" =>
                    /\ worker[v].pc = "releasing" /\ worker'[v].booking = worker[v].booking
                    /\ ~ReleasePayout(v)
<1>1. ASSUME UNCHANGED worker PROVE Same
  <2>1. ASSUME NEW v \in Workers, worker[v].pc = "releasing" PROVE ~ReleasePayout(v)
    BY <1>0, <1>1, <2>1, RestingTyped DEF ReleasePayout, Rest
  <2> QED BY <1>1, <2>1
<1>2. ASSUME NEW w \in Workers, Rest(w) PROVE Same
  <2>1. worker'[w].pc = "idle" /\ \A v \in Workers \ {w} : worker'[v] = worker[v]
    BY <1>0, <1>2, RestingTyped DEF Rest
  <2>2. ASSUME NEW v \in Workers, worker'[v].pc = "releasing" PROVE ~ReleasePayout(v)
    BY <1>0, <2>2, RestingTyped DEF ReleasePayout, Rest
  <2> QED BY <2>1, <2>2
<1>3. ASSUME NEW w \in Workers, NEW pc \in {"missing", "answered", "finalizing"},
             NEW told, Move(w, pc, told)
      PROVE  Same
  <2>1. worker'[w].pc = pc /\ \A v \in Workers \ {w} : worker'[v] = worker[v]
    BY <1>0, <1>3 DEF Move, WorkerType
  <2>2. ASSUME NEW v \in Workers, worker'[v].pc = "releasing" PROVE ~ReleasePayout(v)
    BY <1>0, <2>2, RestingTyped DEF ReleasePayout, Rest
  <2> QED BY <2>1, <2>2
<1>4. ASSUME NEW w \in Workers, NEW c \in Bookings, NEW j \in Slots, ClaimDueRefunds(w, c, j)
      PROVE  Same
  <2>1. worker'[w].pc = "claimed" /\ \A v \in Workers \ {w} : worker'[v] = worker[v]
    BY <1>0, <1>4 DEF ClaimDueRefunds
  <2>2. ASSUME NEW v \in Workers, worker'[v].pc = "releasing" PROVE ~ReleasePayout(v)
    BY <1>0, <2>2, RestingTyped DEF ReleasePayout, Rest
  <2> QED BY <2>1, <2>2
<1> HIDE DEF Same
<1>5. ASSUME NEW w \in Workers, Worker(w)
      PROVE  Same \/ \E b \in Bookings : LockPayout(w, b)
  <2>1. CASE ListUnanswered(w) \/ ResolveNoShows(w)
    BY <1>1, <2>1 DEF ListUnanswered, ResolveNoShows, SettleNoShow, agents
  <2>2. ASSUME NEW c \in Bookings, SettleUnanswered(w, c) \/ PassOver(w, c) PROVE Same
    BY <1>1, <2>2 DEF SettleUnanswered, PassOver
  <2>3. CASE QueryRefund(w)
    BY <1>2, <1>3, <2>3 DEF QueryRefund
  <2>4. CASE SendRefund(w) \/ RecordAnswer(w)
    BY <1>2, <1>3, <2>4 DEF SendRefund, RecordAnswer
  <2>5. CASE WorkerFinalizes(w) \/ Crash(w) \/ ReleasePayout(w)
    BY <1>2, <2>5 DEF WorkerFinalizes, Crash, ReleasePayout
  <2> QED BY <1>4, <1>5, <2>1, <2>2, <2>3, <2>4, <2>5 DEF Worker, Proceed
<1>6. ASSUME NEW b \in Bookings, Participants(b) \/ Operator(b) PROVE Same
  BY <1>1, <1>6 DEF Participants, CancelBooking, SellerRefunds, SettleProblem, CompleteBooking,
                ReportBookingIssue, ReportNoShow, TimePasses, Reschedule, SellerDisagrees,
                DisputeNoShow, NoShowLapses, Operator, OpsCreateRefund, OpsResolveBookingIssue,
                OpsResolveNoShow, SettleNoShow, OpsApprove, OpsRetry, Requeue, OpsRecord, agents
<1>7. ASSUME SetAutomatic \/ OpsFinalize \/ OpsStops \/ UNCHANGED vars PROVE Same
  BY <1>1, <1>7 DEF SetAutomatic, OpsFinalize, OpsStops, vars, agents
<1>8. ASSUME NEW b \in Bookings, NEW i \in Slots, AutoRetryFailures(b, i) \/ KoraSettles(b, i)
      PROVE  Same
  BY <1>1, <1>8 DEF AutoRetryFailures, Requeue, KoraSettles, agents
<1> QED BY <1>5, <1>6, <1>7, <1>8 DEF Next, Same

\* A payout's state changes only by its release.
LEMMA PayoutStep ==
    ASSUME WorkInv, [Next]_vars, NEW b \in Bookings, payout'[b] # payout[b]
    PROVE  \E w \in Workers : ReleasePayout(w) /\ worker[w].booking = b
<1>1. PICK w \in Workers : ReleasePayout(w)
  BY NextChange
<1>2. worker[w].booking = b
  BY <1>1 DEF ReleasePayout, WorkInv, PayoutTyped
<1> QED BY <1>1, <1>2

LEMMA HeldStep ==
    ASSUME WorkInv, ShareInv, [Next]_vars, RefundsHold
    PROVE  ReleaseHeld'
<1>0. ReleaseHeld /\ worker \in [Workers -> WorkerType]
  BY DEF ShareInv, WorkInv, AgentsTyped
<1> USE DEF ReleaseHeld
<1>1. CASE \A v \in Workers :
                worker'[v].pc = "releasing" =>
                    /\ worker[v].pc = "releasing" /\ worker'[v].booking = worker[v].booking
                    /\ ~ReleasePayout(v)
  <2> SUFFICES ASSUME NEW w \in Workers, worker'[w].pc = "releasing"
               PROVE  /\ payout'[worker[w].booking] = "scheduled"
                      /\ \A i \in Slots : refunds'[worker[w].booking][i].state # "failed"
    BY <1>0, <1>1
  <2>1. /\ worker[w].pc = "releasing" /\ worker[w].booking \in Bookings
        /\ Locked(worker[w].booking)
    BY <1>1 DEF WorkInv, AgentsKnow, HasRefund, Locked
  <2>2. \A i \in Slots : refunds'[worker[w].booking][i].state # "failed"
    BY <1>0, <2>1 DEF RefundsHold
  <2>3. ASSUME payout'[worker[w].booking] # payout[worker[w].booking] PROVE FALSE
    <3>1. PICK v \in Workers : ReleasePayout(v) /\ worker[v].booking = worker[w].booking
      BY <2>1, <2>3, PayoutStep
    <3>2. v = w
      BY <1>0, <2>1, <3>1 DEF ReleasePayout
    <3> QED BY <1>1, <3>1, <3>2
  <2> QED BY <1>0, <2>1, <2>2, <2>3
<1>2. ASSUME NEW w \in Workers, NEW b \in Bookings, LockPayout(w, b) PROVE ReleaseHeld'
  <2>1. /\ worker'[w].pc = "releasing" /\ worker'[w].booking = b
        /\ \A v \in Workers \ {w} : worker'[v] = worker[v]
    BY <1>0, <1>2 DEF LockPayout, WorkerType
  <2>2. /\ UNCHANGED <<refunds, payout>> /\ payout[b] = "scheduled" /\ ~Locked(b)
    BY <1>2 DEF LockPayout, money
  <2>3. \A i \in Slots : refunds[b][i].state # "failed"
    BY <1>2, <2>2 DEF LockPayout, Held, ShareInv, SharesSettled
  <2> QED BY <1>0, <2>1, <2>2, <2>3 DEF Locked
<1> QED BY <1>1, <1>2, LockStep

LEMMA ShareStepInv == WorkInv /\ ShareInv /\ [Next]_vars /\ RefundsHold => ShareInv'
<1> SUFFICES ASSUME WorkInv, ShareInv, [Next]_vars, RefundsHold PROVE ShareInv'
  OBVIOUS
<1>1. CASE OneChange /\ UNCHANGED payout
  BY <1>1, HeldStep, OneChangeSettled DEF ShareInv, WorkInv
<1>2. ASSUME NEW w \in Workers, ReleasePayout(w) PROVE ShareInv'
  BY <1>2, HeldStep, ReleaseSettled DEF ShareInv
<1> QED BY <1>1, <1>2, NextChange

\* Once the seller is paid, what a refund costs the seller was deducted from the payout
\* or is owed, never both and never neither (createRefund, releasePayout): a payout is
\* not released beside a failed refund, and what comes later is owed.  Any number of
\* workers may run, if no refund fails between the check and the sum of a release.
THEOREM ShareIsBorne == Spec /\ [][RefundsHold]_vars => []ShareBorne
<1>1. ShareInv => ShareBorne
  BY DEF ShareInv, SharesSettled, ShareBorne
<1>2. WorkInv /\ ShareInv /\ [Next]_vars /\ [RefundsHold]_vars => ShareInv'
  <2>1. ASSUME WorkInv, ShareInv, UNCHANGED vars PROVE ShareInv'
    BY <2>1 DEF vars, money, agents, ShareInv, SharesSettled, ReleaseHeld
  <2> QED BY <2>1, ShareStepInv
<1> HIDE DEF Init, Next, vars, WorkInv, ShareInv, ShareBorne, RefundsHold
<1> QED BY <1>1, <1>2, WorkInitInv, WorkAlways, PTL DEF Spec

(***************************************************************************)
(* One refund at Kora.                                                     *)
(***************************************************************************)

AtRefund(w) == worker[w].pc \in {"claimed", "missing", "answered", "finalizing"}

\* No two workers are at one refund: a claim is over before it may be taken again.
Apart ==
    \A v, w \in Workers :
        /\ AtRefund(v) /\ AtRefund(w)
        /\ worker[v].booking = worker[w].booking /\ worker[v].slot = worker[w].slot
        => v = w

\* While nothing fails, a refund that Kora has is live.
PaidLive ==
    \A b \in Bookings, i \in Slots :
        kora[b][i] \in {"processing", "success"} => LiveSlot(b, i)

\* What a worker was told still holds when it acts on it; an operator may have
\* finalized the refund meanwhile.
KoraKnows(w) ==
    LET b == worker[w].booking  i == worker[w].slot IN
    /\ worker[w].pc = "claimed" /\ worker[w].told = "none"
            => refunds[b][i].state \in {"queued", "processed"}
    /\ worker[w].pc = "missing"
            => refunds[b][i].state \in {"queued", "processed"} /\ kora[b][i] = "none"
    /\ worker[w].pc = "answered" /\ worker[w].told = "failed" => kora[b][i] = "failed"

KoraInv ==
    /\ faults \in Nat
    /\ OneLive
    /\ faults = 0 => PaidLive /\ \A w \in Workers : KoraKnows(w)

\* What becomes of a refund's state while no worker does anything to it.
Way(b, i) ==
    \/ refunds'[b][i].state = refunds[b][i].state
    \/ /\ refunds[b][i].state = "none"
       /\ refunds'[b][i].state \in {"queued", "pending_approval"}
    \/ /\ refunds[b][i].state \in {"pending_approval", "failed"}
       /\ refunds'[b][i].state \in {"queued", "submitted"}
    \/ refunds[b][i].state # "none" /\ refunds'[b][i].state = "processed"

LEMMA SetOnly ==
    ASSUME RefundsTyped, NEW b \in Bookings, NEW i \in Slots, NEW r, SetRefund(b, i, r)
    PROVE  /\ refunds'[b][i] = r
           /\ \A c \in Bookings, j \in Slots : c # b \/ j # i => refunds'[c][j] = refunds[c][j]
<1>1. /\ refunds' = [refunds EXCEPT ![b] = [refunds[b] EXCEPT ![i] = r]]
      /\ refunds[b] \in [Slots -> RefundType]
  BY DEF RefundsTyped, SetRefund
<1>2. refunds'[b] = [refunds[b] EXCEPT ![i] = r]
      /\ \A c \in Bookings \ {b} : refunds'[c] = refunds[c]
  BY <1>1 DEF RefundsTyped
<1> QED BY <1>1, <1>2

LEMMA OnlyCreatedWays ==
    ASSUME OnlyCreated, NEW b \in Bookings, NEW i \in Slots
    PROVE  Way(b, i)
BY DEF OnlyCreated, Stays, Created, Way

LEMMA SetWays ==
    ASSUME RefundsTyped, NEW b \in Bookings, NEW i \in Slots, NEW r, SetRefund(b, i, r),
           \/ /\ refunds[b][i].state \in {"pending_approval", "failed"}
              /\ r.state \in {"queued", "submitted"}
           \/ refunds[b][i].state # "none" /\ r.state = "processed"
    PROVE  \A c \in Bookings, j \in Slots : Way(c, j)
<1>1. /\ refunds'[b][i] = r
      /\ \A c \in Bookings, j \in Slots : c # b \/ j # i => refunds'[c][j] = refunds[c][j]
  BY SetOnly
<1>2. Way(b, i)
  BY <1>1 DEF Way
<1> QED BY <1>1, <1>2 DEF Way

\* At most one refund of a booking is live, whatever happens.
LEMMA OneLiveStep ==
    ASSUME WorkInv, OneLive, [Next]_vars
    PROVE  OneLive'
<1>0. RefundsTyped
  BY DEF WorkInv
<1>1. CASE UNCHANGED refunds
  BY <1>1 DEF OneLive, LiveSlot
<1>2. ASSUME NEW w \in Workers, ReleasePayout(w) PROVE OneLive'
  BY <1>0, <1>2, ReleasedBooking, ReleaseMakesNothing DEF OneLive, LiveSlot
<1>3. ASSUME NEW b \in Bookings, NEW i \in Slots, WorkedOn(b, i) \/ Created(b, i),
             \A c \in Bookings, j \in Slots : c # b \/ j # i => Stays(c, j)
      PROVE  OneLive'
  <2>1. LiveSlot(b, i)' => LiveSlot(b, i) \/ ~Live(b)
    BY <1>3 DEF WorkedOn, Created
  <2>2. \A c \in Bookings, j \in Slots : c # b \/ j # i => (LiveSlot(c, j)' <=> LiveSlot(c, j))
    BY <1>3 DEF Stays, LiveSlot
  <2>3. ~Live(b) => \A j \in Slots : ~LiveSlot(b, j)
    BY DEF Live, LiveSlot
  <2> SUFFICES ASSUME NEW c \in Bookings, NEW j \in Slots, NEW k \in Slots,
                      LiveSlot(c, j)', LiveSlot(c, k)', j # k
               PROVE  FALSE
    BY DEF OneLive
  <2>4. CASE c # b
    BY <2>2, <2>4 DEF OneLive
  <2>5. CASE c = b /\ j = i
    BY <2>1, <2>2, <2>3, <2>5 DEF OneLive
  <2>6. CASE c = b /\ k = i
    BY <2>1, <2>2, <2>3, <2>6 DEF OneLive
  <2>7. CASE c = b /\ j # i /\ k # i
    BY <2>2, <2>7 DEF OneLive
  <2> QED BY <2>4, <2>5, <2>6, <2>7
<1> QED BY <1>1, <1>2, <1>3, NextChange DEF OneChange

LEMMA KoraInitInv == Init => KoraInv
<1> SUFFICES ASSUME Init PROVE KoraInv
  OBVIOUS
<1>1. /\ refunds = [b \in Bookings |-> [i \in Slots |-> NoRefund]]
      /\ kora = [b \in Bookings |-> [i \in Slots |-> "none"]]
      /\ worker = [w \in Workers |-> Resting]
      /\ operator = [booking |-> None, slot |-> 1] /\ faults = 0
  BY DEF Init
<1>2. NoRefund.state = "none"
  BY DEF NoRefund
<1> QED BY <1>1, <1>2, RestingTyped
        DEF KoraInv, OneLive, LiveSlot, PaidLive, KoraKnows

\* While Kora hears nothing.
LEMMA QuietKora ==
    ASSUME WorkInv, KoraInv, faults = 0, UNCHANGED kora,
           \A b \in Bookings, i \in Slots : Way(b, i),
           \A w \in Workers : worker'[w] = worker[w] \/ KoraKnows(w)'
    PROVE  PaidLive' /\ \A w \in Workers : KoraKnows(w)'
<1>0. AgentsTyped /\ AgentsKnow /\ PaidLive /\ \A w \in Workers : KoraKnows(w)
  BY DEF WorkInv, KoraInv
<1>1. PaidLive'
  <2> SUFFICES ASSUME NEW b \in Bookings, NEW i \in Slots,
                      kora[b][i] \in {"processing", "success"}
               PROVE  LiveSlot(b, i)'
    BY DEF PaidLive
  <2>1. LiveSlot(b, i) /\ Way(b, i)
    BY <1>0 DEF PaidLive
  <2> QED BY <2>1 DEF Way, LiveSlot
<1>2. ASSUME NEW w \in Workers, worker'[w] = worker[w] PROVE KoraKnows(w)'
  <2>1. worker[w].pc # "idle" => worker[w].booking \in Bookings /\ worker[w].slot \in Slots
    BY <1>0 DEF AgentsTyped, AgentsKnow, HasRefund, WorkerType
  <2> DEFINE b == worker[w].booking
             i == worker[w].slot
  <2>2. ASSUME worker[w].pc # "idle", refunds[b][i].state \in {"queued", "processed"}
        PROVE  refunds'[b][i].state \in {"queued", "processed"}
    <3>1. Way(b, i)
      BY <2>1, <2>2
    <3> QED BY <2>2, <3>1 DEF Way
  <2>3. KoraKnows(w)
    BY <1>0
  <2> QED BY <1>2, <2>2, <2>3 DEF KoraKnows
<1> QED BY <1>1, <1>2

KoraHolds == PaidLive /\ \A w \in Workers : KoraKnows(w)

LEMMA QuietCreation ==
    ASSUME WorkInv, KoraInv, faults = 0, OnlyCreated, UNCHANGED <<kora, worker, operator>>
    PROVE  KoraHolds'
BY OnlyCreatedWays, QuietKora DEF KoraHolds

LEMMA QuietParticipants ==
    ASSUME WorkInv, KoraInv, faults = 0, NEW b \in Bookings, Participants(b)
    PROVE  KoraHolds'
<1>1. OnlyCreated
  BY ParticipantsChange DEF WorkInv
<1>2. UNCHANGED <<kora, worker, operator>>
  BY DEF Participants, CancelBooking, SellerRefunds, SettleProblem, CompleteBooking,
         ReportBookingIssue, ReportNoShow, TimePasses, Reschedule, SellerDisagrees,
         DisputeNoShow, NoShowLapses, money, agents
<1> QED BY <1>1, <1>2, QuietCreation

LEMMA QuietNoShow ==
    ASSUME WorkInv, KoraInv, faults = 0, NEW b, NEW who, NEW outcome,
           SettleNoShow(b, who, outcome)
    PROVE  KoraHolds'
<1>1. OnlyCreated
  BY NoShowChange DEF WorkInv
<1>2. UNCHANGED <<kora, worker, operator>>
  BY DEF SettleNoShow, agents
<1> QED BY <1>1, <1>2, QuietCreation

LEMMA QuietOperator ==
    ASSUME WorkInv, KoraInv, faults = 0, NEW b \in Bookings, Operator(b)
    PROVE  KoraHolds'
<1>0. RefundsTyped
  BY DEF WorkInv
<1>1. ASSUME NEW amount \in Amounts, OpsCreateRefund(b, amount) PROVE KoraHolds'
  BY <1>0, <1>1, AmountsTyped, CreateRefundChange, QuietCreation DEF OpsCreateRefund, agents
<1>2. ASSUME NEW amount \in Amounts \cup {0}, OpsResolveBookingIssue(b, amount)
      PROVE  KoraHolds'
  BY <1>0, <1>2, AmountsTyped, CreateRefundChange, NoChange, QuietCreation
     DEF OpsResolveBookingIssue, agents
<1>3. ASSUME NEW who, NEW outcome, OpsResolveNoShow(b, who, outcome) PROVE KoraHolds'
  BY <1>3, QuietNoShow DEF OpsResolveNoShow
<1>4. ASSUME NEW i \in Slots, OpsApprove(b, i) PROVE KoraHolds'
  <2>1. /\ refunds[b][i].state = "pending_approval"
        /\ SetRefund(b, i, [refunds[b][i] EXCEPT !.state = "queued"])
        /\ UNCHANGED <<kora, worker, operator>>
    BY <1>4 DEF OpsApprove, agents
  <2>2. LET r == [refunds[b][i] EXCEPT !.state = "queued"] IN
        Rewritten(r, refunds[b][i]) /\ r.state = "queued"
    BY <1>0, WriteState DEF RefundStates
  <2>3. \A c \in Bookings, j \in Slots : Way(c, j)
    BY <1>0, <2>1, <2>2, SetWays
  <2> QED BY <2>1, <2>3, QuietKora DEF KoraHolds
<1>5. ASSUME NEW i \in Slots, OpsRetry(b, i) PROVE KoraHolds'
  <2> DEFINE n == 0
             r == [refunds[b][i] EXCEPT !.state = "queued", !.tries = n]
  <2>1. /\ refunds[b][i].state = "failed"
        /\ SetRefund(b, i, r)
        /\ UNCHANGED <<kora, worker, operator>>
    BY <1>5 DEF OpsRetry, Requeue, agents
  <2>2. refunds[b][i] \in RefundType
    BY <1>0 DEF RefundsTyped
  <2> HIDE DEF n
  <2>3. r.state = "queued"
    BY <2>2 DEF RefundType
  <2> HIDE DEF r
  <2>4. \A c \in Bookings, j \in Slots : Way(c, j)
    BY <1>0, <2>1, <2>3, SetWays
  <2> QED BY <2>1, <2>4, QuietKora DEF KoraHolds
<1>6. ASSUME NEW i \in Slots, OpsRecord(b, i) PROVE KoraHolds'
  <2> DEFINE r == [refunds[b][i] EXCEPT !.state = "submitted"]
  <2>1. /\ refunds[b][i].state \in {"pending_approval", "failed"}
        /\ SetRefund(b, i, r)
        /\ UNCHANGED <<kora, worker>>
    BY <1>6 DEF OpsRecord, Recordable
  <2>2. r.state = "submitted"
    BY <1>0, WriteState DEF RefundStates
  <2> HIDE DEF r
  <2>3. \A c \in Bookings, j \in Slots : Way(c, j)
    BY <1>0, <2>1, <2>2, SetWays
  <2> QED BY <2>1, <2>3, QuietKora DEF KoraHolds
<1> QED BY <1>1, <1>2, <1>3, <1>4, <1>5, <1>6 DEF Operator

LEMMA QuietRetry ==
    ASSUME WorkInv, KoraInv, faults = 0, NEW b \in Bookings, NEW i \in Slots,
           AutoRetryFailures(b, i)
    PROVE  KoraHolds'
<1> DEFINE n == 0
           m == refunds[b][i].auto + 1
           r == [refunds[b][i] EXCEPT !.state = "queued", !.tries = n, !.auto = m]
<1>1. /\ refunds[b][i].state = "failed"
      /\ SetRefund(b, i, r)
      /\ UNCHANGED <<kora, worker, operator>>
  BY DEF AutoRetryFailures, Requeue, agents
<1>2. refunds[b][i] \in RefundType /\ RefundsTyped
  BY DEF RefundsTyped, WorkInv
<1> HIDE DEF n, m
<1>3. r.state = "queued"
  BY <1>2 DEF RefundType
<1> HIDE DEF r
<1>4. \A c \in Bookings, j \in Slots : Way(c, j)
  BY <1>1, <1>2, <1>3, SetWays
<1> QED BY <1>1, <1>4, QuietKora DEF KoraHolds

LEMMA FinalizeWays ==
    ASSUME RefundsTyped, NEW b \in Bookings, NEW i \in Slots, FinalizeRefund(b, i),
           refunds[b][i].state # "none"
    PROVE  \A c \in Bookings, j \in Slots : Way(c, j)
<1>1. CASE UNCHANGED refunds
  BY <1>1 DEF Way
<1>2. CASE SetRefund(b, i, [refunds[b][i] EXCEPT !.state = "processed"])
  <2>1. [refunds[b][i] EXCEPT !.state = "processed"].state = "processed"
    BY WriteState DEF RefundStates
  <2> QED BY <1>2, <2>1, SetWays
<1> QED BY <1>1, <1>2 DEF FinalizeRefund

LEMMA QuietFinalize ==
    ASSUME WorkInv, KoraInv, faults = 0, OpsFinalize
    PROVE  KoraHolds'
<1>1. /\ operator.booking \in Bookings /\ operator.slot \in Slots
      /\ refunds[operator.booking][operator.slot].state # "none"
  BY DEF WorkInv, AgentsTyped, AgentsKnow, OpsFinalize
<1>2. \A c \in Bookings, j \in Slots : Way(c, j)
  BY <1>1, FinalizeWays DEF WorkInv, OpsFinalize
<1>3. UNCHANGED <<kora, worker>>
  BY DEF OpsFinalize
<1> QED BY <1>2, <1>3, QuietKora DEF KoraHolds

LEMMA KnowsAtRest ==
    ASSUME AgentsTyped, NEW w \in Workers, Rest(w)
    PROVE  KoraKnows(w)'
<1>1. worker'[w].pc = "idle"
  BY RestingTyped DEF AgentsTyped, Rest
<1> QED BY <1>1 DEF KoraKnows

\* Locking a payout and releasing it is nothing to the refunds' states.
LEMMA QuietRelease ==
    ASSUME WorkInv, KoraInv, faults = 0, NEW w \in Workers,
           ReleasePayout(w) \/ \E b \in Bookings : LockPayout(w, b)
    PROVE  KoraHolds'
<1>0. AgentsTyped /\ RefundsTyped
  BY DEF WorkInv
<1>1. CASE ReleasePayout(w)
  <2>1. \A c \in Bookings, j \in Slots : Way(c, j)
    BY <1>0, <1>1, ReleasedBooking, ReleaseMakesNothing DEF WorkInv, Way
  <2>2. UNCHANGED kora /\ Rest(w)
    BY <1>1 DEF ReleasePayout
  <2>3. \A v \in Workers : worker'[v] = worker[v] \/ KoraKnows(v)'
    BY <1>0, <2>2, KnowsAtRest DEF AgentsTyped, Rest
  <2> QED BY <2>1, <2>2, <2>3, QuietKora DEF KoraHolds
<1>2. ASSUME NEW b \in Bookings, LockPayout(w, b) PROVE KoraHolds'
  <2>1. \A c \in Bookings, j \in Slots : Way(c, j)
    BY <1>2 DEF LockPayout, money, Way
  <2>2. /\ UNCHANGED kora
        /\ worker' = [worker EXCEPT ![w] =
                        [worker[w] EXCEPT !.pc = "releasing", !.booking = b]]
    BY <1>2 DEF LockPayout, money
  <2>3. worker'[w] = [worker[w] EXCEPT !.pc = "releasing", !.booking = b]
    BY <1>0, <2>2 DEF AgentsTyped
  <2>4. worker'[w].pc = "releasing"
    BY <1>0, <2>3 DEF AgentsTyped, WorkerType
  <2>5. \A v \in Workers : worker'[v] = worker[v] \/ KoraKnows(v)'
    BY <1>0, <2>2, <2>4 DEF AgentsTyped, KoraKnows
  <2> QED BY <2>1, <2>2, <2>5, QuietKora DEF KoraHolds
<1> QED BY <1>1, <1>2

OnlyAt(b, i) ==
    \A c \in Bookings, j \in Slots :
        c # b \/ j # i => refunds'[c][j] = refunds[c][j] /\ kora'[c][j] = kora[c][j]

\* What the worker writes: a refund fails only when Kora does not have it.
LEMMA WorkerWrites ==
    ASSUME WorkInv, KoraInv, faults = 0, UNCHANGED kora,
           NEW b \in Bookings, NEW i \in Slots,
           \/ UNCHANGED refunds
           \/ MarkRefundSubmitted(b, i)
           \/ FinalizeRefund(b, i)
           \/ MarkRefundFailed(b, i) /\ kora[b][i] \notin {"processing", "success"}
    PROVE  PaidLive' /\ OnlyAt(b, i)
<1>0. RefundsTyped /\ PaidLive
  BY DEF WorkInv, KoraInv
<1>1. CASE UNCHANGED refunds
  BY <1>0, <1>1 DEF PaidLive, LiveSlot, OnlyAt
<1>2. ASSUME NEW r, SetRefund(b, i, r), r.state \in {"failed", "submitted", "processed"},
             r.state = "failed" => kora[b][i] \notin {"processing", "success"}
      PROVE  PaidLive' /\ OnlyAt(b, i)
  <2>1. /\ refunds'[b][i] = r
        /\ \A c \in Bookings, j \in Slots : c # b \/ j # i => refunds'[c][j] = refunds[c][j]
    BY <1>0, <1>2, SetOnly
  <2>2. PaidLive'
    <3> SUFFICES ASSUME NEW c \in Bookings, NEW j \in Slots,
                        kora[c][j] \in {"processing", "success"}
                 PROVE  LiveSlot(c, j)'
      BY DEF PaidLive
    <3>1. LiveSlot(c, j)
      BY <1>0 DEF PaidLive
    <3>2. CASE c = b /\ j = i
      BY <1>2, <2>1, <3>2 DEF LiveSlot
    <3>3. CASE c # b \/ j # i
      BY <2>1, <3>1, <3>3 DEF LiveSlot
    <3> QED BY <3>2, <3>3
  <2> QED BY <2>1, <2>2 DEF OnlyAt
<1>3. CASE MarkRefundSubmitted(b, i) /\ ~UNCHANGED refunds
  <2> DEFINE r == [refunds[b][i] EXCEPT !.state = "submitted", !.sent = TRUE]
  <2>1. SetRefund(b, i, r)
    BY <1>3 DEF MarkRefundSubmitted
  <2>2. r.state = "submitted"
    BY <1>0, WriteSent DEF RefundStates
  <2> HIDE DEF r
  <2> QED BY <1>2, <2>1, <2>2
<1>4. CASE FinalizeRefund(b, i) /\ ~UNCHANGED refunds
  <2> DEFINE r == [refunds[b][i] EXCEPT !.state = "processed"]
  <2>1. SetRefund(b, i, r)
    BY <1>4 DEF FinalizeRefund
  <2>2. r.state = "processed"
    BY <1>0, WriteState DEF RefundStates
  <2> HIDE DEF r
  <2> QED BY <1>2, <2>1, <2>2
<1>5. CASE MarkRefundFailed(b, i) /\ kora[b][i] \notin {"processing", "success"}
           /\ ~UNCHANGED refunds
  <2> DEFINE r == [refunds[b][i] EXCEPT !.state = "failed"]
  <2>1. SetRefund(b, i, r)
    BY <1>5 DEF MarkRefundFailed
  <2>2. r.state = "failed"
    BY <1>0, WriteState DEF RefundStates
  <2> HIDE DEF r
  <2> QED BY <1>2, <1>5, <2>1, <2>2
<1> QED BY <1>1, <1>3, <1>4, <1>5

LEMMA Moved ==
    ASSUME AgentsTyped, NEW w \in Workers, NEW pc, NEW told, Move(w, pc, told)
    PROVE  /\ worker'[w].pc = pc /\ worker'[w].told = told
           /\ worker'[w].booking = worker[w].booking /\ worker'[w].slot = worker[w].slot
<1>1. worker[w] \in WorkerType
      /\ worker' = [worker EXCEPT ![w] = [worker[w] EXCEPT !.pc = pc, !.told = told]]
  BY DEF AgentsTyped, Move
<1>2. worker'[w] = [worker[w] EXCEPT !.pc = pc, !.told = told]
  BY <1>1 DEF AgentsTyped
<1> QED BY <1>1, <1>2 DEF WorkerType

\* The other workers are at other refunds.
LEMMA OthersKnow ==
    ASSUME WorkInv, Apart, NEW w \in Workers, AtRefund(w), \A v \in Workers : KoraKnows(v),
           Rest(w) \/ \E pc, told : Move(w, pc, told),
           OnlyAt(worker[w].booking, worker[w].slot), KoraKnows(w)'
    PROVE  \A v \in Workers : KoraKnows(v)'
<1> SUFFICES ASSUME NEW v \in Workers, v # w PROVE KoraKnows(v)'
  OBVIOUS
<1>0. AgentsTyped /\ AgentsKnow /\ KoraKnows(v)
  BY DEF WorkInv
<1>1. worker'[v] = worker[v]
  BY <1>0 DEF AgentsTyped, Rest, Move
<1>2. CASE ~AtRefund(v)
  BY <1>1, <1>2 DEF AtRefund, KoraKnows
<1>3. CASE AtRefund(v)
  <2> DEFINE c == worker[v].booking
             j == worker[v].slot
  <2>1. c \in Bookings /\ j \in Slots
    BY <1>0, <1>3 DEF AtRefund, AgentsTyped, AgentsKnow, HasRefund, WorkerType
  <2>2. c # worker[w].booking \/ j # worker[w].slot
    BY <1>3 DEF Apart
  <2>3. refunds'[c][j] = refunds[c][j] /\ kora'[c][j] = kora[c][j]
    BY <2>1, <2>2 DEF OnlyAt
  <2> QED BY <1>0, <1>1, <2>3 DEF KoraKnows
<1> QED BY <1>2, <1>3

LEMMA QuietQuery ==
    ASSUME Apart, WorkInv, KoraInv, faults = 0, faults' = 0,
           NEW w \in Workers, QueryRefund(w)
    PROVE  KoraHolds'
<1> DEFINE b == worker[w].booking
           i == worker[w].slot
<1>0. /\ AgentsTyped /\ worker[w].pc = "claimed" /\ \A v \in Workers : KoraKnows(v)
      /\ b \in Bookings /\ i \in Slots /\ kora[b][i] \in KoraStates
      /\ UNCHANGED kora /\ ~Fault /\ AtRefund(w)
  BY DEF WorkInv, AgentsTyped, AgentsKnow, HasRefund, WorkerType, KoraTyped, QueryRefund,
         KoraInv, Fault, AtRefund
<1>1. CASE Move(w, "answered", kora[b][i]) /\ UNCHANGED refunds
  <2>1. PaidLive' /\ OnlyAt(b, i)
    BY <1>0, <1>1, WorkerWrites
  <2>2. KoraKnows(w)'
    BY <1>0, <1>1, Moved DEF KoraKnows
  <2> QED BY <1>0, <1>1, <2>1, <2>2, OthersKnow DEF KoraHolds
<1>2. CASE kora[b][i] = "none" /\ worker[w].told = "none" /\ Move(w, "missing", "none")
           /\ UNCHANGED refunds
  <2>1. PaidLive' /\ OnlyAt(b, i)
    BY <1>0, <1>2, WorkerWrites
  <2>2. refunds[b][i].state \in {"queued", "processed"}
    BY <1>0, <1>2 DEF KoraKnows
  <2>3. KoraKnows(w)'
    BY <1>0, <1>2, <2>2, Moved DEF KoraKnows
  <2> QED BY <1>0, <1>2, <2>1, <2>3, OthersKnow DEF KoraHolds
<1>3. CASE kora[b][i] = "none" /\ Rest(w) /\ MarkRefundFailed(b, i)
  <2>1. PaidLive' /\ OnlyAt(b, i)
    BY <1>0, <1>3, WorkerWrites
  <2> QED BY <1>0, <1>3, <2>1, KnowsAtRest, OthersKnow DEF KoraHolds
<1> QED BY <1>0, <1>1, <1>2, <1>3 DEF QueryRefund

LEMMA QuietAnswer ==
    ASSUME Apart, WorkInv, KoraInv, faults = 0,
           NEW w \in Workers, RecordAnswer(w) \/ WorkerFinalizes(w)
    PROVE  KoraHolds'
<1> DEFINE b == worker[w].booking
           i == worker[w].slot
<1>0. /\ AgentsTyped /\ worker[w].pc \in {"answered", "finalizing"} /\ AtRefund(w)
      /\ \A v \in Workers : KoraKnows(v)
      /\ b \in Bookings /\ i \in Slots
      /\ UNCHANGED kora
  BY DEF WorkInv, AgentsTyped, AgentsKnow, HasRefund, WorkerType, RecordAnswer,
         WorkerFinalizes, KoraInv, AtRefund
<1>1. CASE MarkRefundSubmitted(b, i) /\ (Move(w, "finalizing", "success") \/ Rest(w))
  <2>1. PaidLive' /\ OnlyAt(b, i)
    BY <1>0, <1>1, WorkerWrites
  <2>2. KoraKnows(w)'
    <3>1. CASE Move(w, "finalizing", "success")
      BY <1>0, <3>1, Moved DEF KoraKnows
    <3> QED BY <1>0, <1>1, <3>1, KnowsAtRest
  <2> QED BY <1>0, <1>1, <2>1, <2>2, OthersKnow DEF KoraHolds
<1>2. CASE worker[w].pc = "answered" /\ worker[w].told = "failed"
           /\ MarkRefundFailed(b, i) /\ Rest(w)
  <2>1. kora[b][i] = "failed"
    BY <1>0, <1>2 DEF KoraKnows
  <2>2. PaidLive' /\ OnlyAt(b, i)
    BY <1>0, <1>2, <2>1, WorkerWrites
  <2> QED BY <1>0, <1>2, <2>2, KnowsAtRest, OthersKnow DEF KoraHolds
<1>3. CASE FinalizeRefund(b, i) /\ Rest(w)
  <2>1. PaidLive' /\ OnlyAt(b, i)
    BY <1>0, <1>3, WorkerWrites
  <2> QED BY <1>0, <1>3, <2>1, KnowsAtRest, OthersKnow DEF KoraHolds
<1> QED BY <1>1, <1>2, <1>3 DEF RecordAnswer, WorkerFinalizes

\* Sent under its reference, once, while it is queued or was finalized meanwhile.
LEMMA QuietSend ==
    ASSUME Apart, WorkInv, KoraInv, faults = 0, faults' = 0,
           NEW w \in Workers, SendRefund(w)
    PROVE  KoraHolds'
<1> DEFINE b == worker[w].booking
           i == worker[w].slot
<1>0. /\ AgentsTyped /\ PaidLive /\ AtRefund(w)
      /\ worker[w].pc = "missing" /\ \A v \in Workers : KoraKnows(v)
      /\ b \in Bookings /\ i \in Slots /\ ~Fault
  BY DEF WorkInv, AgentsTyped, AgentsKnow, HasRefund, WorkerType, SendRefund,
         KoraInv, Fault, AtRefund
<1>1. refunds[b][i].state \in {"queued", "processed"} /\ kora[b][i] = "none"
  BY <1>0 DEF KoraKnows
<1>2. CASE kora' = [kora EXCEPT ![b][i] = IF @ = "none" THEN "processing" ELSE @]
           /\ Move(w, "answered", "processing") /\ UNCHANGED refunds
  <2>1. \A c \in Bookings, j \in Slots :
            c # b \/ j # i => kora'[c][j] = kora[c][j]
    BY <1>0, <1>2 DEF AgentsTyped, KoraTyped
  <2>2. PaidLive'
    BY <1>0, <1>1, <1>2, <2>1 DEF PaidLive, LiveSlot
  <2>3. OnlyAt(b, i)
    BY <1>2, <2>1 DEF OnlyAt
  <2>4. KoraKnows(w)'
    BY <1>0, <1>2, Moved DEF KoraKnows
  <2> QED BY <1>0, <1>2, <2>2, <2>3, <2>4, OthersKnow DEF KoraHolds
<1>3. CASE MarkRefundFailed(b, i) /\ Rest(w) /\ UNCHANGED kora
  <2>1. PaidLive' /\ OnlyAt(b, i)
    BY <1>0, <1>1, <1>3, WorkerWrites
  <2> QED BY <1>0, <1>3, <2>1, KnowsAtRest, OthersKnow DEF KoraHolds
<1> QED BY <1>0, <1>2, <1>3 DEF SendRefund

LEMMA QuietClaim ==
    ASSUME WorkInv, KoraInv, faults = 0,
           NEW w \in Workers, NEW b \in Bookings, NEW i \in Slots, ClaimDueRefunds(w, b, i)
    PROVE  KoraHolds'
<1> DEFINE told == IF refunds[b][i].state = "queued" THEN "none" ELSE "processing"
           x == [pc |-> "claimed", booking |-> b, slot |-> i, told |-> told]
<1>1. /\ RefundsTyped /\ AgentsTyped
      /\ worker' = [worker EXCEPT ![w] = x] /\ UNCHANGED kora
  BY DEF WorkInv, ClaimDueRefunds
<1>2. \A c \in Bookings, j \in Slots : refunds'[c][j].state = refunds[c][j].state
  BY <1>1, ClaimChange
<1>3. worker'[w] = x /\ \A v \in Workers \ {w} : worker'[v] = worker[v]
  BY <1>1 DEF AgentsTyped
<1>4. KoraKnows(w)'
  BY <1>2, <1>3 DEF KoraKnows
<1>5. \A v \in Workers : worker'[v] = worker[v] \/ KoraKnows(v)'
  BY <1>3, <1>4
<1>6. \A c \in Bookings, j \in Slots : Way(c, j)
  BY <1>2 DEF Way
<1> QED BY <1>1, <1>5, <1>6, QuietKora DEF KoraHolds

LEMMA QuietSettling ==
    ASSUME WorkInv, KoraInv, faults = 0, NEW b \in Bookings, NEW i \in Slots,
           KoraSettles(b, i)
    PROVE  KoraHolds'
<1>0. /\ AgentsTyped /\ AgentsKnow /\ PaidLive
      /\ \A w \in Workers : KoraKnows(w)
  BY DEF WorkInv, KoraInv
<1>1. PICK to \in {"success", "failed"} : kora' = [kora EXCEPT ![b][i] = to]
  BY DEF KoraSettles
<1>2. kora[b][i] = "processing" /\ UNCHANGED <<refunds, worker, operator>>
  BY DEF KoraSettles, agents
<1>3. /\ kora'[b][i] = to
      /\ \A c \in Bookings, j \in Slots : c # b \/ j # i => kora'[c][j] = kora[c][j]
  BY <1>0, <1>1 DEF AgentsTyped, KoraTyped
<1>4. PaidLive'
  <2> SUFFICES ASSUME NEW c \in Bookings, NEW j \in Slots,
                      kora'[c][j] \in {"processing", "success"}
               PROVE  LiveSlot(c, j)'
    BY DEF PaidLive
  <2>1. kora[c][j] \in {"processing", "success"}
    BY <1>2, <1>3
  <2> QED BY <1>0, <1>2, <2>1 DEF PaidLive, LiveSlot
<1>5. ASSUME NEW w \in Workers PROVE KoraKnows(w)'
  <2>1. worker[w].pc # "idle" => worker[w].booking \in Bookings /\ worker[w].slot \in Slots
    BY <1>0 DEF AgentsTyped, AgentsKnow, HasRefund, WorkerType
  <2> DEFINE c == worker[w].booking
             j == worker[w].slot
  <2>2. worker[w].pc # "idle" /\ kora[c][j] \in {"none", "failed"} => kora'[c][j] = kora[c][j]
    BY <1>2, <1>3, <2>1
  <2> QED BY <1>0, <1>2, <2>2 DEF KoraKnows
<1> QED BY <1>4, <1>5 DEF KoraHolds

LEMMA QuietWorker ==
    ASSUME Apart, WorkInv, KoraInv, faults = 0, faults' = 0,
           NEW w \in Workers, Worker(w)
    PROVE  KoraHolds'
<1>0. RefundsTyped /\ ~Fault
  BY DEF WorkInv, Fault
<1>1. CASE ListUnanswered(w)
  BY <1>0, <1>1, NoChange, QuietCreation DEF ListUnanswered, money
<1>2. CASE ResolveNoShows(w)
  BY <1>2, QuietNoShow DEF ResolveNoShows
<1>3. ASSUME NEW b \in Bookings, SettleUnanswered(w, b) PROVE KoraHolds'
  <2>1. OnlyCreated
    BY <1>0, <1>3, AmountsTyped, CreateIfPaidChange, NoChange
       DEF SettleUnanswered, SettleProblem
  <2>2. UNCHANGED <<kora, worker, operator>>
    BY <1>3 DEF SettleUnanswered, SettleProblem
  <2> QED BY <2>1, <2>2, QuietCreation
<1>4. ASSUME NEW b \in Bookings, PassOver(w, b) PROVE KoraHolds'
  BY <1>0, <1>4, NoChange, QuietCreation DEF PassOver, money
<1>5. CASE Crash(w)
  BY <1>0, <1>5 DEF Crash
<1> QED BY <1>1, <1>2, <1>3, <1>4, <1>5, QuietQuery, QuietSend, QuietAnswer, QuietClaim,
           QuietRelease
        DEF Worker, Proceed

LEMMA QuietStep ==
    ASSUME Apart, WorkInv, KoraInv, faults = 0, faults' = 0, [Next]_vars
    PROVE  KoraHolds'
<1>0. RefundsTyped /\ ~Fault
  BY DEF WorkInv, Fault
<1>1. CASE SetAutomatic
  BY <1>0, <1>1, NoChange, QuietCreation DEF SetAutomatic, money, agents
<1>2. CASE OpsStops
  BY <1>0, <1>2 DEF OpsStops
<1>3. CASE UNCHANGED vars
  BY <1>0, <1>3, NoChange, QuietCreation DEF vars, money, agents
<1> QED BY <1>1, <1>2, <1>3, QuietFinalize, QuietParticipants, QuietOperator, QuietRetry,
           QuietSettling, QuietWorker DEF Next

\* Faults are only counted up.
LEMMA FaultsOnly ==
    ASSUME [Next]_vars
    PROVE  Fault \/ UNCHANGED faults
<1>1. ASSUME NEW w \in Workers, Worker(w) PROVE Fault \/ UNCHANGED faults
  BY <1>1 DEF Worker, Proceed, ListUnanswered, ResolveNoShows, SettleNoShow, SettleUnanswered,
              SettleProblem, PassOver, QueryRefund, SendRefund, RecordAnswer,
              WorkerFinalizes, Crash, ClaimDueRefunds, LockPayout, ReleasePayout, bounds
<1>2. ASSUME NEW b \in Bookings, Participants(b) PROVE UNCHANGED faults
  BY <1>2 DEF Participants, CancelBooking, SellerRefunds, SettleProblem, CompleteBooking,
              ReportBookingIssue, ReportNoShow, TimePasses, Reschedule, SellerDisagrees,
              DisputeNoShow, NoShowLapses, Ask, bounds
<1>3. ASSUME NEW b \in Bookings, Operator(b) PROVE UNCHANGED faults
  BY <1>3 DEF Operator, OpsCreateRefund, OpsResolveBookingIssue, OpsResolveNoShow,
              SettleNoShow, OpsApprove, OpsRetry, OpsRecord, Requeue, Ask, bounds
<1>4. ASSUME NEW b \in Bookings, NEW i \in Slots,
             AutoRetryFailures(b, i) \/ KoraSettles(b, i)
      PROVE  UNCHANGED faults
  BY <1>4 DEF AutoRetryFailures, Requeue, KoraSettles, bounds
<1>5. CASE SetAutomatic \/ OpsFinalize \/ OpsStops \/ UNCHANGED vars
  BY <1>5 DEF SetAutomatic, OpsFinalize, OpsStops, Ask, vars, bounds
<1> QED BY <1>1, <1>2, <1>3, <1>4, <1>5 DEF Next

LEMMA KoraStepInv == Apart /\ WorkInv /\ KoraInv /\ [Next]_vars => KoraInv'
<1> SUFFICES ASSUME Apart, WorkInv, KoraInv, [Next]_vars PROVE KoraInv'
  OBVIOUS
<1>1. OneLive'
  BY OneLiveStep DEF KoraInv
<1>2. faults \in Nat /\ (faults' = faults \/ faults' = faults + 1)
  BY FaultsOnly DEF KoraInv, Fault
<1>3. ASSUME faults' = 0 PROVE KoraHolds'
  <2>1. faults = 0
    BY <1>2, <1>3
  <2> QED BY <1>3, <2>1, QuietStep
<1> QED BY <1>1, <1>2, <1>3 DEF KoraInv, KoraHolds

\* As long as the process runs and Kora answers, and no two workers are at one refund, Kora
\* pays at most one refund of a booking (lifecycle.go, refunds.go, refunds_one_per_booking):
\* what Kora has is live, one refund of a booking is, and a refund fails only when Kora does
\* not have it.
THEOREM KoraPaysOneRefund == Spec /\ []Apart => []KoraPaysOnce
<1>1. WorkInv /\ KoraInv => KoraPaysOnce
  <2> SUFFICES ASSUME KoraInv, faults = 0, NEW b \in Bookings
               PROVE  Cardinality(Given(b)) <= 1
    BY DEF KoraPaysOnce
  <2>1. \A i, j \in Given(b) : i = j
    BY DEF KoraInv, PaidLive, OneLive, Given
  <2>2. CASE Given(b) = {}
    BY <2>2, FS_EmptySet
  <2>3. CASE Given(b) # {}
    <3>1. PICK i : Given(b) = {i}
      BY <2>1, <2>3
    <3> QED BY <3>1, FS_Singleton
  <2> QED BY <2>2, <2>3
<1>2. Apart /\ WorkInv /\ KoraInv /\ [Next]_vars => KoraInv'
  BY KoraStepInv
<1> HIDE DEF Init, Next, vars, WorkInv, KoraInv, KoraPaysOnce, Apart
<1> QED BY <1>1, <1>2, KoraInitInv, WorkAlways, PTL DEF Spec

(***************************************************************************)
(* Types: the amounts of refunds are within what the buyer paid, attempts  *)
(* within their limits, and only reports that are due wait for the worker. *)
(***************************************************************************)

RefundRecord ==
    [state : RefundStates, amount : 0 .. Price + Fee, share : 0 .. Price,
     liability : {"payable", "receivable"}, sent : BOOLEAN,
     tries : 0 .. MaxTries, auto : 0 .. MaxAuto, counted : BOOLEAN]

RefundsBounded == refunds \in [Bookings -> [Slots -> RefundRecord]]

LifecycleTyped ==
    /\ phase \in [Bookings -> Phases]
    /\ state \in [Bookings -> {"confirmed", "completed", "cancelled",
                               "no_show_buyer", "no_show_seller"}]
    /\ completed \in [Bookings -> SUBSET Roles]
    /\ problem \in [Bookings -> {"none", "open", "disputed", "seller", "resolved"}]
    /\ report \in [Bookings -> {"none", "open", "due", "disputed", "accepted", "rejected"}]
    /\ absent \in [Bookings -> Roles]
    /\ overdue \in Seq(Bookings)

RestTyped ==
    /\ payment \in [Bookings -> {"paid", "partially_refunded", "refunded"}]
    /\ outside \in [Bookings -> SUBSET Slots]
    /\ automatic \in BOOLEAN
    /\ listed \in [Workers -> SUBSET Bookings]
    /\ faults \in 0 .. MaxFaults /\ asked \in 0 .. MaxAsks

TypeInv == WorkInv /\ RefundsBounded /\ LifecycleTyped /\ RestTyped

\* The platform's part of an amount is at most the amount.
LEMMA PartOfAmount ==
    ASSUME NEW amount \in Nat
    PROVE  PlatformShare(amount) \in Nat /\ PlatformShare(amount) <= amount
<1>1. Deduction \in Nat /\ Price \in Nat /\ Deduction < Price
  BY SettlementConstants
<1> QED BY <1>1 DEF PlatformShare

\* A refund of at most the price takes at most the price from the seller, and
\* gives the buyer at most what the buyer paid.
LEMMA AmountsBounded ==
    ASSUME NEW amount \in 0 .. Price, NEW reason
    PROVE  SellerShare(amount) \in 0 .. Price /\ WithFee(amount, reason) \in 0 .. Price + Fee
<1>1. Price \in Nat /\ Fee \in Nat /\ amount \in Nat /\ amount <= Price
  BY SettlementConstants
<1>2. PlatformShare(amount) \in Nat /\ PlatformShare(amount) <= amount
  BY <1>1, PartOfAmount
<1> QED BY <1>1, <1>2 DEF SellerShare, WithFee

LEMMA SetBounded ==
    ASSUME RefundsBounded, NEW b \in Bookings, NEW i \in Slots, NEW r \in RefundRecord,
           refunds' = [refunds EXCEPT ![b][i] = r]
    PROVE  RefundsBounded'
<1>1. refunds[b] \in [Slots -> RefundRecord]
      /\ refunds' = [refunds EXCEPT ![b] = [refunds[b] EXCEPT ![i] = r]]
  BY DEF RefundsBounded
<1> QED BY <1>1 DEF RefundsBounded

LEMMA CreateBounded ==
    ASSUME RefundsBounded, PayoutTyped, NEW b \in Bookings, NEW amount \in 0 .. Price,
           NEW reason, CreateRefund(b, amount, reason)
    PROVE  RefundsBounded'
<1>1. PICK i \in Slots, st \in {"queued", "pending_approval"} :
        refunds' = [refunds EXCEPT ![b][i] =
                [NoRefund EXCEPT !.state = st, !.amount = WithFee(amount, reason),
                                 !.share = SellerShare(amount),
                                 !.liability = LiabilityOf(b)]]
  <2>1. CASE automatic
    BY <2>1 DEF CreateRefund
  <2>2. CASE ~automatic
    BY <2>2 DEF CreateRefund
  <2> QED BY <2>1, <2>2
<1> DEFINE r == [NoRefund EXCEPT !.state = st, !.amount = WithFee(amount, reason),
                                 !.share = SellerShare(amount),
                                 !.liability = LiabilityOf(b)]
<1>2. /\ WithFee(amount, reason) \in 0 .. Price + Fee /\ SellerShare(amount) \in 0 .. Price
      /\ LiabilityOf(b) \in {"payable", "receivable"} /\ st \in RefundStates
  BY AmountsBounded DEF LiabilityOf, RefundStates
<1>3. NoRefund \in RefundRecord
  BY SettlementConstants DEF NoRefund, RefundRecord, RefundStates
<1>4. r \in RefundRecord
  BY <1>2, <1>3 DEF RefundRecord
<1> HIDE DEF r
<1>5. refunds' = [refunds EXCEPT ![b][i] = r]
  BY <1>1 DEF r
<1> QED BY <1>4, <1>5, SetBounded

LEMMA CreateIfPaidBounded ==
    ASSUME RefundsBounded, PayoutTyped, NEW b \in Bookings, NEW amount \in 0 .. Price,
           NEW reason, CreateRefundIfPaid(b, amount, reason)
    PROVE  RefundsBounded'
BY CreateBounded DEF CreateRefundIfPaid, RefundsBounded

LEMMA AmountsInPrice == Amounts \cup {0, Price} \subseteq 0 .. Price
BY SettlementConstants DEF Amounts

\* The worker's and the operator's statements.
LEMMA StateBounded ==
    ASSUME RefundsBounded, NEW b \in Bookings, NEW i \in Slots, NEW st \in RefundStates,
           SetRefund(b, i, [refunds[b][i] EXCEPT !.state = st])
    PROVE  RefundsBounded'
<1> DEFINE r == [refunds[b][i] EXCEPT !.state = st]
<1>0. refunds[b][i] \in RefundRecord
  BY DEF RefundsBounded
<1>1. r \in RefundRecord
  BY <1>0 DEF RefundRecord
<1>2. refunds' = [refunds EXCEPT ![b][i] = r]
  BY DEF SetRefund
<1> HIDE DEF r
<1> QED BY <1>1, <1>2, SetBounded

LEMMA StatementBounded ==
    ASSUME RefundsBounded, NEW b \in Bookings, NEW i \in Slots,
           \/ MarkRefundFailed(b, i) \/ MarkRefundSubmitted(b, i)
           \/ RetryRefund(b, i) \/ FinalizeRefund(b, i)
    PROVE  RefundsBounded'
<1>1. CASE UNCHANGED refunds
  BY <1>1 DEF RefundsBounded
<1>2. CASE \E st \in RefundStates : SetRefund(b, i, [refunds[b][i] EXCEPT !.state = st])
  BY <1>2, StateBounded
<1>3. CASE SetRefund(b, i, [refunds[b][i] EXCEPT !.state = "submitted", !.sent = TRUE])
  <2> DEFINE r == [refunds[b][i] EXCEPT !.state = "submitted", !.sent = TRUE]
  <2>0. refunds[b][i] \in RefundRecord
    BY DEF RefundsBounded
  <2>1. r \in RefundRecord
    BY <2>0 DEF RefundRecord, RefundStates
  <2>2. refunds' = [refunds EXCEPT ![b][i] = r]
    BY <1>3 DEF SetRefund
  <2> HIDE DEF r
  <2> QED BY <2>1, <2>2, SetBounded
<1>4. "failed" \in RefundStates /\ "processed" \in RefundStates
  BY DEF RefundStates
<1> QED BY <1>1, <1>2, <1>3, <1>4 DEF MarkRefundFailed, MarkRefundSubmitted, RetryRefund,
                                       FinalizeRefund

-------------------------------------------------------------------------------
(* The reports that are due. *)

\* A nonempty set of places has a first one.
LEMMA FirstPlace ==
    ASSUME NEW I, I \subseteq Nat, I # {}
    PROVE  Min(I) \in I /\ \A i \in I : Min(I) <= i
<1>1. PICK i \in I : \A j \in I : <<j, i>> \notin OpToRel(<, Nat)
  BY NatLessThanWellFounded, WFMin
<1>2. ASSUME NEW j \in I PROVE i <= j
  <2>1. i \in Nat /\ j \in Nat
    OBVIOUS
  <2>2. <<j, i>> \notin OpToRel(<, Nat)
    BY <1>1
  <2>3. ~(j < i)
    BY <2>1, <2>2 DEF OpToRel
  <2> QED BY <2>1, <2>3
<1>3. \E x \in I : \A y \in I : x <= y
  BY <1>2
<1> QED BY <1>3 DEF Min

\* RemoveFirst takes out the first place of an element, if it has one.
LEMMA RemovedPlace ==
    ASSUME NEW s \in Seq(Bookings), NEW b
    PROVE  \/ RemoveFirst(s, b) = s /\ \A i \in 1 .. Len(s) : s[i] # b
           \/ \E i \in 1 .. Len(s) : s[i] = b /\ RemoveFirst(s, b) = RemoveAt(s, i)
<1> DEFINE I == {i \in 1 .. Len(s) : s[i] = b}
<1>1. CASE I = {}
  BY <1>1 DEF RemoveFirst
<1>2. CASE I # {}
  <2>1. I \subseteq Nat
    OBVIOUS
  <2>2. Min(I) \in I
    <3> HIDE DEF I
    <3> QED BY <1>2, <2>1, FirstPlace
  <2>3. SelectInSeq(s, LAMBDA v : v = b) = Min(I)
    BY <1>2 DEF SelectInSeq
  <2>4. RemoveFirst(s, b) = RemoveAt(s, Min(I))
    BY <1>2, <2>3 DEF RemoveFirst
  <2> QED BY <2>2, <2>4
<1> QED BY <1>1, <1>2

\* The sequence without one place.
LEMMA RemoveAtPlaces ==
    ASSUME NEW s \in Seq(Bookings), NEW i \in 1 .. Len(s)
    PROVE  /\ RemoveAt(s, i) \in Seq(Bookings)
           /\ Len(RemoveAt(s, i)) = Len(s) - 1
           /\ \A j \in 1 .. Len(s) - 1 :
                RemoveAt(s, i)[j] = IF j < i THEN s[j] ELSE s[j + 1]
<1> DEFINE front == SubSeq(s, 1, i - 1)
           back == SubSeq(s, i + 1, Len(s))
<1>1. front \in Seq(Bookings) /\ Len(front) = i - 1
      /\ \A j \in 1 .. i - 1 : front[j] = s[j]
  BY SubSeqProperties
<1>2. back \in Seq(Bookings) /\ Len(back) = Len(s) - i
      /\ \A j \in 1 .. Len(s) - i : back[j] = s[i + j]
  BY SubSeqProperties
<1> HIDE DEF front, back
<1>3. /\ front \o back \in Seq(Bookings)
      /\ Len(front \o back) = Len(s) - 1
      /\ \A j \in 1 .. Len(s) - 1 : (front \o back)[j] = IF j < i THEN s[j] ELSE s[j + 1]
  <2>1. Len(s) \in Nat /\ i \in Nat /\ 1 <= i /\ i <= Len(s)
    OBVIOUS
  <2>2. front \o back \in Seq(Bookings)
    BY <1>1, <1>2, ConcatProperties
  <2>3. Len(front \o back) = Len(s) - 1
    BY <1>1, <1>2, <2>1, ConcatProperties
  <2>4. ASSUME NEW j \in 1 .. Len(s) - 1
        PROVE  (front \o back)[j] = IF j < i THEN s[j] ELSE s[j + 1]
    <3>1. (front \o back)[j]
             = IF j <= Len(front) THEN front[j] ELSE back[j - Len(front)]
      BY <1>1, <1>2, <2>1, ConcatProperties
    <3>2. CASE j < i
      BY <1>1, <2>1, <3>1, <3>2
    <3>3. CASE i <= j
      <4>1. j - (i - 1) \in 1 .. Len(s) - i /\ i + (j - (i - 1)) = j + 1
        BY <2>1, <3>3
      <4>2. back[j - (i - 1)] = s[j + 1]
        BY <1>2, <4>1
      <4> QED BY <1>1, <2>1, <3>1, <3>3, <4>2
    <3>4. j < i \/ i <= j
      BY <2>1
    <3> QED BY <3>2, <3>3, <3>4
  <2> QED BY <2>2, <2>3, <2>4
<1> QED BY <1>3 DEF RemoveAt, front, back

LEMMA RemovedTyped ==
    ASSUME NEW s \in Seq(Bookings), NEW b
    PROVE  RemoveFirst(s, b) \in Seq(Bookings)
BY RemovedPlace, RemoveAtPlaces

-------------------------------------------------------------------------------
(* Every action keeps the types. *)

LEMMA InitTyped == Init => TypeInv
<1> SUFFICES ASSUME Init PROVE TypeInv
  OBVIOUS
<1>1. RefundsBounded
  <2>1. NoRefund \in RefundRecord
    BY SettlementConstants DEF NoRefund, RefundRecord, RefundStates
  <2> QED BY <2>1 DEF Init, RefundsBounded
<1>2. LifecycleTyped
  BY DEF Init, LifecycleTyped, Phases, Roles
<1>3. RestTyped
  BY SettlementConstants DEF Init, RestTyped
<1> QED BY <1>1, <1>2, <1>3, WorkInitInv DEF TypeInv

LEMMA AskTyped ==
    ASSUME RestTyped, Ask
    PROVE  asked' \in 0 .. MaxAsks /\ faults' = faults
BY SettlementConstants DEF RestTyped, Ask

LEMMA FaultTyped ==
    ASSUME RestTyped, Fault
    PROVE  faults' \in 0 .. MaxFaults
BY SettlementConstants DEF RestTyped, Fault

\* The variables of RestTyped that an action leaves alone or counts.
LEMMA RestKept ==
    ASSUME RestTyped, UNCHANGED <<payment, outside, listed>>,
           automatic' \in BOOLEAN,
           faults' \in 0 .. MaxFaults, asked' \in 0 .. MaxAsks
    PROVE  RestTyped'
BY DEF RestTyped

LEMMA LifecycleKept ==
    ASSUME LifecycleTyped, UNCHANGED lifecycle
    PROVE  LifecycleTyped'
BY DEF LifecycleTyped, lifecycle

LEMMA SettleProblemTyped ==
    ASSUME TypeInv, NEW b \in Bookings, NEW amount \in 0 .. Price, SettleProblem(b, amount)
    PROVE  RefundsBounded' /\ LifecycleTyped'
           /\ UNCHANGED <<payment, outside, automatic, faults, asked>>
<1>1. RefundsBounded'
  BY CreateIfPaidBounded DEF SettleProblem, TypeInv, WorkInv, RefundsBounded
<1>2. LifecycleTyped'
  BY DEF SettleProblem, TypeInv, LifecycleTyped
<1> QED BY <1>1, <1>2 DEF SettleProblem, bounds

LEMMA ParticipantsTyped ==
    ASSUME TypeInv, NEW b \in Bookings, Participants(b)
    PROVE  RefundsBounded' /\ LifecycleTyped' /\ RestTyped'
<1> USE DEF TypeInv
<1>0. PayoutTyped /\ Price \in 0 .. Price
  BY SettlementConstants DEF WorkInv
<1>1. CASE TimePasses(b)
  <2>1. LifecycleTyped'
    BY <1>1 DEF TimePasses, LifecycleTyped, Phases, After
  <2> QED BY <1>1, <2>1 DEF TimePasses, money, agents, bounds, RefundsBounded, RestTyped
<1>2. CASE Reschedule(b)
  <2>1. LifecycleTyped'
    BY <1>2 DEF Reschedule, LifecycleTyped, Phases
  <2> QED BY <1>2, <2>1, AskTyped DEF Reschedule, money, agents, RefundsBounded, RestTyped
<1>3. CASE SellerDisagrees(b)
  BY <1>3 DEF SellerDisagrees, LifecycleTyped, money, agents, bounds, RefundsBounded, RestTyped
<1>4. CASE DisputeNoShow(b)
  BY <1>4 DEF DisputeNoShow, LifecycleTyped, money, agents, bounds, RefundsBounded, RestTyped
<1>5. CASE NoShowLapses(b)
  BY <1>5 DEF NoShowLapses, LifecycleTyped, money, agents, bounds, RefundsBounded, RestTyped
<1>6. ASSUME NEW amount \in Amounts, SellerRefunds(b, amount)
      PROVE  RefundsBounded' /\ LifecycleTyped' /\ RestTyped'
  <2>1. amount \in 0 .. Price /\ SettleProblem(b, amount) /\ UNCHANGED listed
    BY <1>6, AmountsInPrice DEF SellerRefunds, agents
  <2> QED BY <2>1, SettleProblemTyped DEF RestTyped
<1>7. ASSUME NEW role \in Roles, CancelBooking(b, role)
      PROVE  RefundsBounded' /\ LifecycleTyped' /\ RestTyped'
  <2>1. RefundsBounded'
    BY <1>0, <1>7, CreateBounded DEF CancelBooking, RefundsBounded
  <2>2. LifecycleTyped'
    BY <1>7 DEF CancelBooking, LifecycleTyped
  <2> QED BY <1>7, <2>1, <2>2, AskTyped DEF CancelBooking, agents, RestTyped
<1>8. ASSUME NEW role \in Roles, CompleteBooking(b, role)
      PROVE  RefundsBounded' /\ LifecycleTyped' /\ RestTyped'
  <2>1. LifecycleTyped'
    BY <1>8 DEF CompleteBooking, LifecycleTyped
  <2> QED BY <1>8, <2>1, AskTyped DEF CompleteBooking, money, agents, RefundsBounded, RestTyped
<1>9. ASSUME NEW role \in Roles, ReportBookingIssue(b, role)
      PROVE  RefundsBounded' /\ LifecycleTyped' /\ RestTyped'
  <2>1. LifecycleTyped'
    BY <1>9 DEF ReportBookingIssue, LifecycleTyped
  <2> QED BY <1>9, <2>1, AskTyped DEF ReportBookingIssue, money, agents, RefundsBounded, RestTyped
<1>10. ASSUME NEW role \in Roles, ReportNoShow(b, role)
       PROVE  RefundsBounded' /\ LifecycleTyped' /\ RestTyped'
  <2>1. LifecycleTyped'
    BY <1>10 DEF ReportNoShow, LifecycleTyped, OtherRole, Roles
  <2> QED BY <1>10, <2>1, AskTyped DEF ReportNoShow, money, agents, RefundsBounded, RestTyped
<1> QED BY <1>1, <1>2, <1>3, <1>4, <1>5, <1>6, <1>7, <1>8, <1>9, <1>10 DEF Participants

LEMMA NoShowTyped ==
    ASSUME TypeInv, NEW b \in Bookings, NEW who \in Roles, NEW outcome \in {"accepted", "rejected"},
           SettleNoShow(b, who, outcome)
    PROVE  RefundsBounded' /\ LifecycleTyped' /\ RestTyped'
<1> USE DEF TypeInv
<1>1. RefundsBounded'
  <2>1. Price \in 0 .. Price /\ PayoutTyped
    BY SettlementConstants DEF WorkInv
  <2> QED BY <2>1, CreateIfPaidBounded DEF SettleNoShow, RefundsBounded
<1>2. LifecycleTyped'
  <2>1. overdue' \in Seq(Bookings)
    BY RemovedTyped DEF SettleNoShow, LifecycleTyped
  <2> QED BY <2>1 DEF SettleNoShow, LifecycleTyped
<1> QED BY <1>1, <1>2 DEF SettleNoShow, agents, bounds, RestTyped

LEMMA OperatorTyped ==
    ASSUME TypeInv, NEW b \in Bookings, Operator(b)
    PROVE  RefundsBounded' /\ LifecycleTyped' /\ RestTyped'
<1> USE DEF TypeInv
<1>0. PayoutTyped /\ Price \in 0 .. Price
  BY SettlementConstants DEF WorkInv
<1>1. ASSUME NEW amount \in Amounts, OpsCreateRefund(b, amount)
      PROVE  RefundsBounded' /\ LifecycleTyped' /\ RestTyped'
  BY <1>0, <1>1, AmountsInPrice, CreateBounded, LifecycleKept, AskTyped
     DEF OpsCreateRefund, agents, RestTyped
<1>2. ASSUME NEW amount \in Amounts \cup {0}, OpsResolveBookingIssue(b, amount)
      PROVE  RefundsBounded' /\ LifecycleTyped' /\ RestTyped'
  <2>1. RefundsBounded'
    BY <1>0, <1>2, AmountsInPrice, CreateBounded DEF OpsResolveBookingIssue, RefundsBounded
  <2> QED BY <1>2, <2>1 DEF OpsResolveBookingIssue, agents, bounds, LifecycleTyped, RestTyped
<1>3. ASSUME NEW who \in Roles, OpsResolveNoShow(b, who, "accepted")
      PROVE  RefundsBounded' /\ LifecycleTyped' /\ RestTyped'
  BY <1>3, NoShowTyped DEF OpsResolveNoShow
<1>4. CASE OpsResolveNoShow(b, absent[b], "rejected")
  BY <1>4, NoShowTyped DEF OpsResolveNoShow, LifecycleTyped
<1>5. ASSUME NEW i \in Slots, OpsApprove(b, i)
      PROVE  RefundsBounded' /\ LifecycleTyped' /\ RestTyped'
  <2>1. RefundsBounded'
    BY <1>5, StateBounded DEF OpsApprove, RefundStates
  <2> QED BY <1>5, <2>1, LifecycleKept DEF OpsApprove, agents, bounds, RestTyped
<1>6. ASSUME NEW i \in Slots, OpsRetry(b, i)
      PROVE  RefundsBounded' /\ LifecycleTyped' /\ RestTyped'
  <2> DEFINE r == [refunds[b][i] EXCEPT !.state = "queued", !.tries = 0]
  <2>1. refunds[b][i] \in RefundRecord
    BY DEF RefundsBounded
  <2>2. r \in RefundRecord
    <3>1. 0 \in 0 .. MaxTries /\ "queued" \in RefundStates
      BY SettlementConstants DEF RefundStates
    <3> QED BY <2>1, <3>1 DEF RefundRecord
  <2>3. refunds' = [refunds EXCEPT ![b][i] = r]
    BY <1>6 DEF OpsRetry, SetRefund
  <2> HIDE DEF r
  <2>4. RefundsBounded'
    BY <2>2, <2>3, SetBounded
  <2> QED BY <1>6, <2>4, LifecycleKept DEF OpsRetry, Requeue, agents, bounds, RestTyped
<1>7. ASSUME NEW i \in Slots, OpsRecord(b, i)
      PROVE  RefundsBounded' /\ LifecycleTyped' /\ RestTyped'
  <2>1. RefundsBounded'
    BY <1>7, StateBounded DEF OpsRecord, RefundStates
  <2> QED BY <1>7, <2>1, LifecycleKept DEF OpsRecord, bounds, RestTyped
<1> QED BY <1>1, <1>2, <1>3, <1>4, <1>5, <1>6, <1>7 DEF Operator

LEMMA FinalizeTyped ==
    ASSUME TypeInv, NEW b \in Bookings, NEW i \in Slots, FinalizeRefund(b, i)
    PROVE  RefundsBounded'
           /\ payment' \in [Bookings -> {"paid", "partially_refunded", "refunded"}]
<1>1. RefundsBounded'
  BY StatementBounded DEF TypeInv
<1> QED BY <1>1 DEF TypeInv, FinalizeRefund, PaymentAfter, RestTyped

LEMMA ReleaseBounded ==
    ASSUME RefundsBounded, NEW w \in Workers, ReleasePayout(w), worker[w].booking \in Bookings
    PROVE  RefundsBounded'
<1> DEFINE b == worker[w].booking
           d(i) == i \in {j \in Slots : Deducted(b, j)}
           new == [i \in Slots |-> [refunds[b][i] EXCEPT !.counted = d(i)]]
<1>1. refunds' = [refunds EXCEPT ![b] = new]
  BY DEF ReleasePayout
<1>2. ASSUME NEW i \in Slots
      PROVE  [refunds[b][i] EXCEPT !.counted = d(i)] \in RefundRecord
  <2>1. refunds[b][i] \in RefundRecord /\ d(i) \in BOOLEAN
    BY DEF RefundsBounded
  <2> HIDE DEF d
  <2> QED BY <2>1 DEF RefundRecord
<1>3. new \in [Slots -> RefundRecord]
  BY <1>2
<1> HIDE DEF new
<1> QED BY <1>1, <1>3 DEF RefundsBounded

LEMMA WorkerTyped ==
    ASSUME TypeInv, NEW w \in Workers, Worker(w)
    PROVE  RefundsBounded' /\ LifecycleTyped' /\ RestTyped'
<1> USE DEF TypeInv
<1> DEFINE b == worker[w].booking
           i == worker[w].slot
<1>0. worker[w].pc # "idle" => b \in Bookings /\ i \in Slots
  BY DEF WorkInv, AgentsTyped, AgentsKnow, HasRefund, WorkerType
<1>1. CASE ListUnanswered(w)
  BY <1>1, LifecycleKept DEF ListUnanswered, money, bounds, RefundsBounded, RestTyped
<1>2. CASE ResolveNoShows(w)
  <2>1. Head(overdue) \in Bookings
    BY <1>2 DEF ResolveNoShows, LifecycleTyped
  <2>2. absent[Head(overdue)] \in Roles
    BY <2>1 DEF LifecycleTyped
  <2> QED BY <1>2, <2>1, <2>2, NoShowTyped DEF ResolveNoShows
<1>3. ASSUME NEW c \in Bookings, SettleUnanswered(w, c)
      PROVE  RefundsBounded' /\ LifecycleTyped' /\ RestTyped'
  <2>1. Price \in 0 .. Price /\ SettleProblem(c, Price)
    BY <1>3, SettlementConstants DEF SettleUnanswered
  <2> QED BY <1>3, <2>1, SettleProblemTyped DEF SettleUnanswered, RestTyped
<1>4. ASSUME NEW c \in Bookings, PassOver(w, c)
      PROVE  RefundsBounded' /\ LifecycleTyped' /\ RestTyped'
  BY <1>4, LifecycleKept DEF PassOver, money, bounds, RefundsBounded, RestTyped
<1>5. CASE QueryRefund(w)
  <2>1. RefundsBounded'
    BY <1>0, <1>5, StatementBounded DEF QueryRefund, RefundsBounded
  <2> QED BY <1>5, <2>1, LifecycleKept, FaultTyped DEF QueryRefund, RestTyped
<1>6. CASE SendRefund(w)
  <2>1. RefundsBounded'
    BY <1>0, <1>6, StatementBounded DEF SendRefund, RefundsBounded
  <2> QED BY <1>6, <2>1, LifecycleKept, FaultTyped DEF SendRefund, RestTyped
<1>7. CASE RecordAnswer(w)
  <2>1. RefundsBounded'
    BY <1>0, <1>7, StatementBounded DEF RecordAnswer
  <2> QED BY <1>7, <2>1, LifecycleKept DEF RecordAnswer, bounds, RestTyped
<1>8. CASE WorkerFinalizes(w)
  <2>1. RefundsBounded' /\ payment' \in [Bookings -> {"paid", "partially_refunded", "refunded"}]
    BY <1>0, <1>8, FinalizeTyped DEF WorkerFinalizes
  <2> QED BY <1>8, <2>1, LifecycleKept DEF WorkerFinalizes, bounds, RestTyped
<1>9. CASE Crash(w)
  BY <1>9, LifecycleKept, FaultTyped DEF Crash, money, RefundsBounded, RestTyped
<1>10. ASSUME NEW c \in Bookings, NEW j \in Slots, ClaimDueRefunds(w, c, j)
       PROVE  RefundsBounded' /\ LifecycleTyped' /\ RestTyped'
  <2> DEFINE t == refunds[c][j].tries
             n == IF t < MaxTries THEN t + 1 ELSE t
             r == [refunds[c][j] EXCEPT !.tries = n]
  <2>1. refunds[c][j] \in RefundRecord
    BY DEF RefundsBounded
  <2>2. t \in 0 .. MaxTries
    BY <2>1 DEF RefundRecord
  <2>3. n \in 0 .. MaxTries
    BY <2>2, SettlementConstants
  <2>4. refunds' = [refunds EXCEPT ![c][j] = r]
    BY <1>10, <2>1 DEF ClaimDueRefunds, SetRefund, RefundRecord
  <2>5. r \in RefundRecord
    <3> HIDE DEF n
    <3> QED BY <2>1, <2>3 DEF RefundRecord
  <2> HIDE DEF r
  <2>6. RefundsBounded'
    BY <2>4, <2>5, SetBounded
  <2> QED BY <1>10, <2>6, LifecycleKept DEF ClaimDueRefunds, bounds, RestTyped
<1>11. ASSUME NEW c \in Bookings, LockPayout(w, c)
       PROVE  RefundsBounded' /\ LifecycleTyped' /\ RestTyped'
  BY <1>11, LifecycleKept DEF LockPayout, money, bounds, RefundsBounded, RestTyped
<1>12. CASE ReleasePayout(w)
  <2>1. RefundsBounded'
    BY <1>0, <1>12, ReleaseBounded DEF ReleasePayout
  <2> QED BY <1>12, <2>1, LifecycleKept DEF ReleasePayout, bounds, RestTyped
<1> QED BY <1>1, <1>2, <1>3, <1>4, <1>5, <1>6, <1>7, <1>8, <1>9, <1>10, <1>11, <1>12
        DEF Worker, Proceed

LEMMA TypeStep == TypeInv /\ [Next]_vars => TypeInv'
<1> SUFFICES ASSUME TypeInv, [Next]_vars PROVE RefundsBounded' /\ LifecycleTyped' /\ RestTyped'
  BY WorkStepInv DEF TypeInv
<1> USE DEF TypeInv
<1>1. CASE SetAutomatic
  BY <1>1, LifecycleKept, AskTyped DEF SetAutomatic, money, agents, RefundsBounded, RestTyped
<1>2. CASE OpsFinalize
  <2>1. operator.booking \in Bookings /\ operator.slot \in Slots
    BY <1>2 DEF OpsFinalize, WorkInv, AgentsTyped
  <2>2. RefundsBounded' /\ payment' \in [Bookings -> {"paid", "partially_refunded", "refunded"}]
    BY <1>2, <2>1, FinalizeTyped DEF OpsFinalize
  <2> QED BY <1>2, <2>2, LifecycleKept DEF OpsFinalize, bounds, RestTyped
<1>3. CASE OpsStops
  BY <1>3, LifecycleKept, FaultTyped DEF OpsStops, money, RefundsBounded, RestTyped
<1>4. ASSUME NEW b \in Bookings, NEW i \in Slots, AutoRetryFailures(b, i)
      PROVE  RefundsBounded' /\ LifecycleTyped' /\ RestTyped'
  <2> DEFINE a == refunds[b][i].auto + 1
             r == [refunds[b][i] EXCEPT !.state = "queued", !.tries = 0, !.auto = a]
  <2>1. refunds[b][i] \in RefundRecord
    BY DEF RefundsBounded
  <2>2. a \in 0 .. MaxAuto /\ 0 \in 0 .. MaxTries
    BY <1>4, <2>1, SettlementConstants DEF AutoRetryFailures, RefundRecord
  <2>3. refunds' = [refunds EXCEPT ![b][i] = r]
    BY <1>4, <2>1 DEF AutoRetryFailures, SetRefund, RefundRecord
  <2>4. r \in RefundRecord
    <3> HIDE DEF a
    <3> QED BY <2>1, <2>2 DEF RefundRecord, RefundStates
  <2> HIDE DEF r
  <2>5. RefundsBounded'
    BY <2>3, <2>4, SetBounded
  <2> QED BY <1>4, <2>5, LifecycleKept DEF AutoRetryFailures, Requeue, agents, bounds, RestTyped
<1>5. ASSUME NEW b \in Bookings, NEW i \in Slots, KoraSettles(b, i)
      PROVE  RefundsBounded' /\ LifecycleTyped' /\ RestTyped'
  BY <1>5, LifecycleKept DEF KoraSettles, agents, bounds, RefundsBounded, RestTyped
<1>6. CASE UNCHANGED vars
  BY <1>6, LifecycleKept DEF vars, money, agents, bounds, RefundsBounded, RestTyped
<1> QED BY <1>1, <1>2, <1>3, <1>4, <1>5, <1>6, ParticipantsTyped, OperatorTyped, WorkerTyped
       DEF Next

\* Every variable of Settlement keeps its type, whoever acts: no refund is more than
\* the buyer paid with the fee, its share is at most the price, its attempts are within
\* their limits, and only bookings wait in the list of overdue reports.
THEOREM TypeCorrect == Spec => []TypeOK
<1>1. TypeInv => TypeOK
  BY DEF TypeInv, WorkInv, AgentsTyped, KoraTyped, WorkerType, PayoutTyped, RefundsBounded,
         RefundRecord, LifecycleTyped, RestTyped, TypeOK
<1> HIDE DEF Init, Next, vars, TypeInv, TypeOK
<1> QED BY <1>1, InitTyped, TypeStep, PTL DEF Spec
===============================================================================
