----------------------------- MODULE PayoutsProofs -----------------------------
(* The safety of Payouts, for every set of payouts. *)
EXTENDS Payouts, Sums, FiniteSetTheorems, TLAPS

USE DEF Agents

(***************************************************************************)
(* Types.  An agent at work has a payout in hand; a payout that has not    *)
(* been released has no amounts; a locked one is scheduled and not held    *)
(* back, and is locked once.                                               *)
(***************************************************************************)

JobKnown == \A a \in Agents : pc[a] # "idle" => job[a] \in Payouts

Typed == TypeOK /\ JobKnown

Fresh == \A p \in Payouts : payoutState[p] = "scheduled" => amount[p] = 0 /\ recovery[p] = 0

Releasing ==
    /\ \A w \in Workers : pc[w] = "locked" =>
           payoutState[job[w]] = "scheduled" /\ ~blocked[job[w]]
    /\ \A v, w \in Workers :
           pc[v] = "locked" /\ pc[w] = "locked" /\ job[v] = job[w] => v = w

\* What is taken is owed, and is not more than is left.
LEMMA TakenBounds ==
    ASSUME owed \in Nat, NEW left \in Nat
    PROVE  Taken(left) \in Nat /\ Taken(left) <= owed /\ Taken(left) <= left
<1>1. RecoveryMaxBps \in Nat /\ RecoveryMaxBps <= 10000
  BY PayoutConstants
<1> DEFINE part == (left * RecoveryMaxBps) \div 10000
<1>2. left * RecoveryMaxBps \in Nat /\ left * RecoveryMaxBps <= left * 10000
  BY <1>1
<1>3. part \in Nat /\ part <= left
  <2> DEFINE whole == left * RecoveryMaxBps
  <2>1. whole \in Nat /\ whole <= left * 10000
    BY <1>2
  <2> HIDE DEF whole
  <2>2. whole \div 10000 \in Nat /\ whole \div 10000 <= left
    BY <2>1
  <2> QED BY <2>2 DEF whole
<1> HIDE DEF part
<1>4. \E x \in {owed, part} : \A y \in {owed, part} : x <= y
  BY <1>3
<1>5. Min({owed, part}) \in {owed, part} /\ \A y \in {owed, part} : Min({owed, part}) <= y
  BY <1>4 DEF Min
<1>6. Taken(left) = Min({owed, part})
  BY DEF Taken, part
<1> QED BY <1>3, <1>5, <1>6

\* What a refund takes out of a payout.
LEMMA RefundedTyped ==
    ASSUME TypeOK, NEW p \in Payouts
    PROVE  Refunded(p) \in Nat /\ Entitlement[p] - Refunded(p) \in Nat
  BY PayoutConstants DEF Refunded, TypeOK

\* The agents' moves keep their types.
LEMMA RestTyped ==
    ASSUME Typed, NEW a \in Agents, Rest(a)
    PROVE  /\ pc' \in [Agents -> {"idle", "claimed", "locked", "ready", "looking", "sending",
                                  "checking", "answered"}]
           /\ job' \in [Agents -> Payouts \cup {None}]
           /\ ref' \in [Agents -> Generations]
           /\ answer' \in [Agents -> Statuses \cup {"rejected"}]
           /\ JobKnown'
<1>1. 1 \in Generations
  BY PayoutConstants DEF Generations
<1> QED BY <1>1 DEF Typed, TypeOK, JobKnown, Rest, Statuses

LEMMA TurnTyped ==
    ASSUME Typed, NEW a \in Agents, pc[a] # "idle",
           NEW to \in {"locked", "ready", "looking", "sending", "checking", "answered"},
           NEW told \in Statuses \cup {"rejected"}, Turn(a, to, told)
    PROVE  /\ pc' \in [Agents -> {"idle", "claimed", "locked", "ready", "looking", "sending",
                                  "checking", "answered"}]
           /\ job' \in [Agents -> Payouts \cup {None}]
           /\ ref' \in [Agents -> Generations]
           /\ answer' \in [Agents -> Statuses \cup {"rejected"}]
           /\ JobKnown'
  BY DEF Typed, TypeOK, JobKnown, Turn

\* What Kora has under an agent's reference is a status.
LEMMA KoraTyped ==
    ASSUME Typed, NEW a \in Agents, pc[a] # "idle"
    PROVE  AtKora(a) \in Statuses
  BY DEF Typed, TypeOK, JobKnown, AtKora

\* Kora's answer to one reference.
LEMMA TransferTyped ==
    ASSUME TypeOK, NEW p \in Payouts, NEW g \in Generations, NEW status \in Statuses
    PROVE  [transfer EXCEPT ![p][g] = status] \in [Payouts -> [Generations -> Statuses]]
  BY DEF TypeOK

\* The next reference is one of those a payout may use.
LEMMA NextGeneration ==
    ASSUME TypeOK, NEW p \in Payouts, generation[p] < MaxGenerations
    PROVE  generation[p] + 1 \in Generations
<1>1. generation[p] \in Generations
  BY DEF TypeOK
<1> QED BY <1>1, PayoutConstants DEF Generations

\* A transfer more at Kora.
LEMMA SentTyped ==
    ASSUME TypeOK, NEW a \in Agents, job[a] \in Payouts,
           \/ transfer' = transfer
           \/ transfer' = [transfer EXCEPT ![job[a]][ref[a]] = "pending"]
    PROVE  transfer' \in [Payouts -> [Generations -> Statuses]]
<1>1. ref[a] \in Generations /\ transfer \in [Payouts -> [Generations -> Statuses]]
  BY DEF TypeOK
<1>2. "pending" \in Statuses
  BY DEF Statuses
<1> QED BY <1>1, <1>2

\* A journal more, of the payment or of its return.
LEMMA PaymentBooked ==
    ASSUME TypeOK, NEW a \in Agents, job[a] \in Payouts,
           \/ sentBooked' = sentBooked
           \/ sentBooked' = [sentBooked EXCEPT ![job[a]] = @ \cup {JournalOf(job[a])}]
    PROVE  sentBooked' \in [Payouts -> SUBSET Generations]
<1>1. /\ sentBooked \in [Payouts -> SUBSET Generations]
      /\ JournalOf(job[a]) \in Generations
  BY DEF TypeOK, JournalOf
<1>2. sentBooked[job[a]] \cup {JournalOf(job[a])} \in SUBSET Generations
  BY <1>1
<1> QED BY <1>1, <1>2

LEMMA ReturnBooked ==
    ASSUME TypeOK, NEW a \in Agents, job[a] \in Payouts,
           \/ returnBooked' = returnBooked
           \/ returnBooked' = [returnBooked EXCEPT ![job[a]] = @ \cup {ref[a]}]
    PROVE  returnBooked' \in [Payouts -> SUBSET Generations]
<1>1. returnBooked \in [Payouts -> SUBSET Generations] /\ ref[a] \in Generations
  BY DEF TypeOK
<1>2. returnBooked[job[a]] \cup {ref[a]} \in SUBSET Generations
  BY <1>1
<1> QED BY <1>1, <1>2

\* At the start every payout waits and nobody is at work.
LEMMA InitTyped == Init => Typed /\ Fresh /\ Releasing
<1> SUFFICES ASSUME Init PROVE Typed /\ Fresh /\ Releasing
  OBVIOUS
<1>1. 1 \in Generations
  BY PayoutConstants DEF Generations
<1>2. /\ payoutState \in [Payouts -> {"scheduled", "processing", "paid", "failed", "cancelled"}]
      /\ generation \in [Payouts -> Generations]
      /\ amount \in [Payouts -> Nat] /\ recovery \in [Payouts -> Nat]
      /\ \A p \in Payouts : recovery[p] <= amount[p]
      /\ due \in [Payouts -> BOOLEAN] /\ blocked \in [Payouts -> BOOLEAN]
  BY <1>1 DEF Init
<1>3. /\ refundState \in [Payouts -> {"none", "queued", "failed", "processed"}]
      /\ liability \in [Payouts -> {"none", "payable", "receivable"}]
      /\ owed \in Nat /\ usable \in BOOLEAN
      /\ transfer \in [Payouts -> [Generations -> Statuses]]
      /\ sentBooked \in [Payouts -> SUBSET Generations]
      /\ returnBooked \in [Payouts -> SUBSET Generations]
  BY DEF Init, Statuses
<1>4. /\ pc \in [Agents -> {"idle", "claimed", "locked", "ready", "looking", "sending",
                            "checking", "answered"}]
      /\ job \in [Agents -> Payouts \cup {None}]
      /\ ref \in [Agents -> Generations]
      /\ answer \in [Agents -> Statuses \cup {"rejected"}]
      /\ faults \in Nat
      /\ JobKnown
  BY <1>1 DEF Init, Statuses, JobKnown
<1>5. Fresh /\ Releasing
  BY DEF Init, Fresh, Releasing
<1> QED BY <1>2, <1>3, <1>4, <1>5 DEF Typed, TypeOK

\* Every action of every actor keeps the types.
THEOREM TypeStep == Typed /\ Fresh /\ Releasing /\ [Next]_vars => Typed'
<1> SUFFICES ASSUME Typed, Fresh, Releasing, [Next]_vars PROVE Typed'
  OBVIOUS
<1> USE DEF Typed, TypeOK, JobKnown
<1> USE DEF payout, booking, ledger, agent, Fault
<1>1. ASSUME NEW p \in Payouts,
             \/ SetBlocked(p) \/ CreateRefund(p) \/ FinalizeRefund(p) \/ RetryRefund(p)
             \/ TimePasses(p)
      PROVE  Typed'
  <2>1. CASE SetBlocked(p)
    BY <2>1 DEF SetBlocked
  <2>2. CASE CreateRefund(p)
    BY <2>2 DEF CreateRefund, LiabilityOf
  <2>3. CASE FinalizeRefund(p)
    <3>1. OwedFor(p) \in Nat
      BY PayoutConstants DEF OwedFor
    <3> QED BY <2>3, <3>1 DEF FinalizeRefund
  <2>4. CASE RetryRefund(p)
    BY <2>4 DEF RetryRefund
  <2>5. CASE TimePasses(p)
    BY <2>5 DEF TimePasses
  <2> QED BY <1>1, <2>1, <2>2, <2>3, <2>4, <2>5
<1>2. ASSUME NEW p \in Payouts, RetryPayout(p) PROVE Typed'
  <2>1. generation[p] + 1 \in Generations
    BY <1>2, NextGeneration DEF RetryPayout
  <2> QED BY <1>2, <2>1 DEF RetryPayout
<1>3. ASSUME NEW p \in Payouts, NEW w \in Workers, Claim(w, p) \/ RefundFails(w, p)
      PROVE  Typed'
  <2>1. CASE Claim(w, p)
    BY <2>1 DEF Claim
  <2>2. CASE RefundFails(w, p)
    BY <2>2 DEF RefundFails
  <2> QED BY <1>3, <2>1, <2>2
<1>4. ASSUME NEW p \in Payouts, NEW g \in Generations, KoraTransfer(p, g) \/ KoraReturn(p, g)
      PROVE  Typed'
  <2>1. PICK status \in Statuses : transfer' = [transfer EXCEPT ![p][g] = status]
    BY <1>4 DEF KoraTransfer, KoraReturn, Statuses
  <2>2. transfer' \in [Payouts -> [Generations -> Statuses]]
    BY <2>1, TransferTyped
  <2>3. UNCHANGED <<payout, booking, ledger, agent, faults>>
    BY <1>4 DEF KoraTransfer, KoraReturn
  <2> QED BY <2>2, <2>3
<1>5. ASSUME NEW p \in Payouts, NEW h \in Handlers, Notice(h, p) PROVE Typed'
  BY <1>5 DEF Notice
<1>6. CASE AccountUsable \/ ReplaceAccount
  BY <1>6 DEF AccountUsable, ReplaceAccount
<1>7. ASSUME NEW w \in Workers, Decide(w) PROVE Typed'
  <2>1. CASE LockPayout(w)
    BY <2>1, TurnTyped DEF LockPayout, Statuses
  <2>2. CASE PassOver(w)
    BY <2>2, TurnTyped, RestTyped DEF PassOver, Statuses
  <2>3. CASE NothingLeft(w)
    <3>1. payoutState[job[w]] = "scheduled" /\ job[w] \in Payouts
      BY <2>3 DEF NothingLeft, Releasing
    <3>2. recovery[job[w]] = 0
      BY <3>1 DEF Fresh
    <3> QED BY <2>3, <3>1, <3>2, RestTyped DEF NothingLeft
  <2>4. CASE AwaitAccount(w)
    BY <2>4, RestTyped DEF AwaitAccount
  <2>5. CASE Release(w)
    <3> DEFINE p == job[w]
               left == Entitlement[p] - Refunded(p)
               take == Taken(left)
    <3>1. p \in Payouts /\ left \in Nat
      BY <2>5, RefundedTyped DEF Release
    <3>2. take \in Nat /\ take <= left /\ take <= owed
      BY <3>1, TakenBounds
    <3>3. /\ amount' = [amount EXCEPT ![p] = left]
          /\ recovery' = [recovery EXCEPT ![p] = take]
          /\ owed' = owed - take
          /\ due' = [due EXCEPT ![p] = TRUE]
          /\ payoutState' = [payoutState EXCEPT ![p] = IF take = left THEN "paid" ELSE "processing"]
          /\ Rest(w) \/ Turn(w, "ready", "none")
          /\ UNCHANGED <<generation, blocked, refundState, liability, usable, transfer,
                         ledger, faults>>
          /\ pc[w] # "idle"
      BY <2>5 DEF Release
    <3> HIDE DEF p, left, take
    <3>4. /\ amount' \in [Payouts -> Nat] /\ recovery' \in [Payouts -> Nat]
          /\ \A r \in Payouts : recovery'[r] <= amount'[r]
          /\ owed' \in Nat
      BY <3>1, <3>2, <3>3
    <3> QED BY <3>1, <3>3, <3>4, RestTyped, TurnTyped DEF Statuses
  <2> QED BY <1>7, <2>1, <2>2, <2>3, <2>4, <2>5 DEF Decide
<1>8. ASSUME NEW w \in Workers, Send(w) PROVE Typed'
  <2>0. pc[w] # "idle" /\ job[w] \in Payouts /\ AtKora(w) \in Statuses
    BY <1>8, KoraTyped DEF Send, ReadPayout, FindTransfer, SendTransfer, RefuseTransfer,
         Unanswered, CheckTransfer, MarkPaid, FailPayout, AwaitTransfer
  <2>1. CASE ReadPayout(w)
    <3>1. CASE payoutState[job[w]] = "processing"
      <4>1. /\ pc' = [pc EXCEPT ![w] = "looking"]
            /\ ref' = [ref EXCEPT ![w] = generation[job[w]]]
            /\ UNCHANGED <<job, answer>>
            /\ UNCHANGED <<payout, booking, transfer, ledger, faults>>
        BY <2>1, <3>1 DEF ReadPayout
      <4>2. generation[job[w]] \in Generations
        BY <2>0
      <4> HIDE DEF Statuses, Generations
      <4> QED BY <2>0, <4>1, <4>2
    <3>2. CASE payoutState[job[w]] # "processing"
      BY <2>1, <3>2, RestTyped DEF ReadPayout
    <3> QED BY <3>1, <3>2
  <2>2. CASE FindTransfer(w)
    BY <2>0, <2>2, TurnTyped DEF FindTransfer, Statuses
  <2>3. CASE SendTransfer(w)
    <3>1. transfer' \in [Payouts -> [Generations -> Statuses]]
      <4>1. \/ transfer' = transfer
            \/ transfer' = [transfer EXCEPT ![job[w]][ref[w]] = "pending"]
        BY <2>3 DEF SendTransfer
      <4> QED BY <2>0, <4>1, SentTyped
    <3>2. Turn(w, "checking", "pending") \/ Turn(w, "answered", "rejected")
      BY <2>3 DEF SendTransfer
    <3> QED BY <2>0, <2>3, <3>1, <3>2, TurnTyped DEF SendTransfer, Statuses
  <2>4. CASE RefuseTransfer(w)
    <3>1. Turn(w, "answered", "rejected")
      BY <2>4 DEF RefuseTransfer
    <3>2. UNCHANGED <<payout, booking, transfer, ledger>> /\ faults' \in Nat
      BY <2>4 DEF RefuseTransfer
    <3> QED BY <2>0, <3>1, <3>2, TurnTyped
  <2>5. CASE Unanswered(w)
    <3>1. transfer' \in [Payouts -> [Generations -> Statuses]]
      <4>1. \/ transfer' = transfer
            \/ transfer' = [transfer EXCEPT ![job[w]][ref[w]] = "pending"]
        BY <2>5 DEF Unanswered
      <4> QED BY <2>0, <4>1, SentTyped
    <3>2. /\ Rest(w) /\ faults' \in Nat
          /\ UNCHANGED <<payoutState, generation, amount, recovery, booking, ledger>>
      BY <2>5 DEF Unanswered, Wait
    <3>3. due' \in [Payouts -> BOOLEAN]
      BY <2>0, <2>5 DEF Unanswered, Wait
    <3> QED BY <3>1, <3>2, <3>3, RestTyped
  <2>6. CASE CheckTransfer(w)
    BY <2>0, <2>6, TurnTyped DEF CheckTransfer
  <2>7. CASE MarkPaid(w)
    <3>2. sentBooked' \in [Payouts -> SUBSET Generations]
      <4>1. \/ sentBooked' = sentBooked
            \/ sentBooked' = [sentBooked EXCEPT ![job[w]] = @ \cup {JournalOf(job[w])}]
        BY <2>7 DEF MarkPaid
      <4> QED BY <2>0, <4>1, PaymentBooked
    <3>3. payoutState' \in [Payouts -> {"scheduled", "processing", "paid", "failed", "cancelled"}]
      <4>1. \/ payoutState' = payoutState
            \/ payoutState' = [payoutState EXCEPT ![job[w]] = "paid"]
        BY <2>7 DEF MarkPaid
      <4> QED BY <4>1
    <3> QED BY <2>0, <2>7, <3>2, <3>3, RestTyped DEF MarkPaid
  <2>8. CASE FailPayout(w)
    BY <2>0, <2>8, RestTyped DEF FailPayout
  <2>9. CASE AwaitTransfer(w)
    BY <2>0, <2>9, RestTyped DEF AwaitTransfer, Wait
  <2> QED BY <1>8, <2>1, <2>2, <2>3, <2>4, <2>5, <2>6, <2>7, <2>8, <2>9 DEF Send
<1>9. ASSUME NEW h \in Handlers, ConfirmReturn(h) \/ Reverse(h) PROVE Typed'
  <2>0. pc[h] # "idle" /\ job[h] \in Payouts /\ AtKora(h) \in Statuses
    BY <1>9, KoraTyped DEF ConfirmReturn, Reverse
  <2>1. CASE ConfirmReturn(h)
    BY <2>0, <2>1, TurnTyped DEF ConfirmReturn
  <2>2. CASE Reverse(h)
    <3>1. returnBooked' \in [Payouts -> SUBSET Generations]
      <4>1. \/ returnBooked' = returnBooked
            \/ returnBooked' = [returnBooked EXCEPT ![job[h]] = @ \cup {ref[h]}]
        BY <2>2 DEF Reverse
      <4> QED BY <2>0, <4>1, ReturnBooked
    <3>2. payoutState' \in [Payouts -> {"scheduled", "processing", "paid", "failed", "cancelled"}]
      <4>1. \/ payoutState' = payoutState
            \/ payoutState' = [payoutState EXCEPT ![job[h]] = "failed"]
        BY <2>2 DEF Reverse
      <4> QED BY <4>1
    <3> QED BY <2>0, <2>2, <3>1, <3>2, RestTyped DEF Reverse
  <2> QED BY <1>9, <2>1, <2>2
<1>10. ASSUME NEW a \in Agents, Crash(a) PROVE Typed'
  BY <1>10, RestTyped DEF Crash
<1>11. CASE UNCHANGED vars
  BY <1>11 DEF vars
<1> QED
  BY <1>1, <1>2, <1>3, <1>4, <1>5, <1>6, <1>7, <1>8, <1>9, <1>10, <1>11 DEF Next

(***************************************************************************)
(* Most steps leave alone what a release decides on, and lock nothing.     *)
(***************************************************************************)

Quiet ==
    /\ UNCHANGED <<payoutState, amount, recovery, blocked, refundState, liability>>
    /\ \A w \in Workers : pc'[w] = "locked" => pc[w] = "locked" /\ job'[w] = job[w]

Telling ==
    \/ \E p \in Payouts :
           \/ SetBlocked(p) \/ CreateRefund(p) \/ FinalizeRefund(p) \/ RetryRefund(p)
           \/ RetryPayout(p) \/ \E w \in Workers : RefundFails(w, p)
    \/ \E w \in Workers :
           LockPayout(w) \/ NothingLeft(w) \/ Release(w) \/ MarkPaid(w) \/ FailPayout(w)
    \/ \E h \in Handlers : Reverse(h)

\* An agent that rests or turns to anything but a lock locks nothing.
LEMMA RestUnlocks ==
    ASSUME Typed, NEW a \in Agents, Rest(a)
    PROVE  \A w \in Workers : pc'[w] = "locked" => pc[w] = "locked" /\ job'[w] = job[w]
  BY DEF Typed, TypeOK, Rest

LEMMA TurnUnlocks ==
    ASSUME Typed, NEW a \in Agents, NEW to, to # "locked", NEW told, Turn(a, to, told)
    PROVE  \A w \in Workers : pc'[w] = "locked" => pc[w] = "locked" /\ job'[w] = job[w]
  BY DEF Typed, TypeOK, Turn

\* Every step is one or the other.
LEMMA QuietOrTelling == Typed /\ [Next]_vars => Quiet \/ Telling
<1> SUFFICES ASSUME Typed, [Next]_vars, ~Telling PROVE Quiet
  OBVIOUS
<1> USE DEF payout, booking, ledger, agent
<1>1. ASSUME NEW p \in Payouts, TimePasses(p) PROVE Quiet
  BY <1>1 DEF TimePasses, Quiet
<1>2. ASSUME NEW p \in Payouts, NEW w \in Workers, Claim(w, p) PROVE Quiet
  BY <1>2 DEF Claim, Quiet, Typed, TypeOK
<1>3. ASSUME NEW p \in Payouts, NEW g \in Generations, KoraTransfer(p, g) \/ KoraReturn(p, g)
      PROVE  Quiet
  BY <1>3 DEF KoraTransfer, KoraReturn, Quiet
<1>4. ASSUME NEW p \in Payouts, NEW h \in Handlers, Notice(h, p) PROVE Quiet
  BY <1>4, PayoutConstants DEF Notice, Quiet, Typed, TypeOK
<1>5. CASE AccountUsable \/ ReplaceAccount
  BY <1>5 DEF AccountUsable, ReplaceAccount, Quiet
<1>6. ASSUME NEW w \in Workers, PassOver(w) \/ AwaitAccount(w) PROVE Quiet
  <2>1. Rest(w) \/ Turn(w, "ready", "none")
    BY <1>6 DEF PassOver, AwaitAccount
  <2>2. UNCHANGED <<payoutState, amount, recovery, blocked, refundState, liability>>
    BY <1>6 DEF PassOver, AwaitAccount
  <2> QED BY <2>1, <2>2, RestUnlocks, TurnUnlocks DEF Quiet
<1>7. ASSUME NEW w \in Workers,
             \/ ReadPayout(w) \/ FindTransfer(w) \/ SendTransfer(w) \/ RefuseTransfer(w)
             \/ Unanswered(w) \/ CheckTransfer(w) \/ AwaitTransfer(w)
      PROVE  Quiet
  <2>1. UNCHANGED <<payoutState, amount, recovery, blocked, refundState, liability>>
    BY <1>7 DEF ReadPayout, FindTransfer, SendTransfer, RefuseTransfer, Unanswered,
         CheckTransfer, AwaitTransfer
  <2>2. CASE ReadPayout(w)
    <3>1. \/ Rest(w)
          \/ pc' = [pc EXCEPT ![w] = "looking"] /\ job' = job
      BY <2>2 DEF ReadPayout
    <3>2. CASE pc' = [pc EXCEPT ![w] = "looking"] /\ job' = job
      BY <2>1, <3>2 DEF Quiet, Typed, TypeOK
    <3> QED BY <2>1, <3>1, <3>2, RestUnlocks DEF Quiet
  <2>3. CASE ~ReadPayout(w)
    <3>1. \/ Rest(w)
          \/ \E to \in {"answered", "sending", "checking"}, told \in Statuses \cup {"rejected", answer[w], AtKora(w)} :
                 Turn(w, to, told)
      BY <1>7, <2>3 DEF FindTransfer, SendTransfer, RefuseTransfer, Unanswered, CheckTransfer,
           AwaitTransfer, Wait, Statuses
    <3> QED BY <2>1, <3>1, RestUnlocks, TurnUnlocks DEF Quiet
  <2> QED BY <2>2, <2>3
<1>8. ASSUME NEW h \in Handlers, ConfirmReturn(h) PROVE Quiet
  <2>1. Turn(h, "answered", AtKora(h))
    BY <1>8 DEF ConfirmReturn
  <2> QED BY <1>8, <2>1, TurnUnlocks DEF ConfirmReturn, Quiet
<1>9. ASSUME NEW a \in Agents, Crash(a) PROVE Quiet
  BY <1>9, RestUnlocks DEF Crash, Quiet
<1>10. CASE UNCHANGED vars
  BY <1>10 DEF vars, Quiet
<1> QED
  BY <1>1, <1>2, <1>3, <1>4, <1>5, <1>6, <1>7, <1>8, <1>9, <1>10 DEF Next, Telling, Decide, Send

\* Released amounts stay unset until the release, and a payout is locked by one
\* worker, while it is scheduled and not held back by a report.
THEOREM ReleaseStep == Typed /\ Fresh /\ Releasing /\ [Next]_vars => Fresh' /\ Releasing'
<1> SUFFICES ASSUME Typed, Fresh, Releasing, [Next]_vars PROVE Fresh' /\ Releasing'
  OBVIOUS
<1> USE DEF payout, booking, ledger, agent
<1>1. CASE Quiet
  BY <1>1 DEF Quiet, Fresh, Releasing
<1>2. ASSUME NEW p \in Payouts, SetBlocked(p) PROVE Fresh' /\ Releasing'
  BY <1>2 DEF SetBlocked, Fresh, Releasing, Locked, Typed, TypeOK
<1>3. ASSUME NEW p \in Payouts,
             \/ CreateRefund(p) \/ FinalizeRefund(p) \/ RetryRefund(p)
             \/ \E w \in Workers : RefundFails(w, p)
      PROVE  Fresh' /\ Releasing'
  <2>1. UNCHANGED <<payoutState, amount, recovery, blocked, pc, job>>
    BY <1>3 DEF CreateRefund, FinalizeRefund, RetryRefund, RefundFails
  <2> QED BY <2>1 DEF Fresh, Releasing
<1>4. ASSUME NEW p \in Payouts, RetryPayout(p) PROVE Fresh' /\ Releasing'
  BY <1>4 DEF RetryPayout, Fresh, Releasing, Typed, TypeOK
<1>5. ASSUME NEW w \in Workers, LockPayout(w) PROVE Fresh' /\ Releasing'
  BY <1>5 DEF LockPayout, MayRelease, HeldBack, Turn, Locked, Fresh, Releasing, Typed, TypeOK,
       JobKnown
<1>6. ASSUME NEW w \in Workers, NothingLeft(w) \/ Release(w) PROVE Fresh' /\ Releasing'
  <2>1. /\ pc[w] = "locked" /\ blocked' = blocked
        /\ \A p \in Payouts : p # job[w] =>
               /\ payoutState'[p] = payoutState[p] /\ amount'[p] = amount[p]
               /\ recovery'[p] = recovery[p]
        /\ payoutState'[job[w]] # "scheduled"
        /\ Rest(w) \/ Turn(w, "ready", "none")
    BY <1>6 DEF NothingLeft, Release, Typed, TypeOK, JobKnown
  <2>2. pc'[w] # "locked"
    BY <2>1 DEF Rest, Turn, Typed, TypeOK
  <2>3. \A v \in Workers : pc'[v] = "locked" => pc[v] = "locked" /\ job'[v] = job[v]
    BY <2>1, RestUnlocks, TurnUnlocks
  <2>4. \A v \in Workers : pc'[v] = "locked" => job[v] # job[w] /\ job[v] \in Payouts
    BY <2>1, <2>2, <2>3 DEF Releasing, Typed, JobKnown
  <2> QED BY <2>1, <2>2, <2>3, <2>4 DEF Fresh, Releasing
<1>7. ASSUME NEW a \in Agents, MarkPaid(a) \/ FailPayout(a) \/ Reverse(a)
      PROVE  Fresh' /\ Releasing'
  <2>1. /\ UNCHANGED <<amount, recovery, blocked>> /\ Rest(a)
        /\ \A p \in Payouts : payoutState'[p] = "scheduled" <=> payoutState[p] = "scheduled"
    BY <1>7 DEF MarkPaid, FailPayout, Reverse, Typed, TypeOK
  <2>2. \A v \in Workers : pc'[v] = "locked" => pc[v] = "locked" /\ job'[v] = job[v]
    BY <2>1, RestUnlocks
  <2>3. \A v \in Workers : pc'[v] = "locked" => job[v] \in Payouts
    BY <2>2 DEF Typed, JobKnown
  <2> QED BY <2>1, <2>2, <2>3 DEF Fresh, Releasing
<1>8. ASSUME Telling PROVE Fresh' /\ Releasing'
  <2>1. CASE \E p \in Payouts :
                 \/ SetBlocked(p) \/ CreateRefund(p) \/ FinalizeRefund(p) \/ RetryRefund(p)
                 \/ RetryPayout(p) \/ \E w \in Workers : RefundFails(w, p)
    BY <2>1, <1>2, <1>3, <1>4
  <2>2. CASE \E w \in Workers :
                 LockPayout(w) \/ NothingLeft(w) \/ Release(w) \/ MarkPaid(w) \/ FailPayout(w)
    <3>1. PICK w \in Workers :
            LockPayout(w) \/ NothingLeft(w) \/ Release(w) \/ MarkPaid(w) \/ FailPayout(w)
      BY <2>2
    <3>2. w \in Agents
      OBVIOUS
    <3>3. CASE LockPayout(w)
      BY <3>3, <1>5
    <3>4. CASE NothingLeft(w) \/ Release(w)
      BY <3>4, <1>6
    <3>5. CASE MarkPaid(w) \/ FailPayout(w)
      BY <3>2, <3>5, <1>7
    <3> QED BY <3>1, <3>3, <3>4, <3>5
  <2>3. CASE \E h \in Handlers : Reverse(h)
    BY <2>3, <1>7
  <2> QED BY <1>8, <2>1, <2>2, <2>3 DEF Telling
<1> QED BY <1>1, <1>8, QuietOrTelling

\* Every variable of Payouts keeps its type, whoever acts and however often
\* processes stop: amounts are never negative, and no more is taken from a
\* payout for earlier refunds than it holds.
THEOREM TypeCorrect == Spec => []TypeOK
<1>1. Init => Typed /\ Fresh /\ Releasing
  BY InitTyped
<1>2. Typed /\ Fresh /\ Releasing /\ [Next]_vars => (Typed /\ Fresh /\ Releasing)'
  BY TypeStep, ReleaseStep
<1>3. Typed => TypeOK
  BY DEF Typed
<1> QED BY <1>1, <1>2, <1>3, PTL DEF Spec

(***************************************************************************)
(* Releases.  Any number of workers release payouts and send refunds.  A   *)
(* release asks what holds the payout back and then reads what its refund  *)
(* takes, and has no lock on the refund's row.  If the refund does not     *)
(* fail between the two, what was not held back when the payout was locked *)
(* is not held back when it is released.                                   *)
(***************************************************************************)

\* No refund fails between the two reads of a release of its payout.
RefundsHold ==
    \A p \in Payouts : Locked(p) /\ refundState'[p] = "failed" => refundState[p] = "failed"

Kept == \A w \in Workers : pc[w] = "locked" => ~HeldBack(job[w])

Liable ==
    /\ \A p \in Payouts : liability[p] = "none" <=> refundState[p] = "none"
    /\ \A p \in Payouts : payoutState[p] = "cancelled" => liability[p] = "payable"
    /\ ShareBorneOnce

ReleaseInv == Typed /\ Fresh /\ Releasing /\ Kept /\ Liable

\* At the start there is no refund and no lock.
LEMMA InitBorne == Init => ReleaseInv
<1>1. Init => Kept /\ Liable
  BY DEF Init, Kept, Liable, ShareBorneOnce
<1> QED BY <1>1, InitTyped DEF ReleaseInv

\* What is left of a payout that is not held back is its share of the booking
\* less the refund it bears.
LEMMA LeftOfPayout ==
    ASSUME ReleaseInv, NEW p \in Payouts, payoutState[p] = "scheduled", ~HeldBack(p)
    PROVE  /\ Entitlement[p] - Refunded(p)
                 = Entitlement[p] - IF liability[p] = "payable" THEN Share[p] ELSE 0
           /\ Entitlement[p] - Refunded(p) <= 0 =>
                 liability[p] = "payable" /\ Entitlement[p] - Share[p] = 0
<1>1. refundState[p] = "failed" => liability[p] # "payable"
  BY DEF HeldBack
<1>2. Refunded(p) = IF liability[p] = "payable" THEN Share[p] ELSE 0
  BY <1>1 DEF Refunded
<1> QED BY <1>2, PayoutConstants

\* No step of a worker, of refunds or of bookings between its steps, makes the
\* seller bear a refund twice or not at all, or releases a payout held back.
LEMMA BorneStep ==
    ASSUME ReleaseInv, [Next]_vars, [RefundsHold]_vars
    PROVE  /\ Kept' /\ Liable'
           /\ \A p \in Payouts :
                 payoutState[p] = "scheduled" /\ HeldBack(p) => payoutState'[p] = "scheduled"
<1> DEFINE Stays == \A p \in Payouts :
        payoutState[p] = "scheduled" /\ HeldBack(p) => payoutState'[p] = "scheduled"
<1> USE DEF payout, booking, ledger, agent, ReleaseInv, Typed, TypeOK
<1>1. CASE Quiet
  BY <1>1 DEF Quiet, Kept, Liable, ShareBorneOnce, HeldBack
<1>2. ASSUME NEW p \in Payouts, SetBlocked(p) PROVE Kept' /\ Liable' /\ Stays
  <2>1. UNCHANGED <<payoutState, amount, recovery, refundState, liability, pc, job>>
    BY <1>2 DEF SetBlocked
  <2>2. Liable' /\ Stays
    BY <2>1 DEF Liable, ShareBorneOnce
  <2>3. Kept'
    BY <1>2, <2>1 DEF SetBlocked, Kept, Locked, HeldBack, JobKnown
  <2> QED BY <2>2, <2>3
<1>3. ASSUME NEW p \in Payouts, CreateRefund(p) PROVE Kept' /\ Liable' /\ Stays
  <2>1. /\ UNCHANGED <<payoutState, amount, recovery, blocked, pc, job>>
        /\ refundState[p] = "none" /\ ~Locked(p)
        /\ refundState' = [refundState EXCEPT ![p] = "queued"]
        /\ liability' = [liability EXCEPT ![p] = LiabilityOf(p)]
    BY <1>3 DEF CreateRefund
  <2>2. liability[p] = "none" /\ payoutState[p] # "cancelled"
    BY <2>1 DEF Liable
  <2>3. Liable'
    BY <2>1, <2>2 DEF Liable, ShareBorneOnce, LiabilityOf
  <2>4. Kept' /\ Stays
    BY <2>1 DEF Kept, Locked, HeldBack, JobKnown
  <2> QED BY <2>3, <2>4
<1>4. ASSUME NEW p \in Payouts, FinalizeRefund(p) \/ RetryRefund(p)
      PROVE  Kept' /\ Liable' /\ Stays
  <2>1. /\ UNCHANGED <<payoutState, amount, recovery, blocked, liability, pc, job>>
        /\ refundState[p] # "none"
        /\ \E state \in {"queued", "processed"} : refundState' = [refundState EXCEPT ![p] = state]
    BY <1>4 DEF FinalizeRefund, RetryRefund
  <2>2. Liable'
    BY <2>1 DEF Liable, ShareBorneOnce
  <2>3. Kept' /\ Stays
    BY <2>1 DEF Kept, HeldBack, JobKnown
  <2> QED BY <2>2, <2>3
<1>5. ASSUME NEW p \in Payouts, NEW v \in Workers, RefundFails(v, p)
      PROVE  Kept' /\ Liable' /\ Stays
  <2>1. /\ UNCHANGED <<payoutState, amount, recovery, blocked, liability, pc, job>>
        /\ pc[v] = "idle" /\ refundState[p] = "queued"
        /\ refundState' = [refundState EXCEPT ![p] = "failed"]
    BY <1>5 DEF RefundFails
  <2>2. Liable' /\ Stays
    BY <2>1 DEF Liable, ShareBorneOnce
  <2>3. ~Locked(p)
    <3>1. refundState' # refundState /\ refundState'[p] = "failed"
      BY <2>1
    <3> QED BY <2>1, <3>1 DEF RefundsHold, vars
  <2>4. \A r \in Payouts : r # p => (HeldBack(r)' <=> HeldBack(r))
    BY <2>1 DEF HeldBack
  <2>5. \A w \in Workers : pc[w] = "locked" => job[w] \in Payouts /\ job[w] # p
    BY <2>3 DEF Locked, JobKnown
  <2>6. Kept'
    BY <2>1, <2>4, <2>5 DEF Kept
  <2> QED BY <2>2, <2>6
<1>6. ASSUME NEW p \in Payouts, RetryPayout(p) PROVE Kept' /\ Liable' /\ Stays
  <2>1. /\ UNCHANGED <<amount, recovery, blocked, refundState, liability, pc, job>>
        /\ payoutState[p] = "failed"
        /\ payoutState' = [payoutState EXCEPT ![p] = "processing"]
    BY <1>6 DEF RetryPayout
  <2>2. Liable' /\ Stays
    BY <2>1 DEF Liable, ShareBorneOnce
  <2> QED BY <2>1, <2>2 DEF Kept, HeldBack
<1>7. ASSUME NEW w \in Workers, LockPayout(w) PROVE Kept' /\ Liable' /\ Stays
  <2>1. /\ UNCHANGED <<payoutState, amount, recovery, blocked, refundState, liability>>
        /\ ~HeldBack(job[w]) /\ job' = job
    BY <1>7 DEF LockPayout, MayRelease, Turn
  <2>2. Liable' /\ Stays
    BY <2>1 DEF Liable, ShareBorneOnce
  <2>3. \A v \in Workers : v # w => pc'[v] = pc[v]
    BY <1>7 DEF LockPayout, Turn
  <2> QED BY <2>1, <2>2, <2>3 DEF Kept, HeldBack
<1>8. ASSUME NEW w \in Workers, NothingLeft(w) \/ Release(w)
      PROVE  Kept' /\ Liable' /\ Stays
  <2> DEFINE p == job[w]
             left == Entitlement[p] - Refunded(p)
  <2>1. /\ pc[w] = "locked" /\ UNCHANGED <<refundState, liability, blocked>>
        /\ Rest(w) \/ Turn(w, "ready", "none")
    BY <1>8 DEF NothingLeft, Release
  <2>2. p \in Payouts /\ payoutState[p] = "scheduled" /\ ~HeldBack(p)
    BY <2>1 DEF Releasing, Kept, JobKnown
  <2>3. /\ left = Entitlement[p] - IF liability[p] = "payable" THEN Share[p] ELSE 0
        /\ left <= 0 => liability[p] = "payable" /\ Entitlement[p] - Share[p] = 0
    BY <2>2, LeftOfPayout
  <2>4. \/ /\ left <= 0
           /\ payoutState' = [payoutState EXCEPT ![p] = "cancelled"]
           /\ amount' = [amount EXCEPT ![p] = 0]
        \/ /\ \E state \in {"paid", "processing"} :
                  payoutState' = [payoutState EXCEPT ![p] = state]
           /\ amount' = [amount EXCEPT ![p] = left]
    BY <1>8 DEF NothingLeft, Release
  <2>5. liability[p] # "receivable"
    BY <2>2 DEF Liable, ShareBorneOnce
  <2> HIDE DEF p, left
  <2>6. Liable'
    <3>1. /\ amount'[p] = Entitlement[p] - IF liability[p] = "payable" THEN Share[p] ELSE 0
          /\ payoutState'[p] # "scheduled"
          /\ payoutState'[p] = "cancelled" => liability[p] = "payable"
      BY <2>2, <2>3, <2>4
    <3>2. \A r \in Payouts : r # p =>
              payoutState'[r] = payoutState[r] /\ amount'[r] = amount[r]
      BY <2>4
    <3> QED BY <2>1, <3>1, <3>2 DEF Liable, ShareBorneOnce
  <2>7. Stays
    BY <2>2, <2>4
  <2>8. pc'[w] # "locked"
    BY <2>1 DEF Rest, Turn
  <2>9. \A v \in Workers : v # w => pc'[v] = pc[v] /\ job'[v] = job[v]
    BY <2>1 DEF Rest, Turn
  <2>10. \A r \in Payouts : HeldBack(r)' <=> HeldBack(r)
    BY <2>1 DEF HeldBack
  <2>11. ASSUME NEW v \in Workers, pc'[v] = "locked" PROVE ~HeldBack(job[v])'
    <3>1. v # w
      BY <2>8, <2>11
    <3>2. pc[v] = "locked" /\ job'[v] = job[v]
      BY <2>9, <2>11, <3>1
    <3>3. job[v] \in Payouts /\ ~HeldBack(job[v])
      BY <3>2 DEF Kept, JobKnown
    <3> QED BY <2>1, <3>2, <3>3 DEF HeldBack
  <2> QED BY <2>6, <2>7, <2>11 DEF Kept
<1>9. ASSUME NEW a \in Agents, MarkPaid(a) \/ FailPayout(a) \/ Reverse(a)
      PROVE  Kept' /\ Liable' /\ Stays
  <2>1. /\ UNCHANGED <<amount, recovery, blocked, refundState, liability>> /\ Rest(a)
        /\ \A p \in Payouts :
               /\ payoutState'[p] = "scheduled" <=> payoutState[p] = "scheduled"
               /\ payoutState'[p] = "cancelled" => payoutState[p] = "cancelled"
    BY <1>9 DEF MarkPaid, FailPayout, Reverse
  <2>2. \A v \in Workers : pc'[v] = "locked" => pc[v] = "locked" /\ job'[v] = job[v]
    BY <2>1, RestUnlocks
  <2>3. Liable' /\ Stays
    BY <2>1 DEF Liable, ShareBorneOnce
  <2> QED BY <2>1, <2>2, <2>3 DEF Kept, HeldBack
<1>10. ASSUME Telling PROVE Kept' /\ Liable' /\ Stays
  <2> HIDE DEF Stays
  <2>1. CASE \E p \in Payouts :
                 \/ SetBlocked(p) \/ CreateRefund(p) \/ FinalizeRefund(p) \/ RetryRefund(p)
                 \/ RetryPayout(p) \/ \E w \in Workers : RefundFails(w, p)
    BY <2>1, <1>2, <1>3, <1>4, <1>5, <1>6
  <2>2. CASE \E w \in Workers :
                 LockPayout(w) \/ NothingLeft(w) \/ Release(w) \/ MarkPaid(w) \/ FailPayout(w)
    <3>1. PICK w \in Workers :
            LockPayout(w) \/ NothingLeft(w) \/ Release(w) \/ MarkPaid(w) \/ FailPayout(w)
      BY <2>2
    <3>2. CASE LockPayout(w)
      BY <3>2, <1>7
    <3>3. CASE NothingLeft(w) \/ Release(w)
      BY <3>3, <1>8
    <3>4. CASE MarkPaid(w) \/ FailPayout(w)
      BY <3>4, <1>9
    <3> QED BY <3>1, <3>2, <3>3, <3>4
  <2>3. CASE \E h \in Handlers : Reverse(h)
    BY <2>3, <1>9
  <2> QED BY <1>10, <2>1, <2>2, <2>3 DEF Telling
<1> QED BY <1>1, <1>10, QuietOrTelling

\* Every action of every actor keeps the releases right.
LEMMA ReleaseInvStep == ReleaseInv /\ [Next]_vars /\ [RefundsHold]_vars => ReleaseInv'
<1> SUFFICES ASSUME ReleaseInv, [Next]_vars, [RefundsHold]_vars PROVE ReleaseInv'
  OBVIOUS
<1>1. Typed' /\ Fresh' /\ Releasing'
  BY TypeStep, ReleaseStep DEF ReleaseInv
<1> QED BY <1>1, BorneStep DEF ReleaseInv

\* The seller bears a refund once: out of the payout or as a debt, never both and
\* never neither, for every number of workers and payouts, every split of the
\* refunds, and however release, refund, failure and retry interleave, but for a
\* refund that fails between the two reads of a release.
THEOREM BorneOnce == Spec /\ [][RefundsHold]_vars => []ShareBorneOnce
<1>1. Init => ReleaseInv
  BY InitBorne
<1>2. ReleaseInv /\ [Next]_vars /\ [RefundsHold]_vars => ReleaseInv'
  BY ReleaseInvStep
<1>3. ReleaseInv => ShareBorneOnce
  BY DEF ReleaseInv, Liable
<1> QED BY <1>1, <1>2, <1>3, PTL DEF Spec

\* A payout that a report or an unfinished refund holds back is not released by any
\* of the workers, whenever the report comes between the claim and the release, if
\* no refund fails between the two reads.
THEOREM HeldIsKept == Spec /\ [][RefundsHold]_vars => HeldStays
<1>1. Init => ReleaseInv
  BY InitBorne
<1>2. ReleaseInv /\ [Next]_vars /\ [RefundsHold]_vars => ReleaseInv'
  BY ReleaseInvStep
<1>3. ReleaseInv /\ [Next]_vars /\ [RefundsHold]_vars =>
        [\A p \in Payouts :
            payoutState[p] = "scheduled" /\ HeldBack(p) => payoutState'[p] = "scheduled"]_vars
  BY BorneStep
<1> QED BY <1>1, <1>2, <1>3, PTL DEF Spec, HeldStays

(***************************************************************************)
(* Transfers.  What an agent was told of a transfer still holds when it    *)
(* acts on it, if nobody else moves that payout meanwhile: a payout goes   *)
(* to its next reference only when nothing is on its way under the one it  *)
(* had, and only then.  Any number of workers and handlers may be at work, *)
(* on payouts of their own.                                                *)
(***************************************************************************)

Busy == {"looking", "sending", "checking", "answered"}

\* No two notices of a payout are handled at once.
NoticesApart ==
    \A g, h \in Handlers :
        pc[g] # "idle" /\ pc[h] # "idle" /\ job[g] = job[h] => g = h

\* No two workers are between reading a released payout and recording what became
\* of its transfer, either.
Apart ==
    /\ \A v, w \in Workers :
           pc[v] \in Busy /\ pc[w] \in Busy /\ job[v] = job[w] => v = w
    /\ NoticesApart

\* Paid entirely to what the seller owed.
Whole(p) == payoutState[p] = "paid" /\ amount[p] = recovery[p]

\* Nothing went out under a later reference, nothing is left of an earlier one,
\* and what Kora has under the current one agrees with the payout.
Agrees(p) ==
    /\ \A g \in Generations :
           /\ g > generation[p] => transfer[p][g] = "none"
           /\ g < generation[p] => transfer[p][g] \in {"none", "failed", "reversed"}
    /\ payoutState[p] \in {"scheduled", "cancelled"} \/ Whole(p) =>
           transfer[p][generation[p]] = "none"
    /\ payoutState[p] = "failed" =>
           transfer[p][generation[p]] \in {"none", "failed", "reversed"}
    /\ payoutState[p] = "paid" /\ ~Whole(p) =>
           transfer[p][generation[p]] \in {"success", "reversed"}
    /\ payoutState[p] \in {"processing", "failed"} => amount[p] # recovery[p]

Transfers == \A p \in Payouts : Agrees(p)

\* What a worker that sends a payout knows of it.
Knows(w) ==
    /\ payoutState[job[w]] = "processing" /\ ref[w] = generation[job[w]]
    /\ pc[w] = "sending" => AtKora(w) = "none"
    /\ pc[w] = "checking" => answer[w] = "pending"
    /\ pc[w] = "answered" =>
           /\ answer[w] = "rejected" => AtKora(w) = "none"
           /\ answer[w] \in {"failed", "reversed"} => AtKora(w) \in {"failed", "reversed"}
           /\ answer[w] = "success" => AtKora(w) \in {"success", "reversed"}

WorkerKnows == \A w \in Workers : pc[w] \in Busy => Knows(w)

\* What a handler that takes a payment back knows of it.
Noticed(h) ==
    /\ payoutState[job[h]] = "paid" /\ ref[h] = generation[job[h]]
    /\ AtKora(h) \in {"failed", "reversed"}

HandlerKnows ==
    \A h \in Handlers : pc[h] \in {"idle", "looking", "answered"} /\ (pc[h] # "idle" => Noticed(h))

\* Every payment that was booked was taken back, but for the current one's.
Booked(p) ==
    /\ \A g \in sentBooked[p] : g <= generation[p]
    /\ payoutState[p] \in {"scheduled", "processing"} => generation[p] \notin sentBooked[p]
    /\ payoutState[p] = "paid" /\ ~Whole(p) =>
           /\ generation[p] \in sentBooked[p]
           /\ returnBooked[p] = sentBooked[p] \ {generation[p]}
    /\ ~(payoutState[p] = "paid" /\ ~Whole(p)) => returnBooked[p] = sentBooked[p]

Books == \A p \in Payouts : Booked(p)

Money == Transfers /\ WorkerKnows /\ HandlerKnows /\ Books

SendInv == Typed /\ Fresh /\ Releasing /\ Money

\* At the start nothing was sent or booked.
LEMMA InitSend == Init => SendInv
<1> SUFFICES ASSUME Init PROVE SendInv
  OBVIOUS
<1>1. Typed /\ Fresh /\ Releasing
  BY InitTyped
<1>2. \A p \in Payouts : \A g \in Generations : transfer[p][g] = "none"
  BY DEF Init
<1>3. \A p \in Payouts : generation[p] \in Generations /\ payoutState[p] = "scheduled"
  BY <1>1 DEF Init, Typed, TypeOK
<1>4. Transfers
  BY <1>2, <1>3 DEF Transfers, Agrees, Whole
<1>5. WorkerKnows /\ HandlerKnows
  BY DEF Init, WorkerKnows, HandlerKnows, Busy
<1>6. Books
  BY <1>3 DEF Init, Books, Booked
<1> QED BY <1>1, <1>4, <1>5, <1>6 DEF SendInv, Money

\* Steps that touch no payment, and after which no agent is busier than before.
Still ==
    /\ UNCHANGED <<payoutState, generation, amount, recovery, transfer, ledger>>
    /\ \A a \in Agents :
           \/ pc'[a] = pc[a] /\ job'[a] = job[a] /\ ref'[a] = ref[a] /\ answer'[a] = answer[a]
           \/ pc'[a] = "idle"
           \/ a \notin Handlers /\ pc'[a] \notin Busy

\* They keep the payments and the books.
LEMMA StillKeeps == SendInv /\ Still => Money'
<1> SUFFICES ASSUME SendInv, Still PROVE Money'
  OBVIOUS
<1> USE DEF ledger
<1>1. Transfers' /\ Books'
  BY DEF Still, SendInv, Money, Transfers, Agrees, Books, Booked, Whole
<1>2. HandlerKnows'
  <2> SUFFICES ASSUME NEW h \in Handlers, pc'[h] # "idle"
               PROVE  pc'[h] \in {"looking", "answered"} /\ Noticed(h)'
    BY DEF HandlerKnows
  <2>1. pc'[h] = pc[h] /\ job'[h] = job[h] /\ ref'[h] = ref[h]
    BY DEF Still
  <2> QED BY <2>1 DEF Still, SendInv, Money, HandlerKnows, Noticed, AtKora
<1>3. WorkerKnows'
  <2> SUFFICES ASSUME NEW w \in Workers, pc'[w] \in Busy
               PROVE  Knows(w)'
    BY DEF WorkerKnows
  <2>1. /\ pc'[w] = pc[w] /\ job'[w] = job[w] /\ ref'[w] = ref[w] /\ answer'[w] = answer[w]
    BY DEF Still, Busy
  <2> QED BY <2>1 DEF Still, SendInv, Money, WorkerKnows, Knows, AtKora
<1> QED BY <1>1, <1>2, <1>3 DEF Money

Moving ==
    \/ \E p \in Payouts :
           \/ RetryPayout(p) \/ \E h \in Handlers : Notice(h, p)
           \/ \E g \in Generations : KoraTransfer(p, g) \/ KoraReturn(p, g)
    \/ \E w \in Workers : NothingLeft(w) \/ Release(w) \/ Send(w)
    \/ \E h \in Handlers : ConfirmReturn(h) \/ Reverse(h)

\* An agent that rests, or turns to what is no work on a transfer, disturbs none.
LEMMA RestIsStill ==
    ASSUME Typed, NEW a \in Agents, Rest(a),
           UNCHANGED <<payoutState, generation, amount, recovery, transfer, ledger>>
    PROVE  Still
  BY DEF Typed, TypeOK, Rest, Still

LEMMA TurnIsStill ==
    ASSUME Typed, NEW w \in Workers, NEW to \in {"locked", "ready"}, NEW told, Turn(w, to, told),
           UNCHANGED <<payoutState, generation, amount, recovery, transfer, ledger>>
    PROVE  Still
<1>1. w \notin Handlers
  BY PayoutConstants
<1> QED BY <1>1 DEF Typed, TypeOK, Turn, Still, Busy

\* Every step is one or the other.
LEMMA StillOrMoving == Typed /\ [Next]_vars => Still \/ Moving
<1> SUFFICES ASSUME Typed, [Next]_vars, ~Moving PROVE Still
  OBVIOUS
<1> USE DEF payout, booking, ledger, agent
<1>1. ASSUME NEW p \in Payouts,
             \/ SetBlocked(p) \/ CreateRefund(p) \/ FinalizeRefund(p) \/ RetryRefund(p)
             \/ TimePasses(p) \/ \E w \in Workers : RefundFails(w, p)
      PROVE  Still
  BY <1>1 DEF SetBlocked, CreateRefund, FinalizeRefund, RetryRefund, TimePasses, RefundFails, Still
<1>2. ASSUME NEW p \in Payouts, NEW w \in Workers, Claim(w, p) PROVE Still
  <2>1. w \notin Handlers
    BY PayoutConstants
  <2>2. /\ pc' = [pc EXCEPT ![w] = "claimed"] /\ job' = [job EXCEPT ![w] = p]
        /\ UNCHANGED <<payoutState, generation, amount, recovery, transfer, ledger, ref, answer>>
    BY <1>2 DEF Claim
  <2>3. \A a \in Agents : a # w => pc'[a] = pc[a] /\ job'[a] = job[a]
    BY <2>2 DEF Typed, TypeOK
  <2>4. pc'[w] = "claimed"
    BY <2>2 DEF Typed, TypeOK
  <2> QED BY <2>1, <2>2, <2>3, <2>4 DEF Still, Busy
<1>3. CASE AccountUsable \/ ReplaceAccount
  BY <1>3 DEF AccountUsable, ReplaceAccount, Still
<1>4. ASSUME NEW w \in Workers, LockPayout(w) \/ PassOver(w) \/ AwaitAccount(w) PROVE Still
  <2>1. Rest(w) \/ Turn(w, "ready", "none") \/ Turn(w, "locked", "none")
    BY <1>4 DEF LockPayout, PassOver, AwaitAccount
  <2>2. UNCHANGED <<payoutState, generation, amount, recovery, transfer, ledger>>
    BY <1>4 DEF LockPayout, PassOver, AwaitAccount
  <2> QED BY <2>1, <2>2, RestIsStill, TurnIsStill
<1>5. ASSUME NEW a \in Agents, Crash(a) PROVE Still
  BY <1>5, RestIsStill DEF Crash
<1>6. CASE UNCHANGED vars
  BY <1>6 DEF vars, Still
<1> QED BY <1>1, <1>2, <1>3, <1>4, <1>5, <1>6 DEF Next, Moving, Decide

\* The release of a payout: nothing was sent for it yet, and nobody else is at it.
LEMMA ReleaseKeepsMoney ==
    ASSUME SendInv, NEW w \in Workers, NothingLeft(w) \/ Release(w)
    PROVE  Money'
<1> USE DEF payout, booking, ledger, agent, SendInv, Money, Typed, TypeOK
<1> DEFINE p == job[w]
<1>1. /\ pc[w] = "locked" /\ UNCHANGED <<generation, transfer, sentBooked, returnBooked>>
      /\ Rest(w) \/ Turn(w, "ready", "none")
  BY DEF NothingLeft, Release
<1>2. p \in Payouts /\ payoutState[p] = "scheduled"
  BY <1>1 DEF Releasing, JobKnown
<1>3. /\ \A q \in Payouts : q # p =>
             /\ payoutState'[q] = payoutState[q] /\ amount'[q] = amount[q]
             /\ recovery'[q] = recovery[q]
      /\ payoutState'[p] \in {"cancelled", "paid", "processing"}
      /\ payoutState'[p] = "paid" => amount'[p] = recovery'[p]
      /\ payoutState'[p] = "processing" => amount'[p] # recovery'[p]
  <2>1. CASE NothingLeft(w)
    BY <1>2, <2>1 DEF NothingLeft
  <2>2. CASE Release(w)
    <3> DEFINE left == Entitlement[p] - Refunded(p)
               take == Taken(left)
    <3>1. /\ amount' = [amount EXCEPT ![p] = left]
          /\ recovery' = [recovery EXCEPT ![p] = take]
          /\ payoutState' = [payoutState EXCEPT ![p] = IF take = left THEN "paid" ELSE "processing"]
      BY <2>2 DEF Release
    <3> HIDE DEF p, left, take
    <3> QED BY <1>2, <3>1
  <2> QED BY <2>1, <2>2
<1>4. Transfers'
  BY <1>1, <1>2, <1>3 DEF Transfers, Agrees, Whole
<1>5. Books'
  BY <1>1, <1>2, <1>3 DEF Books, Booked, Whole
<1>6. w \notin Handlers
  BY PayoutConstants
<1>7. HandlerKnows'
  <2> SUFFICES ASSUME NEW h \in Handlers
               PROVE  pc'[h] \in {"idle", "looking", "answered"} /\ (pc'[h] # "idle" => Noticed(h)')
    BY DEF HandlerKnows
  <2>1. pc'[h] = pc[h] /\ job'[h] = job[h] /\ ref'[h] = ref[h]
    BY <1>1, <1>6 DEF Rest, Turn
  <2>2. pc[h] # "idle" => job[h] \in Payouts /\ job[h] # p
    BY <1>2 DEF HandlerKnows, Noticed, JobKnown
  <2> QED BY <1>1, <1>3, <2>1, <2>2 DEF HandlerKnows, Noticed, AtKora
<1>8. WorkerKnows'
  <2>1. pc'[w] \in {"idle", "ready"}
    BY <1>1 DEF Rest, Turn
  <2>2. \A v \in Workers : v # w =>
           pc'[v] = pc[v] /\ job'[v] = job[v] /\ ref'[v] = ref[v] /\ answer'[v] = answer[v]
    BY <1>1 DEF Rest, Turn
  <2> SUFFICES ASSUME NEW v \in Workers, pc'[v] \in Busy PROVE Knows(v)'
    BY DEF WorkerKnows
  <2>3. v # w
    BY <2>1 DEF Busy
  <2>4. Knows(v) /\ job[v] \in Payouts
    BY <2>2, <2>3 DEF WorkerKnows, JobKnown, Busy
  <2>5. job[v] # p
    BY <1>2, <2>4 DEF Knows
  <2> QED BY <1>1, <1>3, <2>2, <2>3, <2>4, <2>5 DEF Knows, AtKora
<1> QED BY <1>4, <1>5, <1>7, <1>8

\* One answer of Kora's leaves every other transfer alone.
LEMMA OneTransfer ==
    ASSUME TypeOK, NEW p \in Payouts, NEW g \in Generations, NEW status,
           transfer' = [transfer EXCEPT ![p][g] = status]
    PROVE  /\ transfer'[p][g] = status
           /\ \A q \in Payouts : \A f \in Generations :
                  q # p \/ f # g => transfer'[q][f] = transfer[q][f]
<1>1. transfer \in [Payouts -> [Generations -> Statuses]]
  BY DEF TypeOK
<1> QED BY <1>1

\* An agent's move leaves every other agent alone.
LEMMA OthersStay ==
    ASSUME Typed, NEW a \in Agents, Rest(a) \/ \E to, told : Turn(a, to, told)
    PROVE  \A b \in Agents : b # a =>
              pc'[b] = pc[b] /\ job'[b] = job[b] /\ ref'[b] = ref[b] /\ answer'[b] = answer[b]
  BY DEF Typed, TypeOK, Rest, Turn

\* A step of the worker that touches no payment keeps the books if the worker
\* knows what it is doing.
LEMMA WorkerTurns ==
    ASSUME SendInv, NEW w \in Workers,
           UNCHANGED <<payoutState, generation, amount, recovery, transfer, ledger>>,
           \A b \in Agents : b # w =>
               pc'[b] = pc[b] /\ job'[b] = job[b] /\ ref'[b] = ref[b] /\ answer'[b] = answer[b],
           pc'[w] \in Busy => Knows(w)'
    PROVE  Money'
<1> USE DEF ledger, SendInv, Money
<1>1. Transfers' /\ Books'
  BY DEF Transfers, Agrees, Books, Booked, Whole
<1>2. WorkerKnows'
  BY DEF WorkerKnows, Knows, AtKora
<1>3. HandlerKnows'
  BY PayoutConstants DEF HandlerKnows, Noticed, AtKora
<1> QED BY <1>1, <1>2, <1>3

\* The worker reads, looks, is refused, checks.
LEMMA LookingKeepsMoney ==
    ASSUME SendInv, NEW w \in Workers,
           ReadPayout(w) \/ FindTransfer(w) \/ RefuseTransfer(w) \/ CheckTransfer(w)
    PROVE  Money'
<1> USE DEF payout, booking, ledger
<1>0. /\ Typed /\ TypeOK /\ JobKnown
      /\ pc[w] # "idle" /\ job[w] \in Payouts
      /\ pc[w] \in Busy => Knows(w)
      /\ w \notin Handlers
  BY PayoutConstants DEF SendInv, Typed, JobKnown, Money, WorkerKnows, ReadPayout, FindTransfer,
     RefuseTransfer, CheckTransfer
<1>1. UNCHANGED <<payoutState, generation, amount, recovery, transfer, ledger>>
  BY DEF ReadPayout, FindTransfer, RefuseTransfer, CheckTransfer
<1>2. CASE ReadPayout(w) /\ payoutState[job[w]] = "processing"
  <2>1. /\ pc' = [pc EXCEPT ![w] = "looking"]
        /\ ref' = [ref EXCEPT ![w] = generation[job[w]]]
        /\ UNCHANGED <<job, answer>>
    BY <1>2 DEF ReadPayout
  <2>2. /\ pc'[w] = "looking" /\ ref'[w] = generation[job[w]] /\ job'[w] = job[w]
        /\ \A b \in Agents : b # w =>
               pc'[b] = pc[b] /\ job'[b] = job[b] /\ ref'[b] = ref[b] /\ answer'[b] = answer[b]
    BY <1>0, <2>1 DEF TypeOK
  <2>3. Knows(w)'
    BY <1>1, <1>2, <2>2 DEF Knows
  <2> QED BY <1>1, <2>2, <2>3, WorkerTurns
<1>3. CASE ReadPayout(w) /\ payoutState[job[w]] # "processing"
  <2>1. Rest(w)
    BY <1>3 DEF ReadPayout
  <2> QED BY <1>0, <1>1, <2>1, RestIsStill, StillKeeps
<1>4. ASSUME NEW to \in Busy, NEW told, Turn(w, to, told), Knows(w),
             to = "sending" => AtKora(w) = "none", to # "checking",
             to = "answered" =>
               /\ told = "rejected" => AtKora(w) = "none"
               /\ told \in {"failed", "reversed"} => AtKora(w) \in {"failed", "reversed"}
               /\ told = "success" => AtKora(w) \in {"success", "reversed"}
      PROVE  Money'
  <2>1. pc'[w] = to /\ answer'[w] = told /\ job'[w] = job[w] /\ ref'[w] = ref[w]
    BY <1>0, <1>4 DEF TypeOK, Turn
  <2>2. \A b \in Agents : b # w =>
            pc'[b] = pc[b] /\ job'[b] = job[b] /\ ref'[b] = ref[b] /\ answer'[b] = answer[b]
    BY <1>0, <1>4, OthersStay
  <2>3. AtKora(w)' = AtKora(w)
    BY <1>1, <2>1 DEF AtKora
  <2>4. Knows(w)'
    BY <1>1, <1>4, <2>1, <2>3 DEF Knows
  <2> QED BY <1>1, <2>2, <2>4, WorkerTurns
<1>5. CASE FindTransfer(w)
  <2>1. Knows(w)
    BY <1>0, <1>5 DEF FindTransfer, Busy
  <2>2. AtKora(w) \in Statuses
    BY <1>0, KoraTyped
  <2>3. CASE AtKora(w) # "none"
    <3>1. Turn(w, "answered", AtKora(w))
      BY <1>5, <2>3 DEF FindTransfer, Found
    <3> QED BY <1>4, <2>1, <2>2, <3>1 DEF Busy, Statuses
  <2>4. CASE AtKora(w) = "none"
    <3>1. Turn(w, "sending", "none")
      BY <1>5, <2>4 DEF FindTransfer, Found
    <3> QED BY <1>4, <2>1, <2>4, <3>1 DEF Busy
  <2> QED BY <2>3, <2>4
<1>6. CASE RefuseTransfer(w)
  <2>1. Knows(w) /\ AtKora(w) = "none" /\ Turn(w, "answered", "rejected")
    BY <1>0, <1>6 DEF RefuseTransfer, Busy
  <2> QED BY <1>4, <2>1 DEF Busy
<1>7. CASE CheckTransfer(w)
  <2>1. Knows(w) /\ answer[w] = "pending"
    BY <1>0, <1>7 DEF CheckTransfer, Busy, Knows
  <2>2. PICK told \in {"pending", AtKora(w)} : Turn(w, "answered", told)
    BY <1>7, <2>1 DEF CheckTransfer
  <2>3. AtKora(w) \in Statuses
    BY <1>0, KoraTyped
  <2> QED BY <1>4, <2>1, <2>2, <2>3 DEF Busy, Statuses
<1> QED BY <1>2, <1>3, <1>5, <1>6, <1>7

\* The transfer goes out, under a reference that has none, whether or not the
\* worker hears of it.
LEMMA SendingKeepsMoney ==
    ASSUME Apart, SendInv, NEW w \in Workers,
           SendTransfer(w) \/ Unanswered(w)
    PROVE  Money'
<1> USE DEF payout, booking, ledger
<1>0. /\ Typed /\ TypeOK /\ JobKnown
      /\ pc[w] \in {"looking", "sending"} /\ job[w] \in Payouts
      /\ Knows(w) /\ ref[w] \in Generations
      /\ w \notin Handlers
  BY PayoutConstants DEF SendInv, Typed, TypeOK, JobKnown, Money, WorkerKnows, SendTransfer,
     Unanswered, Busy
<1>1. UNCHANGED <<payoutState, generation, amount, recovery, ledger>>
  BY DEF SendTransfer, Unanswered
<1>2. Rest(w) \/ (Turn(w, "checking", "pending") /\ transfer' # transfer)
  <2>1. CASE SendTransfer(w)
    <3>1. AtKora(w) = "none"
      BY <1>0, <2>1 DEF SendTransfer, Knows
    <3>2. /\ transfer' = [transfer EXCEPT ![job[w]][ref[w]] = "pending"]
          /\ Turn(w, "checking", "pending")
      BY <2>1, <3>1 DEF SendTransfer
    <3>3. transfer \in [Payouts -> [Generations -> Statuses]]
      BY <1>0 DEF TypeOK
    <3>4. transfer'[job[w]][ref[w]] = "pending"
      BY <1>0, <3>2, <3>3
    <3> QED BY <3>1, <3>2, <3>4 DEF AtKora
  <2>2. CASE Unanswered(w)
    <3>1. Rest(w)
      BY <2>2 DEF Unanswered, Wait
    <3> QED BY <3>1
  <2> QED BY <2>1, <2>2
<1>3. CASE transfer' = transfer
  <2>1. Rest(w)
    BY <1>2, <1>3
  <2> QED BY <1>0, <1>1, <1>3, <2>1, RestIsStill, StillKeeps
<1>4. CASE transfer' # transfer
  <2> DEFINE p == job[w]
             g == ref[w]
  <2>1. transfer' = [transfer EXCEPT ![p][g] = "pending"] /\ transfer[p][g] = "none"
    BY <1>0, <1>4 DEF SendTransfer, Unanswered, AtKora
  <2>2. p \in Payouts /\ g = generation[p] /\ payoutState[p] = "processing" /\ g \in Generations
    BY <1>0 DEF Knows
  <2>3. /\ transfer'[p][g] = "pending"
        /\ \A q \in Payouts : \A f \in Generations :
               q # p \/ f # g => transfer'[q][f] = transfer[q][f]
    BY <1>0, <2>1, <2>2, OneTransfer
  <2>4. \A b \in Agents : b # w =>
           pc'[b] = pc[b] /\ job'[b] = job[b] /\ ref'[b] = ref[b] /\ answer'[b] = answer[b]
    BY <1>0, <1>2, OthersStay
  <2>5. Transfers'
    <3>1. \A q \in Payouts : generation[q] \in Generations
      BY <1>0 DEF TypeOK
    <3>2. Transfers
      BY DEF SendInv, Money
    <3> HIDE DEF p, g
    <3> SUFFICES ASSUME NEW q \in Payouts PROVE Agrees(q)'
      BY DEF Transfers
    <3>3. CASE q = p
      <4>1. \A f \in Generations : f # generation[q] => transfer'[q][f] = transfer[q][f]
        BY <2>2, <2>3, <3>3
      <4>2. payoutState[q] = "processing" /\ Agrees(q)
        BY <2>2, <3>2, <3>3 DEF Transfers
      <4>3. generation[q] \in Nat /\ Generations \subseteq Nat
        BY <3>1 DEF Generations
      <4> QED BY <1>1, <4>1, <4>2, <4>3 DEF Agrees, Whole
    <3>4. CASE q # p
      <4>1. \A f \in Generations : transfer'[q][f] = transfer[q][f]
        BY <2>3, <3>4
      <4> QED BY <1>1, <3>1, <3>2, <4>1 DEF Transfers, Agrees, Whole
    <3> QED BY <3>3, <3>4
  <2>6. Books'
    BY <1>1 DEF SendInv, Money, Books, Booked, Whole
  <2>7. HandlerKnows'
    <3> SUFFICES ASSUME NEW h \in Handlers
                 PROVE  pc'[h] \in {"idle", "looking", "answered"} /\ (pc'[h] # "idle" => Noticed(h)')
      BY DEF HandlerKnows
    <3>1. pc'[h] = pc[h] /\ job'[h] = job[h] /\ ref'[h] = ref[h]
      BY <1>0, <2>4
    <3>2. /\ pc[h] \in {"idle", "looking", "answered"} /\ (pc[h] # "idle" => Noticed(h))
      BY DEF SendInv, Money, HandlerKnows
    <3>3. pc[h] # "idle" => job[h] \in Payouts /\ job[h] # p /\ ref[h] \in Generations
      BY <1>0, <2>2, <3>2 DEF Noticed, JobKnown, TypeOK
    <3> QED BY <1>1, <2>3, <3>1, <3>2, <3>3 DEF Noticed, AtKora
  <2>8. WorkerKnows'
    <3>0. ASSUME NEW v \in Workers, v # w, pc'[v] \in Busy PROVE Knows(v)'
      <4>1. pc'[v] = pc[v] /\ job'[v] = job[v] /\ ref'[v] = ref[v] /\ answer'[v] = answer[v]
        BY <2>4, <3>0
      <4>2. Knows(v) /\ job[v] \in Payouts /\ ref[v] \in Generations
        BY <1>0, <3>0, <4>1 DEF SendInv, Money, WorkerKnows, JobKnown, TypeOK, Busy
      <4>3. job[v] # p
        BY <1>0, <3>0, <4>1 DEF Apart, Busy
      <4> QED BY <1>1, <2>3, <4>1, <4>2, <4>3 DEF Knows, AtKora
    <3>1. pc'[w] \in Busy => Knows(w)'
      <4>1. CASE Rest(w)
        BY <1>0, <4>1 DEF Rest, TypeOK, Busy
      <4>2. CASE Turn(w, "checking", "pending")
        <5>1. pc'[w] = "checking" /\ answer'[w] = "pending" /\ job'[w] = p /\ ref'[w] = g
          BY <1>0, <4>2 DEF Turn, TypeOK
        <5> QED BY <1>0, <1>1, <5>1 DEF Knows
      <4> QED BY <1>2, <4>1, <4>2
    <3> QED BY <3>0, <3>1 DEF WorkerKnows
  <2> QED BY <2>5, <2>6, <2>7, <2>8 DEF Money
<1> QED BY <1>3, <1>4

\* The worker writes down what it was told: the payment with its journal, or the
\* failure, or that it waits on.
LEMMA OutcomeKeepsMoney ==
    ASSUME Apart, SendInv, NEW w \in Workers,
           MarkPaid(w) \/ FailPayout(w) \/ AwaitTransfer(w)
    PROVE  Money'
<1> USE DEF payout, booking, ledger
<1> DEFINE p == job[w]
<1>0. /\ Typed /\ TypeOK /\ JobKnown
      /\ pc[w] = "answered" /\ p \in Payouts
      /\ Knows(w) /\ ref[w] \in Generations
      /\ w \notin Handlers
  BY PayoutConstants DEF SendInv, Typed, TypeOK, JobKnown, Money, WorkerKnows, MarkPaid,
     FailPayout, AwaitTransfer, Busy
<1>1. UNCHANGED <<generation, amount, recovery, transfer, returnBooked>> /\ Rest(w)
  BY DEF MarkPaid, FailPayout, AwaitTransfer, Wait
<1>2. CASE AwaitTransfer(w)
  <2>1. UNCHANGED <<payoutState, sentBooked>>
    BY <1>2 DEF AwaitTransfer
  <2> QED BY <1>0, <1>1, <2>1, RestIsStill, StillKeeps
<1>3. payoutState[p] = "processing" /\ ref[w] = generation[p]
  BY <1>0 DEF Knows
<1>4. Transfers /\ Books /\ HandlerKnows /\ WorkerKnows
  BY DEF SendInv, Money
<1>5. CASE MarkPaid(w) \/ FailPayout(w)
  <2>1. /\ payoutState'[p] \in {"paid", "failed"}
        /\ \A q \in Payouts : q # p =>
               payoutState'[q] = payoutState[q] /\ sentBooked'[q] = sentBooked[q]
    BY <1>0, <1>3, <1>5 DEF MarkPaid, FailPayout, TypeOK
  <2>2. payoutState'[p] = "paid" =>
           /\ transfer[p][generation[p]] \in {"success", "reversed"}
           /\ sentBooked'[p] = sentBooked[p] \cup {generation[p]}
    <3>1. CASE MarkPaid(w)
      <4>1. answer[w] = "success"
        BY <3>1 DEF MarkPaid, Succeeded
      <4>2. sentBooked' = [sentBooked EXCEPT ![p] = @ \cup {generation[p]}]
        BY <1>3, <3>1 DEF MarkPaid, JournalOf
      <4>3. sentBooked \in [Payouts -> SUBSET Generations]
        BY <1>0 DEF TypeOK
      <4>4. sentBooked'[p] = sentBooked[p] \cup {generation[p]}
        BY <1>0, <4>2, <4>3
      <4>5. AtKora(w) \in {"success", "reversed"}
        BY <1>0, <4>1 DEF Knows
      <4> QED BY <1>3, <4>4, <4>5 DEF AtKora
    <3>2. CASE FailPayout(w)
      BY <1>0, <1>3, <3>2 DEF FailPayout, TypeOK
    <3> QED BY <1>5, <3>1, <3>2
  <2>3. payoutState'[p] = "failed" =>
           /\ transfer[p][generation[p]] \in {"none", "failed", "reversed"}
           /\ sentBooked'[p] = sentBooked[p]
    <3>1. CASE MarkPaid(w)
      BY <1>0, <1>3, <3>1 DEF MarkPaid, TypeOK
    <3>2. CASE FailPayout(w)
      <4>1. answer[w] \in {"failed", "reversed", "rejected"} /\ sentBooked' = sentBooked
        BY <3>2 DEF FailPayout
      <4>2. AtKora(w) \in {"none", "failed", "reversed"}
        BY <1>0, <4>1 DEF Knows
      <4> QED BY <1>3, <4>1, <4>2 DEF AtKora
    <3> QED BY <1>5, <3>1, <3>2
  <2> HIDE DEF p
  <2>4. amount[p] # recovery[p] /\ generation[p] \notin sentBooked[p]
        /\ returnBooked[p] = sentBooked[p] /\ \A g \in sentBooked[p] : g <= generation[p]
    BY <1>0, <1>3, <1>4 DEF Transfers, Agrees, Books, Booked
  <2>5. Transfers'
    <3> SUFFICES ASSUME NEW q \in Payouts PROVE Agrees(q)'
      BY DEF Transfers
    <3>1. Agrees(q)
      BY <1>4 DEF Transfers
    <3>2. CASE q = p
      BY <1>1, <2>1, <2>2, <2>3, <2>4, <3>1, <3>2 DEF Agrees, Whole
    <3>3. CASE q # p
      BY <1>1, <2>1, <3>1, <3>3 DEF Agrees, Whole
    <3> QED BY <3>2, <3>3
  <2>6. Books'
    <3> SUFFICES ASSUME NEW q \in Payouts PROVE Booked(q)'
      BY DEF Books
    <3>1. Booked(q)
      BY <1>4 DEF Books
    <3>2. CASE q = p /\ payoutState'[p] = "paid"
      <4>1. generation[p] \in Nat
        BY <1>0 DEF TypeOK, Generations
      <4> QED BY <1>1, <2>2, <2>4, <3>2, <4>1 DEF Booked, Whole
    <3>3. CASE q = p /\ payoutState'[p] = "failed"
      BY <1>1, <2>3, <2>4, <3>3 DEF Booked, Whole
    <3>4. CASE q # p
      BY <1>1, <2>1, <3>1, <3>4 DEF Booked, Whole
    <3> QED BY <2>1, <3>2, <3>3, <3>4
  <2>7. \A b \in Agents : b # w =>
           pc'[b] = pc[b] /\ job'[b] = job[b] /\ ref'[b] = ref[b] /\ answer'[b] = answer[b]
    BY <1>0, <1>1, OthersStay
  <2>8. HandlerKnows'
    <3> SUFFICES ASSUME NEW h \in Handlers
                 PROVE  pc'[h] \in {"idle", "looking", "answered"} /\ (pc'[h] # "idle" => Noticed(h)')
      BY DEF HandlerKnows
    <3>1. pc'[h] = pc[h] /\ job'[h] = job[h] /\ ref'[h] = ref[h]
      BY <1>0, <2>7
    <3>2. pc[h] \in {"idle", "looking", "answered"} /\ (pc[h] # "idle" => Noticed(h))
      BY <1>4 DEF HandlerKnows
    <3>3. pc[h] # "idle" => job[h] \in Payouts /\ job[h] # p
      BY <1>0, <1>3, <3>2 DEF Noticed, JobKnown
    <3> QED BY <1>1, <2>1, <3>1, <3>2, <3>3 DEF Noticed, AtKora
  <2>9. WorkerKnows'
    <3> SUFFICES ASSUME NEW v \in Workers, pc'[v] \in Busy PROVE Knows(v)'
      BY DEF WorkerKnows
    <3>1. v # w
      BY <1>0, <1>1 DEF Rest, TypeOK, Busy
    <3>2. pc'[v] = pc[v] /\ job'[v] = job[v] /\ ref'[v] = ref[v] /\ answer'[v] = answer[v]
      BY <2>7, <3>1
    <3>3. Knows(v) /\ job[v] \in Payouts
      BY <1>0, <1>4, <3>2 DEF WorkerKnows, JobKnown, Busy
    <3>4. job[v] # p
      BY <1>0, <3>1, <3>2 DEF Apart, Busy, p
    <3> QED BY <1>1, <2>1, <3>2, <3>3, <3>4 DEF Knows, AtKora
  <2> QED BY <2>5, <2>6, <2>8, <2>9 DEF Money
<1> QED BY <1>2, <1>5

\* A failed payout gets a reference under which nothing was sent.
LEMMA RetryKeepsMoney ==
    ASSUME SendInv, NEW p \in Payouts, RetryPayout(p)
    PROVE  Money'
<1> USE DEF payout, booking, ledger, agent
<1>0. Typed /\ TypeOK /\ Transfers /\ Books /\ HandlerKnows /\ WorkerKnows /\ JobKnown
  BY DEF SendInv, Money, Typed
<1>1. /\ UNCHANGED <<amount, recovery, transfer, sentBooked, returnBooked, pc, job, ref, answer>>
      /\ payoutState[p] = "failed" /\ generation[p] + 1 \in Generations
      /\ payoutState'[p] = "processing" /\ generation'[p] = generation[p] + 1
      /\ \A q \in Payouts : q # p =>
             payoutState'[q] = payoutState[q] /\ generation'[q] = generation[q]
  BY <1>0, NextGeneration DEF RetryPayout, TypeOK
<1>2. Transfers'
  <2> SUFFICES ASSUME NEW q \in Payouts PROVE Agrees(q)'
    BY DEF Transfers
  <2>1. Agrees(q) /\ generation[q] \in Nat /\ Generations \subseteq Nat
    BY <1>0 DEF Transfers, TypeOK, Generations
  <2>2. CASE q = p
    <3>1. \A g \in Generations : g > generation[p] + 1 => transfer[p][g] = "none"
      <4>1. \A g \in Generations : g > generation[p] + 1 => g > generation[p]
        BY <2>1, <2>2
      <4>2. \A g \in Generations : g > generation[p] => transfer[p][g] = "none"
        BY <2>1, <2>2 DEF Agrees
      <4> HIDE DEF Generations
      <4> QED BY <4>1, <4>2
    <3>2. \A g \in Generations : g < generation[p] + 1 =>
             transfer[p][g] \in {"none", "failed", "reversed"}
      BY <1>1, <2>1, <2>2 DEF Agrees
    <3>3. amount[p] # recovery[p]
      BY <1>1, <2>1, <2>2 DEF Agrees
    <3> QED BY <1>1, <2>2, <3>1, <3>2, <3>3 DEF Agrees, Whole
  <2>3. CASE q # p
    BY <1>1, <2>1, <2>3 DEF Agrees, Whole
  <2> QED BY <2>2, <2>3
<1>3. Books'
  <2> SUFFICES ASSUME NEW q \in Payouts PROVE Booked(q)'
    BY DEF Books
  <2>1. Booked(q) /\ generation[q] \in Nat /\ sentBooked[q] \subseteq Nat
    BY <1>0 DEF Books, TypeOK, Generations
  <2>2. CASE q = p
    BY <1>1, <2>1, <2>2 DEF Booked, Whole
  <2>3. CASE q # p
    BY <1>1, <2>1, <2>3 DEF Booked, Whole
  <2> QED BY <2>2, <2>3
<1>4. HandlerKnows'
  BY <1>0, <1>1 DEF HandlerKnows, Noticed, AtKora, JobKnown
<1>5. WorkerKnows'
  <2> SUFFICES ASSUME NEW w \in Workers, pc'[w] \in Busy PROVE Knows(w)'
    BY DEF WorkerKnows
  <2>1. Knows(w) /\ job[w] \in Payouts
    BY <1>0, <1>1 DEF WorkerKnows, JobKnown, Busy
  <2>2. job[w] # p
    BY <1>1, <2>1 DEF Knows
  <2> QED BY <1>1, <2>1, <2>2 DEF Knows, AtKora
<1> QED BY <1>2, <1>3, <1>4, <1>5 DEF Money

\* Kora settles what is on its way, or the bank sends back what was paid.
LEMMA KoraKeepsMoney ==
    ASSUME SendInv, NEW p \in Payouts, NEW g \in Generations,
           KoraTransfer(p, g) \/ KoraReturn(p, g)
    PROVE  Money'
<1> USE DEF payout, booking, ledger, agent
<1>0. Typed /\ TypeOK /\ Transfers /\ Books /\ HandlerKnows /\ WorkerKnows /\ JobKnown
  BY DEF SendInv, Money, Typed
<1>1. UNCHANGED <<payoutState, generation, amount, recovery, sentBooked, returnBooked,
                  pc, job, ref, answer>>
  BY DEF KoraTransfer, KoraReturn
<1>2. PICK status :
         /\ transfer' = [transfer EXCEPT ![p][g] = status]
         /\ \/ transfer[p][g] = "pending" /\ status \in {"success", "failed"}
            \/ transfer[p][g] = "success" /\ status = "reversed"
  BY DEF KoraTransfer, KoraReturn
<1>3. /\ transfer'[p][g] = status
      /\ \A q \in Payouts : \A f \in Generations :
             q # p \/ f # g => transfer'[q][f] = transfer[q][f]
  BY <1>0, <1>2, OneTransfer
<1>4. \A q \in Payouts : generation[q] \in Generations
  BY <1>0 DEF TypeOK
<1>5. Agrees(p) /\ generation[p] \in Nat /\ Generations \subseteq Nat
  BY <1>0, <1>4 DEF Transfers, Generations
<1>6. g = generation[p]
  BY <1>2, <1>5 DEF Agrees
<1>7. Transfers'
  <2> SUFFICES ASSUME NEW q \in Payouts PROVE Agrees(q)'
    BY DEF Transfers
  <2>1. CASE q = p
    <3>1. \A f \in Generations : f # generation[p] => transfer'[p][f] = transfer[p][f]
      BY <1>3, <1>6
    <3> QED BY <1>1, <1>2, <1>3, <1>5, <1>6, <2>1, <3>1 DEF Agrees, Whole
  <2>2. CASE q # p
    <3>1. \A f \in Generations : transfer'[q][f] = transfer[q][f]
      BY <1>3, <2>2
    <3> QED BY <1>0, <1>1, <1>4, <3>1 DEF Transfers, Agrees, Whole
  <2> QED BY <2>1, <2>2
<1>8. Books'
  BY <1>0, <1>1 DEF Books, Booked, Whole
<1>9. ASSUME NEW a \in Agents, pc[a] # "idle"
      PROVE  \/ AtKora(a)' = AtKora(a)
             \/ AtKora(a) = "pending" /\ AtKora(a)' \in {"success", "failed"}
             \/ AtKora(a) = "success" /\ AtKora(a)' = "reversed"
  <2>1. job[a] \in Payouts /\ ref[a] \in Generations
    BY <1>0, <1>9 DEF JobKnown, TypeOK
  <2> QED BY <1>1, <1>2, <1>3, <2>1 DEF AtKora
<1>10. HandlerKnows'
  <2> SUFFICES ASSUME NEW h \in Handlers
               PROVE  pc'[h] \in {"idle", "looking", "answered"} /\ (pc'[h] # "idle" => Noticed(h)')
    BY DEF HandlerKnows
  <2>1. pc[h] \in {"idle", "looking", "answered"} /\ (pc[h] # "idle" => Noticed(h))
    BY <1>0 DEF HandlerKnows
  <2>2. pc[h] # "idle" => AtKora(h)' \in {"failed", "reversed"}
    BY <1>9, <2>1 DEF Noticed
  <2> QED BY <1>1, <2>1, <2>2 DEF Noticed
<1>11. WorkerKnows'
  <2> SUFFICES ASSUME NEW w \in Workers, pc'[w] \in Busy PROVE Knows(w)'
    BY DEF WorkerKnows
  <2>1. Knows(w) /\ pc[w] # "idle"
    BY <1>0, <1>1 DEF WorkerKnows, Busy
  <2> QED BY <1>1, <1>9, <2>1 DEF Knows
<1> QED BY <1>7, <1>8, <1>10, <1>11 DEF Money

\* A notice is of a payment that came back, and its handler acts on it before
\* anything else happens to that payout.
LEMMA NoticeKeepsMoney ==
    ASSUME SendInv, NEW h \in Handlers,
           ConfirmReturn(h) \/ \E p \in Payouts : Notice(h, p)
    PROVE  Money'
<1> USE DEF payout, booking, ledger
<1>0. /\ Typed /\ TypeOK /\ Transfers /\ Books /\ HandlerKnows /\ WorkerKnows /\ JobKnown
      /\ h \notin Workers
  BY PayoutConstants DEF SendInv, Money, Typed
<1>1. UNCHANGED <<payoutState, generation, amount, recovery, transfer, sentBooked, returnBooked>>
  BY DEF ConfirmReturn, Notice
<1>2. \A b \in Agents : b # h =>
         pc'[b] = pc[b] /\ job'[b] = job[b] /\ ref'[b] = ref[b] /\ answer'[b] = answer[b]
  BY <1>0 DEF ConfirmReturn, Notice, Turn, TypeOK
<1>3. pc'[h] \in {"looking", "answered"} /\ Noticed(h)'
  <2>1. CASE ConfirmReturn(h)
    <3>1. pc'[h] = "answered" /\ job' = job /\ ref' = ref
      BY <1>0, <2>1 DEF ConfirmReturn, Turn, TypeOK
    <3>2. Noticed(h)
      BY <1>0, <2>1 DEF ConfirmReturn, HandlerKnows
    <3> QED BY <1>1, <3>1, <3>2 DEF Noticed, AtKora
  <2>2. CASE \E p \in Payouts : Notice(h, p)
    <3>1. PICK p \in Payouts : Notice(h, p)
      BY <2>2
    <3>2. /\ pc'[h] = "looking" /\ job'[h] = p /\ ref'[h] = generation[p]
          /\ payoutState[p] = "paid" /\ transfer[p][generation[p]] \in {"failed", "reversed"}
      BY <1>0, <3>1 DEF Notice, TypeOK
    <3> QED BY <1>1, <3>2 DEF Noticed, AtKora
  <2> QED BY <2>1, <2>2
<1>4. HandlerKnows'
  BY <1>0, <1>1, <1>2, <1>3 DEF HandlerKnows, Noticed, AtKora
<1>5. WorkerKnows'
  BY <1>0, <1>1, <1>2 DEF WorkerKnows, Knows, AtKora
<1>6. Transfers' /\ Books'
  BY <1>0, <1>1 DEF Transfers, Agrees, Books, Booked, Whole
<1> QED BY <1>4, <1>5, <1>6 DEF Money

\* The payment is taken back with the journal of its own reference.
LEMMA ReverseKeepsMoney ==
    ASSUME Apart, SendInv, NEW h \in Handlers, Reverse(h)
    PROVE  Money'
<1> USE DEF payout, booking, ledger
<1> DEFINE p == job[h]
<1>0. /\ Typed /\ TypeOK /\ Transfers /\ Books /\ HandlerKnows /\ WorkerKnows /\ JobKnown
      /\ h \notin Workers /\ Noticed(h) /\ p \in Payouts
  BY PayoutConstants DEF SendInv, Money, Typed, HandlerKnows, JobKnown, Reverse
<1>1. /\ payoutState[p] = "paid" /\ ref[h] = generation[p]
      /\ transfer[p][generation[p]] \in {"failed", "reversed"}
  BY <1>0 DEF Noticed, AtKora
<1>2. /\ UNCHANGED <<generation, amount, recovery, transfer, sentBooked>> /\ Rest(h)
      /\ payoutState' = [payoutState EXCEPT ![p] = "failed"]
      /\ returnBooked' = [returnBooked EXCEPT ![p] = @ \cup {generation[p]}]
  BY <1>1 DEF Reverse
<1>3. /\ payoutState'[p] = "failed" /\ returnBooked'[p] = returnBooked[p] \cup {generation[p]}
      /\ \A q \in Payouts : q # p =>
             payoutState'[q] = payoutState[q] /\ returnBooked'[q] = returnBooked[q]
  <2>1. /\ payoutState \in [Payouts -> {"scheduled", "processing", "paid", "failed", "cancelled"}]
        /\ returnBooked \in [Payouts -> SUBSET Generations]
    BY <1>0 DEF TypeOK
  <2> HIDE DEF p
  <2> QED BY <1>0, <1>2, <2>1
<1> HIDE DEF p
<1>4. Agrees(p) /\ Booked(p)
  BY <1>0 DEF Transfers, Books
<1>5. ~Whole(p) /\ amount[p] # recovery[p]
  <2>1. ~Whole(p)
    BY <1>1, <1>4 DEF Agrees
  <2> QED BY <1>1, <2>1 DEF Whole
<1>6. Transfers'
  <2> SUFFICES ASSUME NEW q \in Payouts PROVE Agrees(q)'
    BY DEF Transfers
  <2>1. CASE q = p
    BY <1>1, <1>2, <1>3, <1>4, <1>5, <2>1 DEF Agrees, Whole
  <2>2. CASE q # p
    BY <1>0, <1>2, <1>3, <2>2 DEF Transfers, Agrees, Whole
  <2> QED BY <2>1, <2>2
<1>7. Books'
  <2> SUFFICES ASSUME NEW q \in Payouts PROVE Booked(q)'
    BY DEF Books
  <2>1. CASE q = p
    <3>1. returnBooked'[p] = sentBooked[p]
      BY <1>1, <1>3, <1>4, <1>5 DEF Booked
    <3> QED BY <1>2, <1>3, <1>4, <2>1, <3>1 DEF Booked, Whole
  <2>2. CASE q # p
    BY <1>0, <1>2, <1>3, <2>2 DEF Books, Booked, Whole
  <2> QED BY <2>1, <2>2
<1>8. HandlerKnows'
  <2> SUFFICES ASSUME NEW g \in Handlers
               PROVE  pc'[g] \in {"idle", "looking", "answered"} /\ (pc'[g] # "idle" => Noticed(g)')
    BY DEF HandlerKnows
  <2>1. CASE g = h
    BY <1>0, <1>2, <2>1 DEF Rest, TypeOK
  <2>2. CASE g # h
    <3>1. pc'[g] = pc[g] /\ job'[g] = job[g] /\ ref'[g] = ref[g]
      BY <1>0, <1>2, <2>2, OthersStay
    <3>2. pc[g] \in {"idle", "looking", "answered"} /\ (pc[g] # "idle" => Noticed(g))
      BY <1>0 DEF HandlerKnows
    <3>3. pc[h] # "idle" /\ p = job[h]
      BY DEF Reverse, p
    <3>4. pc[g] # "idle" => job[g] \in Payouts /\ job[g] # p
      BY <1>0, <2>2, <3>3 DEF Apart, NoticesApart, JobKnown
    <3> QED BY <1>2, <1>3, <3>1, <3>2, <3>4 DEF Noticed, AtKora
  <2> QED BY <2>1, <2>2
<1>9. WorkerKnows'
  <2> SUFFICES ASSUME NEW w \in Workers, pc'[w] \in Busy PROVE Knows(w)'
    BY DEF WorkerKnows
  <2>1. pc'[w] = pc[w] /\ job'[w] = job[w] /\ ref'[w] = ref[w] /\ answer'[w] = answer[w]
    BY <1>0, <1>2, OthersStay
  <2>2. Knows(w) /\ job[w] \in Payouts /\ job[w] # p
    BY <1>0, <1>1, <2>1 DEF WorkerKnows, Knows, JobKnown, Busy
  <2> QED BY <1>2, <1>3, <2>1, <2>2 DEF Knows, AtKora
<1> QED BY <1>6, <1>7, <1>8, <1>9 DEF Money

\* Every action of every actor keeps the payments and the books.
THEOREM SendInvStep == Apart /\ SendInv /\ [Next]_vars => SendInv'
<1> SUFFICES ASSUME Apart, SendInv, [Next]_vars PROVE SendInv'
  OBVIOUS
<1>1. Typed' /\ Fresh' /\ Releasing'
  BY TypeStep, ReleaseStep DEF SendInv
<1>2. ASSUME Still PROVE Money'
  BY <1>2, StillKeeps
<1>3. ASSUME Moving PROVE Money'
  <2>1. CASE \E p \in Payouts :
               \/ RetryPayout(p) \/ \E h \in Handlers : Notice(h, p)
               \/ \E g \in Generations : KoraTransfer(p, g) \/ KoraReturn(p, g)
    BY <2>1, RetryKeepsMoney, NoticeKeepsMoney, KoraKeepsMoney
  <2>2. CASE \E w \in Workers : NothingLeft(w) \/ Release(w) \/ Send(w)
    <3>1. PICK w \in Workers : NothingLeft(w) \/ Release(w) \/ Send(w)
      BY <2>2
    <3>2. CASE NothingLeft(w) \/ Release(w)
      BY <3>2, ReleaseKeepsMoney
    <3>3. CASE ReadPayout(w) \/ FindTransfer(w) \/ RefuseTransfer(w) \/ CheckTransfer(w)
      BY <3>3, LookingKeepsMoney
    <3>4. CASE SendTransfer(w) \/ Unanswered(w)
      BY <3>4, SendingKeepsMoney
    <3>5. CASE MarkPaid(w) \/ FailPayout(w) \/ AwaitTransfer(w)
      BY <3>5, OutcomeKeepsMoney
    <3> QED BY <3>1, <3>2, <3>3, <3>4, <3>5 DEF Send
  <2>3. CASE \E h \in Handlers : ConfirmReturn(h) \/ Reverse(h)
    BY <2>3, NoticeKeepsMoney, ReverseKeepsMoney
  <2> QED BY <1>3, <2>1, <2>2, <2>3 DEF Moving
<1>4. Money'
  BY <1>2, <1>3, StillOrMoving DEF SendInv
<1> QED BY <1>1, <1>4 DEF SendInv

\* Of all the references of a payout one at most has a transfer that is paid or
\* on its way: those before it came to nothing, those after it were not used.
LEMMA OnlyTheCurrent ==
    ASSUME SendInv PROVE NeverSentTwice
<1> SUFFICES ASSUME NEW p \in Payouts
             PROVE  Cardinality({g \in Generations : transfer[p][g] \in {"pending", "success"}}) <= 1
  BY DEF NeverSentTwice
<1> DEFINE live == {g \in Generations : transfer[p][g] \in {"pending", "success"}}
<1>1. Agrees(p) /\ generation[p] \in Nat /\ Generations \subseteq Nat
  BY DEF SendInv, Money, Transfers, Typed, TypeOK, Generations
<1>2. live \subseteq {generation[p]}
  <2> SUFFICES ASSUME NEW g \in Generations, transfer[p][g] \in {"pending", "success"}
               PROVE  g = generation[p]
    OBVIOUS
  <2>1. ~(g > generation[p]) /\ ~(g < generation[p]) /\ g \in Nat
    BY <1>1 DEF Agrees
  <2> QED BY <1>1, <2>1
<1>3. live = {} \/ live = {generation[p]}
  BY <1>2
<1>4. Cardinality(live) = 0 \/ Cardinality(live) = 1
  BY <1>3, FS_EmptySet, FS_Singleton
<1> QED BY <1>4

\* The counts of journals follow from which journals there are.
LEMMA BooksBalance ==
    ASSUME Typed, Books PROVE LedgerMatchesPayout
<1> SUFFICES ASSUME NEW p \in Payouts
             PROVE  Cardinality(sentBooked[p]) - Cardinality(returnBooked[p])
                      = IF payoutState[p] = "paid" /\ amount[p] # recovery[p] THEN 1 ELSE 0
  BY DEF LedgerMatchesPayout
<1>1. Booked(p) /\ sentBooked[p] \subseteq Generations
  BY DEF Books, Typed, TypeOK
<1>2. IsFiniteSet(sentBooked[p])
  <2>1. IsFiniteSet(Generations)
    BY PayoutConstants, FS_Interval DEF Generations
  <2> QED BY <1>1, <2>1, FS_Subset
<1>3. Cardinality(sentBooked[p]) \in Nat
  BY <1>2, FS_CardinalityType
<1>4. CASE payoutState[p] = "paid" /\ amount[p] # recovery[p]
  <2>1. generation[p] \in sentBooked[p] /\ returnBooked[p] = sentBooked[p] \ {generation[p]}
    BY <1>1, <1>4 DEF Booked, Whole
  <2>2. Cardinality(sentBooked[p] \ {generation[p]}) = Cardinality(sentBooked[p]) - 1
    BY <1>2, <2>1, FS_RemoveElement
  <2> QED BY <1>3, <1>4, <2>1, <2>2
<1>5. CASE ~(payoutState[p] = "paid" /\ amount[p] # recovery[p])
  <2>1. returnBooked[p] = sentBooked[p]
    BY <1>1, <1>5 DEF Booked, Whole
  <2> QED BY <1>3, <1>5, <2>1
<1> QED BY <1>4, <1>5

\* A transfer is never sent a second time while an earlier one is paid or on its
\* way, for every number of instances, payouts and retries, though Kora may take a
\* transfer and not answer, and a worker may stop anywhere, if no two of them are
\* at the transfer of one payout at once.
THEOREM SentOnce == Spec /\ []Apart => []NeverSentTwice
<1>1. Init => SendInv
  BY InitSend
<1>2. Apart /\ SendInv /\ [Next]_vars => SendInv'
  BY SendInvStep
<1>3. SendInv => NeverSentTwice
  BY OnlyTheCurrent
<1> QED BY <1>1, <1>2, <1>3, PTL DEF Spec

\* On the same condition a payout recorded as paid was paid, by the transfer of its
\* current reference, unless it went entirely to what the seller owed.
THEOREM PaidWasSent == Spec /\ []Apart => []PaidMeansSent
<1>1. Init => SendInv
  BY InitSend
<1>2. Apart /\ SendInv /\ [Next]_vars => SendInv'
  BY SendInvStep
<1>3. SendInv => PaidMeansSent
  BY DEF SendInv, Money, Transfers, Agrees, Whole, PaidMeansSent
<1> QED BY <1>1, <1>2, <1>3, PTL DEF Spec

(***************************************************************************)
(* The ledger.  The books need less: whatever several workers make of one  *)
(* payout, a reference is booked when its payout leaves "processing", once.*)
(***************************************************************************)

\* Nothing was sent for a payout that never went out, and nobody is sending it.
Started ==
    /\ \A p \in Payouts :
           /\ payoutState[p] \in {"scheduled", "cancelled"} \/ Whole(p) =>
                  \A g \in Generations : transfer[p][g] = "none"
           /\ payoutState[p] \in {"processing", "failed"} => amount[p] # recovery[p]
    /\ \A w \in Workers : pc[w] \in Busy =>
           payoutState[job[w]] \notin {"scheduled", "cancelled"} /\ ~Whole(job[w])

\* A notice is of the reference its payout still has, and is still paid under.
Current(h) ==
    payoutState[job[h]] = "paid" /\ ~Whole(job[h]) /\ ref[h] = generation[job[h]]

Notices ==
    \A h \in Handlers : pc[h] \in {"idle", "looking", "answered"} /\ (pc[h] # "idle" => Current(h))

LedgerInv == Typed /\ Fresh /\ Releasing /\ Started /\ Notices /\ Books

LEMMA InitLedger == Init => LedgerInv
<1> SUFFICES ASSUME Init PROVE LedgerInv
  OBVIOUS
<1>1. Typed /\ Fresh /\ Releasing /\ Books
  BY InitSend DEF SendInv, Money
<1>2. Started /\ Notices
  BY DEF Init, Started, Notices, Busy, Whole
<1> QED BY <1>1, <1>2 DEF LedgerInv

\* Where no payment moves, and the agents stay at what they were or stop.
LEMMA StillLedger == LedgerInv /\ Still => Started' /\ Notices' /\ Books'
<1> SUFFICES ASSUME LedgerInv, Still PROVE Started' /\ Notices' /\ Books'
  OBVIOUS
<1> USE DEF ledger
<1>1. Books'
  BY DEF Still, LedgerInv, Books, Booked, Whole
<1>2. Started'
  <2> SUFFICES ASSUME NEW w \in Workers, pc'[w] \in Busy
               PROVE  payoutState[job'[w]] \notin {"scheduled", "cancelled"} /\ ~Whole(job'[w])
    BY DEF LedgerInv, Started, Still, Whole
  <2>1. pc'[w] = pc[w] /\ job'[w] = job[w]
    BY DEF Still, Busy
  <2> QED BY <2>1 DEF LedgerInv, Started
<1>3. Notices'
  <2> SUFFICES ASSUME NEW h \in Handlers, pc'[h] # "idle"
               PROVE  pc'[h] \in {"looking", "answered"} /\ Current(h)'
    BY DEF Notices
  <2>1. pc'[h] = pc[h] /\ job'[h] = job[h] /\ ref'[h] = ref[h]
    BY DEF Still
  <2> QED BY <2>1 DEF Still, LedgerInv, Notices, Current, Whole
<1> QED BY <1>1, <1>2, <1>3

\* Where payments move at Kora only, and the one agent that turns is at a payout
\* that went out.
LEMMA SentLedger ==
    ASSUME LedgerInv, NEW p \in Payouts, NEW g \in Generations,
           UNCHANGED <<payoutState, generation, amount, recovery, ledger>>,
           payoutState[p] \notin {"scheduled", "cancelled"} /\ ~Whole(p),
           \A q \in Payouts : \A f \in Generations :
               q # p \/ f # g => transfer'[q][f] = transfer[q][f],
           \A h \in Handlers : pc'[h] = pc[h] /\ job'[h] = job[h] /\ ref'[h] = ref[h],
           \A w \in Workers : pc'[w] \in Busy =>
               (pc[w] \in Busy /\ job'[w] = job[w]) \/ job'[w] = p
    PROVE  Started' /\ Notices' /\ Books'
<1> USE DEF ledger
<1>1. Books'
  BY DEF LedgerInv, Books, Booked, Whole
<1>2. \A q \in Payouts : Whole(q)' <=> Whole(q)
  BY DEF Whole
<1>3. Started'
  <2>1. \A q \in Payouts :
            payoutState[q] \in {"scheduled", "cancelled"} \/ Whole(q) =>
                \A f \in Generations : transfer'[q][f] = "none"
    BY DEF LedgerInv, Started
  <2>2. ASSUME NEW w \in Workers, pc'[w] \in Busy
        PROVE  payoutState'[job'[w]] \notin {"scheduled", "cancelled"} /\ ~Whole(job[w])'
    <3>1. payoutState[job'[w]] \notin {"scheduled", "cancelled"} /\ ~Whole(job'[w])
      BY <2>2 DEF LedgerInv, Started
    <3> QED BY <3>1 DEF Whole
  <2>3. \A q \in Payouts :
            payoutState[q] \in {"processing", "failed"} => amount[q] # recovery[q]
    BY DEF LedgerInv, Started
  <2> QED BY <1>2, <2>1, <2>2, <2>3 DEF Started
<1>4. Notices'
  BY DEF LedgerInv, Notices, Current, Whole
<1> QED BY <1>1, <1>3, <1>4

\* Where a payout moves, nobody else is at it, or is out of date.
LEMMA MovedLedger ==
    ASSUME LedgerInv, NEW p \in Payouts, UNCHANGED transfer,
           \A q \in Payouts : q # p =>
               /\ payoutState'[q] = payoutState[q] /\ generation'[q] = generation[q]
               /\ amount'[q] = amount[q] /\ recovery'[q] = recovery[q]
               /\ sentBooked'[q] = sentBooked[q] /\ returnBooked'[q] = returnBooked[q],
           Booked(p)',
           payoutState'[p] \in {"scheduled", "cancelled"} \/ Whole(p)' =>
               payoutState[p] = "scheduled",
           payoutState'[p] \in {"processing", "failed"} => amount'[p] # recovery'[p],
           \A w \in Workers : pc'[w] \in Busy => pc[w] \in Busy /\ job'[w] = job[w],
           \A h \in Handlers : pc'[h] # "idle" =>
               /\ pc'[h] = pc[h] /\ job'[h] = job[h] /\ ref'[h] = ref[h]
               /\ job[h] # p
    PROVE  Started' /\ Notices' /\ Books'
<1>1. \A q \in Payouts : q # p => (Whole(q)' <=> Whole(q))
  BY DEF Whole
<1>2. Books'
  BY <1>1 DEF LedgerInv, Books, Booked
<1>3. Notices'
  <2> SUFFICES ASSUME NEW h \in Handlers, pc'[h] # "idle"
               PROVE  pc'[h] \in {"looking", "answered"} /\ Current(h)'
    BY DEF Notices
  <2>1. /\ pc'[h] = pc[h] /\ job'[h] = job[h] /\ ref'[h] = ref[h] /\ job[h] # p
        /\ pc[h] \in {"looking", "answered"} /\ Current(h) /\ job[h] \in Payouts
    BY DEF LedgerInv, Notices, Typed, JobKnown
  <2> QED BY <2>1 DEF Current, Whole
<1>4. Started'
  <2>1. ASSUME NEW q \in Payouts,
               payoutState'[q] \in {"scheduled", "cancelled"} \/ Whole(q)'
        PROVE  \A g \in Generations : transfer'[q][g] = "none"
    <3>1. CASE q = p
      BY <2>1, <3>1 DEF LedgerInv, Started
    <3>2. CASE q # p
      BY <1>1, <2>1, <3>2 DEF LedgerInv, Started
    <3> QED BY <3>1, <3>2
  <2>2. \A q \in Payouts :
            payoutState'[q] \in {"processing", "failed"} => amount'[q] # recovery'[q]
    BY DEF LedgerInv, Started
  <2>3. ASSUME NEW w \in Workers, pc'[w] \in Busy
        PROVE  payoutState'[job'[w]] \notin {"scheduled", "cancelled"} /\ ~Whole(job[w])'
    <3>1. /\ job'[w] = job[w] /\ job[w] \in Payouts
          /\ payoutState[job[w]] \notin {"scheduled", "cancelled"} /\ ~Whole(job[w])
      BY <2>3 DEF LedgerInv, Started, Typed, JobKnown, Busy
    <3>2. CASE job[w] = p
      BY <3>1, <3>2 DEF Whole
    <3>3. CASE job[w] # p
      BY <3>1, <3>3 DEF Whole
    <3> QED BY <3>2, <3>3
  <2> QED BY <2>1, <2>2, <2>3 DEF Started
<1> QED BY <1>2, <1>3, <1>4

\* The release of a payout.
LEMMA ReleaseLedger ==
    ASSUME LedgerInv, NEW w \in Workers, NothingLeft(w) \/ Release(w)
    PROVE  Started' /\ Notices' /\ Books'
<1>a. PICK p \in Payouts : p = job[w]
  BY DEF LedgerInv, Typed, JobKnown, NothingLeft, Release
<1>0. Typed /\ TypeOK /\ w \notin Handlers /\ p \in Payouts
      /\ pc[w] = "locked" /\ payoutState[p] = "scheduled" /\ Booked(p)
  BY <1>a, PayoutConstants DEF LedgerInv, Typed, JobKnown, Releasing, Books, NothingLeft, Release
<1>1. /\ UNCHANGED <<generation, transfer, sentBooked, returnBooked>>
      /\ Rest(w) \/ Turn(w, "ready", "none")
  BY DEF NothingLeft, Release, ledger
<1>2. /\ \A q \in Payouts : q # p =>
             /\ payoutState'[q] = payoutState[q] /\ amount'[q] = amount[q]
             /\ recovery'[q] = recovery[q]
      /\ payoutState'[p] \in {"cancelled", "paid", "processing"}
      /\ payoutState'[p] = "paid" => amount'[p] = recovery'[p]
      /\ payoutState'[p] = "processing" => amount'[p] # recovery'[p]
  <2>1. CASE NothingLeft(w)
    BY <1>a, <1>0, <2>1 DEF NothingLeft, TypeOK
  <2>2. CASE Release(w)
    <3> DEFINE left == Entitlement[p] - Refunded(p)
               take == Taken(left)
    <3>1. /\ amount' = [amount EXCEPT ![p] = left]
          /\ recovery' = [recovery EXCEPT ![p] = take]
          /\ payoutState' = [payoutState EXCEPT ![p] = IF take = left THEN "paid" ELSE "processing"]
      BY <1>a, <2>2 DEF Release
    <3> HIDE DEF left, take
    <3> QED BY <1>0, <3>1 DEF TypeOK
  <2> QED BY <2>1, <2>2
<1>3. Booked(p)'
  BY <1>0, <1>1, <1>2 DEF Booked, Whole
<1>4. /\ pc'[w] \notin Busy
      /\ \A b \in Agents : b # w => pc'[b] = pc[b] /\ job'[b] = job[b] /\ ref'[b] = ref[b]
  BY <1>0, <1>1 DEF Rest, Turn, TypeOK, Busy
<1>5. \A h \in Handlers : pc[h] # "idle" => job[h] # p
  BY <1>0 DEF LedgerInv, Notices, Current
<1>6. \A h \in Handlers : h # w
  BY <1>0
<1> QED BY <1>0, <1>1, <1>2, <1>3, <1>4, <1>5, <1>6, MovedLedger

\* A failed payout gets its next reference.
LEMMA RetryLedger ==
    ASSUME LedgerInv, NEW p \in Payouts, RetryPayout(p)
    PROVE  Started' /\ Notices' /\ Books'
<1>0. Typed /\ TypeOK /\ Booked(p) /\ amount[p] # recovery[p] /\ payoutState[p] = "failed"
  BY DEF LedgerInv, Typed, Books, Started, RetryPayout
<1>1. /\ UNCHANGED <<amount, recovery, transfer, sentBooked, returnBooked, pc, job, ref>>
      /\ payoutState'[p] = "processing" /\ generation'[p] = generation[p] + 1
      /\ \A q \in Payouts : q # p =>
             payoutState'[q] = payoutState[q] /\ generation'[q] = generation[q]
  BY <1>0, NextGeneration DEF RetryPayout, TypeOK, ledger, agent
<1>2. generation[p] \in Nat /\ sentBooked[p] \subseteq Nat
  BY <1>0 DEF TypeOK, Generations
<1>3. Booked(p)'
  BY <1>0, <1>1, <1>2 DEF Booked, Whole
<1>4. \A h \in Handlers : pc[h] # "idle" => job[h] # p
  BY <1>0 DEF LedgerInv, Notices, Current
<1> QED BY <1>0, <1>1, <1>3, <1>4, MovedLedger DEF Whole

\* What a worker writes down.
LEMMA OutcomeLedger ==
    ASSUME LedgerInv, NEW w \in Workers, MarkPaid(w) \/ FailPayout(w)
    PROVE  Started' /\ Notices' /\ Books'
<1>a. PICK p \in Payouts : p = job[w]
  BY DEF LedgerInv, Typed, JobKnown, MarkPaid, FailPayout
<1>0. /\ Typed /\ TypeOK /\ Booked(p) /\ p \in Payouts /\ w \notin Handlers
      /\ UNCHANGED <<generation, amount, recovery, transfer, returnBooked>> /\ Rest(w)
  <2>1. Typed /\ TypeOK /\ Booked(p) /\ w \notin Handlers
    BY PayoutConstants DEF LedgerInv, Typed, Books
  <2>2. UNCHANGED <<generation, amount, recovery, transfer, returnBooked>> /\ Rest(w)
    BY DEF MarkPaid, FailPayout, ledger
  <2> QED BY <2>1, <2>2
<1>1. CASE payoutState[p] # "processing"
  <2>1. UNCHANGED <<payoutState, sentBooked>>
    <3>1. CASE MarkPaid(w)
      BY <1>a, <1>1, <3>1 DEF MarkPaid
    <3>2. CASE FailPayout(w)
      BY <1>a, <1>0, <1>1, <3>2 DEF FailPayout, TypeOK, ledger
    <3> QED BY <3>1, <3>2
  <2>2. Still
    BY <1>0, <2>1, RestIsStill DEF ledger
  <2> QED BY <2>2, StillLedger
<1>2. CASE payoutState[p] = "processing"
  <2>1. amount[p] # recovery[p]
    BY <1>0, <1>2 DEF LedgerInv, Started
  <2>2. /\ \/ payoutState'[p] = "paid" /\ sentBooked'[p] = sentBooked[p] \cup {generation[p]}
           \/ payoutState'[p] = "failed" /\ sentBooked'[p] = sentBooked[p]
        /\ \A q \in Payouts : q # p =>
               payoutState'[q] = payoutState[q] /\ sentBooked'[q] = sentBooked[q]
    <3>1. CASE MarkPaid(w)
      <4>1. /\ payoutState' = [payoutState EXCEPT ![p] = "paid"]
            /\ sentBooked' = [sentBooked EXCEPT ![p] = @ \cup {generation[p]}]
        BY <1>a, <1>2, <3>1 DEF MarkPaid, JournalOf
      <4> QED BY <1>0, <4>1 DEF TypeOK
    <3>2. CASE FailPayout(w)
      BY <1>a, <1>0, <1>2, <3>2 DEF FailPayout, TypeOK, ledger
    <3> QED BY <3>1, <3>2
  <2>3. generation[p] \in Nat
    BY <1>0 DEF TypeOK, Generations
  <2>4. Booked(p)'
    BY <1>0, <1>2, <2>1, <2>2, <2>3 DEF Booked, Whole
  <2>5. /\ pc'[w] = "idle"
        /\ \A b \in Agents : b # w => pc'[b] = pc[b] /\ job'[b] = job[b] /\ ref'[b] = ref[b]
    BY <1>0 DEF Rest, TypeOK
  <2>6. \A h \in Handlers : h # w /\ (pc[h] # "idle" => job[h] # p)
    BY <1>0, <1>2 DEF LedgerInv, Notices, Current
  <2>7. /\ ~(payoutState'[p] \in {"scheduled", "cancelled"} \/ Whole(p)')
        /\ amount'[p] # recovery'[p]
    BY <1>0, <2>1, <2>2 DEF Whole
  <2> QED BY <1>0, <2>2, <2>4, <2>5, <2>6, <2>7, MovedLedger DEF Busy
<1> QED BY <1>1, <1>2

\* What a worker does at Kora.
LEMMA SendLedger ==
    ASSUME LedgerInv, NEW w \in Workers,
           \/ ReadPayout(w) \/ FindTransfer(w) \/ SendTransfer(w) \/ RefuseTransfer(w)
           \/ Unanswered(w) \/ CheckTransfer(w) \/ AwaitTransfer(w)
    PROVE  Started' /\ Notices' /\ Books'
<1>a. PICK p \in Payouts, g \in Generations : p = job[w] /\ g = ref[w]
  BY DEF LedgerInv, Typed, TypeOK, JobKnown, ReadPayout, FindTransfer, SendTransfer,
     RefuseTransfer, Unanswered, CheckTransfer, AwaitTransfer
<1>0. /\ Typed /\ TypeOK /\ p \in Payouts /\ g \in Generations /\ w \notin Handlers
      /\ UNCHANGED <<payoutState, generation, amount, recovery, ledger>>
  BY PayoutConstants DEF LedgerInv, Typed, TypeOK, JobKnown, ReadPayout, FindTransfer,
     SendTransfer, RefuseTransfer, Unanswered, CheckTransfer, AwaitTransfer, payout
<1>1. CASE Rest(w) /\ UNCHANGED transfer
  <2>1. Still
    BY <1>0, <1>1, RestIsStill
  <2> QED BY <2>1, StillLedger
<1>2. CASE ~(Rest(w) /\ UNCHANGED transfer)
  <2>1. payoutState[p] \notin {"scheduled", "cancelled"} /\ ~Whole(p)
    <3>1. CASE ReadPayout(w)
      <4>1. UNCHANGED transfer
        BY <3>1 DEF ReadPayout
      <4>2. payoutState[p] = "processing"
        BY <1>a, <1>2, <3>1, <4>1 DEF ReadPayout
      <4> QED BY <1>0, <4>2 DEF Whole
    <3>2. CASE pc[w] \in Busy
      BY <1>a, <3>2 DEF LedgerInv, Started
    <3> QED BY <3>1, <3>2 DEF FindTransfer, SendTransfer, RefuseTransfer, Unanswered,
               CheckTransfer, AwaitTransfer, Busy
  <2>2. \A q \in Payouts : \A f \in Generations :
            q # p \/ f # g => transfer'[q][f] = transfer[q][f]
    <3>1. UNCHANGED transfer \/ transfer' = [transfer EXCEPT ![p][g] = "pending"]
      BY <1>a DEF ReadPayout, FindTransfer, SendTransfer, RefuseTransfer, Unanswered, CheckTransfer,
             AwaitTransfer, payout
    <3>2. CASE UNCHANGED transfer
      BY <3>2
    <3>3. CASE transfer' = [transfer EXCEPT ![p][g] = "pending"]
      BY <1>0, <3>3, OneTransfer
    <3> QED BY <3>1, <3>2, <3>3
  <2>3. job'[w] = p \/ pc'[w] = "idle"
    BY <1>a, <1>0 DEF ReadPayout, FindTransfer, SendTransfer, RefuseTransfer, Unanswered, CheckTransfer,
           AwaitTransfer, Wait, Rest, Turn, TypeOK
  <2>4. \A b \in Agents : b # w => pc'[b] = pc[b] /\ job'[b] = job[b] /\ ref'[b] = ref[b]
    BY <1>0 DEF ReadPayout, FindTransfer, SendTransfer, RefuseTransfer, Unanswered, CheckTransfer,
           AwaitTransfer, Wait, Rest, Turn, TypeOK
  <2>5. \A v \in Workers : pc'[v] \in Busy =>
            (pc[v] \in Busy /\ job'[v] = job[v]) \/ job'[v] = p
    BY <2>3, <2>4 DEF Busy
  <2>6. \A h \in Handlers : pc'[h] = pc[h] /\ job'[h] = job[h] /\ ref'[h] = ref[h]
    BY <1>0, <2>4
  <2> QED BY <1>0, <2>1, <2>2, <2>5, <2>6, SentLedger
<1> QED BY <1>1, <1>2

\* What Kora does with a transfer it has.
LEMMA KoraLedger ==
    ASSUME LedgerInv, NEW p \in Payouts, NEW g \in Generations,
           KoraTransfer(p, g) \/ KoraReturn(p, g)
    PROVE  Started' /\ Notices' /\ Books'
<1>0. /\ Typed /\ TypeOK /\ transfer[p][g] # "none"
      /\ UNCHANGED <<payoutState, generation, amount, recovery, ledger, pc, job, ref>>
  BY DEF LedgerInv, Typed, KoraTransfer, KoraReturn, payout, agent
<1>1. payoutState[p] \notin {"scheduled", "cancelled"} /\ ~Whole(p)
  BY <1>0 DEF LedgerInv, Started
<1>2. \A q \in Payouts : \A f \in Generations :
          q # p \/ f # g => transfer'[q][f] = transfer[q][f]
  <2>1. PICK status : transfer' = [transfer EXCEPT ![p][g] = status]
    BY DEF KoraTransfer, KoraReturn
  <2> QED BY <1>0, <2>1, OneTransfer
<1> QED BY <1>0, <1>1, <1>2, SentLedger

\* A notice that comes, and is confirmed.
LEMMA NoticeLedger ==
    ASSUME LedgerInv, NEW h \in Handlers,
           ConfirmReturn(h) \/ \E p \in Payouts : Notice(h, p)
    PROVE  Started' /\ Notices' /\ Books'
<1>0. /\ Typed /\ TypeOK /\ h \notin Workers
      /\ UNCHANGED <<payoutState, generation, amount, recovery, transfer, sentBooked, returnBooked>>
  BY PayoutConstants DEF LedgerInv, Typed, ConfirmReturn, Notice, payout, ledger
<1>1. \A b \in Agents : b # h => pc'[b] = pc[b] /\ job'[b] = job[b] /\ ref'[b] = ref[b]
  BY <1>0 DEF ConfirmReturn, Notice, Turn, TypeOK
<1>2. pc'[h] \in {"looking", "answered"} /\ Current(h)'
  <2>1. CASE ConfirmReturn(h)
    <3>1. pc'[h] = "answered" /\ job' = job /\ ref' = ref /\ Current(h)
      BY <1>0, <2>1 DEF ConfirmReturn, Turn, TypeOK, LedgerInv, Notices
    <3> QED BY <1>0, <3>1 DEF Current, Whole
  <2>2. ASSUME NEW p \in Payouts, Notice(h, p) PROVE pc'[h] = "looking" /\ Current(h)'
    <3>1. /\ pc'[h] = "looking" /\ job'[h] = p /\ ref'[h] = generation[p]
          /\ payoutState[p] = "paid" /\ transfer[p][generation[p]] # "none"
          /\ generation[p] \in Generations
      BY <1>0, <2>2 DEF Notice, TypeOK
    <3>2. ~Whole(p)
      BY <3>1 DEF LedgerInv, Started
    <3> QED BY <1>0, <3>1, <3>2 DEF Current, Whole
  <2> QED BY <2>1, <2>2
<1>3. Notices'
  BY <1>0, <1>1, <1>2 DEF LedgerInv, Notices, Current, Whole
<1>4. Started' /\ Books'
  BY <1>0, <1>1 DEF LedgerInv, Started, Books, Booked, Whole
<1> QED BY <1>3, <1>4

\* A payment is taken back under the reference of the notice, which is its own.
LEMMA ReverseLedger ==
    ASSUME NoticesApart, LedgerInv, NEW h \in Handlers, Reverse(h)
    PROVE  Started' /\ Notices' /\ Books'
<1>a. PICK p \in Payouts : p = job[h]
  BY DEF LedgerInv, Typed, JobKnown, Reverse
<1>0. Typed /\ TypeOK /\ h \notin Workers /\ pc[h] # "idle" /\ p \in Payouts
      /\ Current(h) /\ Booked(p)
  BY <1>a, PayoutConstants DEF LedgerInv, Typed, JobKnown, Books, Notices, Reverse
<1>1. payoutState[p] = "paid" /\ ~Whole(p) /\ ref[h] = generation[p] /\ amount[p] # recovery[p]
  BY <1>a, <1>0 DEF Current, Whole
<1>2. /\ UNCHANGED <<generation, amount, recovery, transfer, sentBooked>> /\ Rest(h)
      /\ payoutState' = [payoutState EXCEPT ![p] = "failed"]
      /\ returnBooked' = [returnBooked EXCEPT ![p] = @ \cup {generation[p]}]
  BY <1>a, <1>1 DEF Reverse
<1>3. /\ payoutState'[p] = "failed" /\ returnBooked'[p] = returnBooked[p] \cup {generation[p]}
      /\ \A q \in Payouts : q # p =>
             payoutState'[q] = payoutState[q] /\ returnBooked'[q] = returnBooked[q]
  <2>1. /\ payoutState \in [Payouts -> {"scheduled", "processing", "paid", "failed", "cancelled"}]
        /\ returnBooked \in [Payouts -> SUBSET Generations]
    BY <1>0 DEF TypeOK
  <2> QED BY <1>0, <1>2, <2>1
<1>4. Booked(p)'
  <2>1. returnBooked'[p] = sentBooked[p]
    BY <1>0, <1>1, <1>3 DEF Booked
  <2> QED BY <1>0, <1>2, <1>3, <2>1 DEF Booked, Whole
<1>5. /\ pc'[h] = "idle"
      /\ \A b \in Agents : b # h => pc'[b] = pc[b] /\ job'[b] = job[b] /\ ref'[b] = ref[b]
  BY <1>0, <1>2 DEF Rest, TypeOK
<1>6. \A g \in Handlers : g # h /\ pc[g] # "idle" => job[g] # p
  BY <1>a, <1>0 DEF NoticesApart
<1>7. ~(payoutState'[p] \in {"scheduled", "cancelled"} \/ Whole(p)') /\ amount'[p] # recovery'[p]
  BY <1>1, <1>2, <1>3 DEF Whole
<1>8. \A w \in Workers : w # h
  BY <1>0
<1> QED BY <1>0, <1>2, <1>3, <1>4, <1>5, <1>6, <1>7, <1>8, MovedLedger

\* Every action of every actor keeps the books.
LEMMA LedgerInvStep == NoticesApart /\ LedgerInv /\ [Next]_vars => LedgerInv'
<1> SUFFICES ASSUME NoticesApart, LedgerInv, [Next]_vars PROVE LedgerInv'
  OBVIOUS
<1>1. Typed' /\ Fresh' /\ Releasing'
  BY TypeStep, ReleaseStep DEF LedgerInv
<1>2. ASSUME Moving PROVE Started' /\ Notices' /\ Books'
  <2>1. CASE \E p \in Payouts :
               \/ RetryPayout(p) \/ \E h \in Handlers : Notice(h, p)
               \/ \E g \in Generations : KoraTransfer(p, g) \/ KoraReturn(p, g)
    BY <2>1, RetryLedger, NoticeLedger, KoraLedger
  <2>2. CASE \E w \in Workers : NothingLeft(w) \/ Release(w) \/ Send(w)
    BY <2>2, ReleaseLedger, SendLedger, OutcomeLedger DEF Send
  <2>3. CASE \E h \in Handlers : ConfirmReturn(h) \/ Reverse(h)
    BY <2>3, NoticeLedger, ReverseLedger
  <2> QED BY <1>2, <2>1, <2>2, <2>3 DEF Moving
<1>3. Started' /\ Notices' /\ Books'
  BY <1>2, StillLedger, StillOrMoving DEF LedgerInv
<1> QED BY <1>1, <1>3 DEF LedgerInv

\* The ledger's payments and returns of a payout differ by one exactly while it is
\* recorded as paid, and by nothing otherwise, for every number of workers, however
\* they meet at one payout, if no two notices of it are handled at once.
THEOREM LedgerAgrees == Spec /\ []NoticesApart => []LedgerMatchesPayout
<1>1. Init => LedgerInv
  BY InitLedger
<1>2. NoticesApart /\ LedgerInv /\ [Next]_vars => LedgerInv'
  BY LedgerInvStep
<1>3. LedgerInv => LedgerMatchesPayout
  BY BooksBalance DEF LedgerInv
<1> QED BY <1>1, <1>2, <1>3, PTL DEF Spec

(***************************************************************************)
(* What the seller owes.  Only the end of a refund and a release touch it, *)
(* and each as much on both sides of the balance.                          *)
(***************************************************************************)

\* What each refund has made the seller owe.
OwedForRefunds ==
    [p \in Payouts |-> IF liability[p] = "receivable" /\ refundState[p] = "processed"
                       THEN Share[p] ELSE 0]

Balanced == owed + SumOf(recovery, Payouts) = SumOf(OwedForRefunds, Payouts)

\* The sums of the property are sums of functions.
LEMMA BalanceOfFunctions ==
    ASSUME IsFiniteSet(Payouts), TypeOK
    PROVE  RecoveriesBalance <=> Balanced
<1> DEFINE Recursion(g) ==
        g = [T \in SUBSET Payouts |->
               IF T = {} THEN 0
               ELSE (IF liability[Pick(T)] = "receivable" /\ refundState[Pick(T)] = "processed"
                     THEN Share[Pick(T)] ELSE 0) + g[T \ {Pick(T)}]]
<1>1. MapThenSumSet(LAMBDA p : IF liability[p] = "receivable" /\ refundState[p] = "processed"
                                 THEN Share[p] ELSE 0, Payouts)
        = (CHOOSE g : Recursion(g))[Payouts]
  BY DEF MapThenSumSet, MapThenFoldSet, Pick
<1>2. OwedForRefunds \in [Payouts -> Int]
  BY PayoutConstants DEF OwedForRefunds
<1>3. PICK g \in [SUBSET Payouts -> Int] :
          Adds(g, OwedForRefunds, Payouts) /\ SumOf(OwedForRefunds, Payouts) = g[Payouts]
  BY <1>2, SumByRecursion
<1>4. \A h : Recursion(h) <=> Adds(h, OwedForRefunds, Payouts)
  <2>1. ASSUME NEW T \in SUBSET Payouts, T # {}
        PROVE  OwedForRefunds[Pick(T)]
                 = IF liability[Pick(T)] = "receivable" /\ refundState[Pick(T)] = "processed"
                   THEN Share[Pick(T)] ELSE 0
    BY <2>1, PickIsOne DEF OwedForRefunds
  <2> QED BY <2>1 DEF Adds
<1> HIDE DEF Recursion
<1>5. Recursion(CHOOSE h : Recursion(h))
  BY <1>3, <1>4
<1>6. (CHOOSE h : Recursion(h))[Payouts] = g[Payouts]
  BY <1>3, <1>4, <1>5, AddsUnique
<1>7. MapThenSumSet(LAMBDA p : recovery[p], Payouts) = SumOf(recovery, Payouts)
  BY DEF SumOf
<1> QED BY <1>1, <1>3, <1>6, <1>7 DEF RecoveriesBalance, Balanced

\* A step that changes one value on each side, by as much.
LEMMA BalanceKept ==
    ASSUME IsFiniteSet(Payouts), TypeOK, TypeOK', Balanced, NEW p \in Payouts,
           \A r \in Payouts : r # p => /\ recovery'[r] = recovery[r]
                                       /\ OwedForRefunds'[r] = OwedForRefunds[r],
           owed' + recovery'[p] - recovery[p]
               = owed + OwedForRefunds'[p] - OwedForRefunds[p]
    PROVE  Balanced'
<1>1. /\ recovery \in [Payouts -> Int] /\ recovery' \in [Payouts -> Int]
      /\ owed \in Int /\ owed' \in Int
  BY DEF TypeOK
<1>2. OwedForRefunds \in [Payouts -> Int] /\ OwedForRefunds' \in [Payouts -> Int]
  BY PayoutConstants DEF OwedForRefunds
<1>3. SumOf(recovery', Payouts) = SumOf(recovery, Payouts) + recovery'[p] - recovery[p]
  BY <1>1, SumOfChanged
<1>4. SumOf(OwedForRefunds', Payouts)
        = SumOf(OwedForRefunds, Payouts) + OwedForRefunds'[p] - OwedForRefunds[p]
  BY <1>2, SumOfChanged
<1>5. /\ SumOf(recovery, Payouts) \in Int /\ SumOf(recovery', Payouts) \in Int
      /\ SumOf(OwedForRefunds, Payouts) \in Int /\ SumOf(OwedForRefunds', Payouts) \in Int
  BY <1>1, <1>2, SumIsInt
<1>6. SumOf(recovery, Payouts)' = SumOf(recovery', Payouts)
  BY DEF SumOf, MapThenSumSet, MapThenFoldSet
<1>7. SumOf(OwedForRefunds, Payouts)' = SumOf(OwedForRefunds', Payouts)
  BY DEF SumOf, MapThenSumSet, MapThenFoldSet
<1>8. /\ recovery[p] \in Int /\ recovery'[p] \in Int
      /\ OwedForRefunds[p] \in Int /\ OwedForRefunds'[p] \in Int
  BY <1>1, <1>2
<1> QED BY <1>1, <1>3, <1>4, <1>5, <1>6, <1>7, <1>8 DEF Balanced

\* Nothing is owed or taken at the start.
LEMMA InitBalanced == IsFiniteSet(Payouts) /\ Init => Balanced
<1> SUFFICES ASSUME IsFiniteSet(Payouts), Init PROVE Balanced
  OBVIOUS
<1>1. recovery \in [Payouts -> Int] /\ \A p \in Payouts : recovery[p] = 0
  BY DEF Init
<1>2. /\ OwedForRefunds \in [Payouts -> Int]
      /\ \A p \in Payouts : OwedForRefunds[p] = 0
  BY PayoutConstants DEF Init, OwedForRefunds
<1>3. SumOf(recovery, Payouts) = 0 /\ SumOf(OwedForRefunds, Payouts) = 0
  BY <1>1, <1>2, SumOfZeros
<1>4. owed = 0
  BY DEF Init
<1> QED BY <1>3, <1>4 DEF Balanced

\* A step that changes neither what is taken nor what is owed.
Aside ==
    /\ UNCHANGED <<owed, recovery>>
    /\ \A p \in Payouts : OwedForRefunds'[p] = OwedForRefunds[p]

LEMMA AsideBalanced ==
    ASSUME IsFiniteSet(Payouts), TypeOK, TypeOK', Balanced, Aside
    PROVE  Balanced'
<1>1. OwedForRefunds' = OwedForRefunds
  BY DEF Aside, OwedForRefunds
<1>2. SumOf(OwedForRefunds, Payouts)' = SumOf(OwedForRefunds', Payouts)
  BY DEF SumOf, MapThenSumSet, MapThenFoldSet
<1>3. SumOf(recovery, Payouts)' = SumOf(recovery', Payouts)
  BY DEF SumOf, MapThenSumSet, MapThenFoldSet
<1> QED BY <1>1, <1>2, <1>3 DEF Aside, Balanced

\* A refund is created once, and its end is the one thing that makes it owed.
LEMMA OnlyTwoMove ==
    ASSUME Typed, Next
    PROVE  \/ Aside
           \/ \E p \in Payouts : FinalizeRefund(p)
           \/ \E w \in Workers : Release(w)
<1> USE DEF payout, booking, ledger, agent, OwedForRefunds
<1>1. ASSUME UNCHANGED <<owed, recovery, liability, refundState>> PROVE Aside
  BY <1>1 DEF Aside
<1>2. ASSUME NEW p \in Payouts, CreateRefund(p) \/ RetryRefund(p) \/ \E w \in Workers : RefundFails(w, p)
      PROVE  Aside
  BY <1>2 DEF Aside, CreateRefund, RetryRefund, RefundFails, Typed, TypeOK
<1>3. ASSUME NEW p \in Payouts,
             \/ SetBlocked(p) \/ TimePasses(p) \/ RetryPayout(p)
             \/ \E w \in Workers : Claim(w, p)
             \/ \E g \in Generations : KoraTransfer(p, g) \/ KoraReturn(p, g)
             \/ \E h \in Handlers : Notice(h, p)
      PROVE  Aside
  BY <1>1, <1>3 DEF SetBlocked, TimePasses, RetryPayout, Claim, KoraTransfer, KoraReturn, Notice
<1>4. CASE AccountUsable \/ ReplaceAccount
  BY <1>1, <1>4 DEF AccountUsable, ReplaceAccount
<1>5. ASSUME NEW w \in Workers, Decide(w), ~Release(w) PROVE Aside
  BY <1>1, <1>5 DEF Decide, LockPayout, PassOver, NothingLeft, AwaitAccount
<1>6. ASSUME NEW w \in Workers, Send(w) PROVE Aside
  BY <1>1, <1>6 DEF Send, ReadPayout, FindTransfer, SendTransfer, RefuseTransfer, Unanswered,
       CheckTransfer, MarkPaid, FailPayout, AwaitTransfer
<1>7. ASSUME NEW h \in Handlers, ConfirmReturn(h) \/ Reverse(h) PROVE Aside
  BY <1>1, <1>7 DEF ConfirmReturn, Reverse
<1>8. ASSUME NEW a \in Agents, Crash(a) PROVE Aside
  BY <1>1, <1>8 DEF Crash
<1> HIDE DEF payout, booking, ledger, agent, OwedForRefunds
<1> QED BY <1>2, <1>3, <1>4, <1>5, <1>6, <1>7, <1>8 DEF Next

\* The end of a refund adds the share to what is owed, once.
LEMMA FinalizeBalanced ==
    ASSUME IsFiniteSet(Payouts), TypeOK, TypeOK', Balanced,
           NEW p \in Payouts, FinalizeRefund(p)
    PROVE  Balanced'
<1>1. /\ recovery' = recovery /\ owed' = owed + OwedFor(p)
      /\ refundState' = [refundState EXCEPT ![p] = "processed"] /\ liability' = liability
      /\ refundState[p] = "queued"
  BY DEF FinalizeRefund, payout
<1>2. OwedForRefunds'[p] = OwedFor(p) /\ OwedForRefunds[p] = 0
  BY <1>1 DEF OwedForRefunds, OwedFor, TypeOK
<1>3. \A r \in Payouts : r # p => OwedForRefunds'[r] = OwedForRefunds[r]
  BY <1>1 DEF OwedForRefunds, TypeOK
<1>4. OwedFor(p) \in Int /\ owed \in Int /\ recovery[p] \in Int
  BY PayoutConstants DEF OwedFor, TypeOK
<1>5. owed' + recovery'[p] - recovery[p] = owed + OwedForRefunds'[p] - OwedForRefunds[p]
  BY <1>1, <1>2, <1>4
<1> QED BY <1>1, <1>3, <1>5, BalanceKept

\* What a release takes was nothing before it.
LEMMA ReleaseBalanced ==
    ASSUME IsFiniteSet(Payouts), Typed, Fresh, Releasing, TypeOK', Balanced,
           NEW w \in Workers, Release(w)
    PROVE  Balanced'
<1> DEFINE p == job[w]
           take == Taken(Entitlement[p] - Refunded(p))
<1>1. /\ recovery' = [recovery EXCEPT ![p] = take] /\ owed' = owed - take
      /\ UNCHANGED <<refundState, liability>> /\ pc[w] = "locked"
  BY DEF Release
<1>2. p \in Payouts /\ recovery[p] = 0 /\ owed \in Int
  BY <1>1 DEF Typed, TypeOK, JobKnown, Fresh, Releasing
<1>3. take \in Nat
  BY <1>2, RefundedTyped, TakenBounds DEF Typed, TypeOK
<1>4. \A r \in Payouts : OwedForRefunds'[r] = OwedForRefunds[r]
  BY <1>1 DEF OwedForRefunds
<1>5. OwedForRefunds[p] \in Int
  BY <1>2, PayoutConstants DEF OwedForRefunds
<1> HIDE DEF p, take
<1>6. recovery'[p] = take /\ \A r \in Payouts : r # p => recovery'[r] = recovery[r]
  BY <1>1, <1>2 DEF Typed, TypeOK
<1>7. owed' + recovery'[p] - recovery[p] = owed + OwedForRefunds'[p] - OwedForRefunds[p]
  BY <1>1, <1>2, <1>3, <1>4, <1>5, <1>6
<1> QED BY <1>2, <1>4, <1>6, <1>7, BalanceKept DEF Typed

\* Of a finite number of payouts: what refunds have made the seller owe is what
\* was taken out of later payouts and what is still open, in whatever order
\* refunds end and payouts are released, by however many workers.
THEOREM OwedIsTakenOrOpen == IsFiniteSet(Payouts) => (Spec => []RecoveriesBalance)
<1> DEFINE Inv == Typed /\ Fresh /\ Releasing /\ Balanced
<1> SUFFICES ASSUME IsFiniteSet(Payouts) PROVE Spec => []RecoveriesBalance
  OBVIOUS
<1>1. Init => Inv
  BY InitTyped, InitBalanced
<1>2. Inv /\ [Next]_vars => Inv'
  <2> SUFFICES ASSUME Inv, [Next]_vars PROVE Inv'
    OBVIOUS
  <2>1. Typed' /\ Fresh' /\ Releasing'
    BY TypeStep, ReleaseStep
  <2>2. TypeOK /\ TypeOK'
    BY <2>1 DEF Typed
  <2>3. CASE UNCHANGED vars
    <3>1. Aside
      BY <2>3 DEF vars, payout, booking, Aside, OwedForRefunds
    <3> QED BY <2>1, <2>2, <3>1, AsideBalanced
  <2>4. CASE Next
    BY <2>1, <2>2, <2>4, OnlyTwoMove, AsideBalanced, FinalizeBalanced, ReleaseBalanced
  <2> QED BY <2>3, <2>4
<1>3. Inv => RecoveriesBalance
  BY BalanceOfFunctions DEF Typed
<1> QED BY <1>1, <1>2, <1>3, PTL DEF Spec

===============================================================================
