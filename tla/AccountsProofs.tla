---------------------------- MODULE AccountsProofs ----------------------------
(* What is agreed, announced and erased, for any people, offers, addresses   *)
(* and API instances.                                                        *)
EXTENDS Accounts, FiniteSetTheorems, TLAPS

(***************************************************************************)
(* Offers by themselves.                                                   *)
(***************************************************************************)

\* The buyer's amount waits for the seller and the seller's for the buyer.
Turns ==
    \A o \in OfferIds :
        /\ offer[o].state = "pending" => offer[o].version = 1
        /\ offer[o].state = "countered" => offer[o].version = 2

OffersInv == OffersTypeOK /\ Turns /\ AgreedAsShown

LEMMA OffersInitInv == OffersInit => OffersInv
  BY OffersConstants DEF OffersInit, OffersInv, OffersTypeOK, Turns, AgreedAsShown,
     NoOffer, NoAgreement, Parties, OfferStates

\* A response keeps the types, whose turn it is, and what was agreed.
LEMMA RespondInv ==
    ASSUME OffersInv, NEW o \in OfferIds, NEW party \in Parties, NEW version \in 1 .. 2,
           OfferRespond(o, party, version)
    PROVE  OffersInv'
<1> USE DEF OffersInv, OffersTypeOK, Turns, AgreedAsShown, Parties, OfferStates
<1>1. CASE Counter(o, party, version)
  BY <1>1 DEF Counter, Answerable, Stale, Exists
<1>2. CASE Accept(o, party, version)
  BY <1>2 DEF Accept, Answerable, Stale, Exists, Decidable, SetState
<1>3. CASE Decline(o, party, version)
  BY <1>3 DEF Decline, Answerable, Decidable, SetState
<1>4. CASE Withdraw(o, party, version)
  BY <1>4 DEF Withdraw, Answerable, SetState
<1> QED BY <1>1, <1>2, <1>3, <1>4 DEF OfferRespond

LEMMA CloseInv ==
    ASSUME OffersInv, NEW mine \in SUBSET OfferIds, NEW asBuyer \in SUBSET OfferIds,
           CloseOffersOf(mine, asBuyer)
    PROVE  OffersInv'
<1>1. /\ shown' = shown /\ agreement' = agreement
      /\ offer' = [o \in OfferIds |-> offer'[o]]
  BY DEF CloseOffersOf
<1>2. ASSUME NEW o \in OfferIds
      PROVE  /\ offer'[o] \in [state : OfferStates, version : {1, 2},
                               buyer : Buyers \cup {Nobody}, named : BOOLEAN]
             /\ offer'[o].version = offer[o].version
             /\ offer'[o].state \in {offer[o].state, "expired"}
  <2>1. offer[o] \in [state : OfferStates, version : {1, 2},
                      buyer : Buyers \cup {Nobody}, named : BOOLEAN]
    BY DEF OffersInv, OffersTypeOK
  <2>2. offer'[o] = [offer[o] EXCEPT
            !.state = IF o \in mine /\ @ \in OpenStates THEN "expired" ELSE @,
            !.named = @ /\ o \notin asBuyer]
    BY DEF CloseOffersOf
  <2> QED BY <2>1, <2>2 DEF OfferStates
<1>3. OffersTypeOK'
  BY <1>1, <1>2 DEF OffersInv, OffersTypeOK
<1>4. Turns' /\ AgreedAsShown'
  BY <1>1, <1>2 DEF OffersInv, Turns, AgreedAsShown
<1> QED BY <1>3, <1>4 DEF OffersInv

\* An offer that comes to an end was agreed, if it is sold.
LEMMA EndInv ==
    ASSUME OffersInv, NEW o \in OfferIds, NEW to \in {"expired", "converted"},
           to = "converted" => offer[o].state = "agreed",
           offer' = [offer EXCEPT ![o].state = to], UNCHANGED <<shown, agreement>>
    PROVE  OffersInv'
<1>1. OffersTypeOK'
  BY DEF OffersInv, OffersTypeOK, OfferStates
<1>2. ASSUME NEW p \in OfferIds
      PROVE  /\ offer'[p].version = offer[p].version
             /\ offer'[p].state = IF p = o THEN to ELSE offer[p].state
  BY DEF OffersInv, OffersTypeOK
<1>3. Turns' /\ AgreedAsShown'
  BY <1>2 DEF OffersInv, Turns, AgreedAsShown
<1> QED BY <1>1, <1>3 DEF OffersInv

LEMMA OffersStepInv == OffersInv /\ [OffersNext]_offersVars => OffersInv'
<1> SUFFICES ASSUME OffersInv, [OffersNext]_offersVars PROVE OffersInv'
  OBVIOUS
<1>1. ASSUME NEW o \in OfferIds, NEW a \in Buyers, CreateOffer(o, a) PROVE OffersInv'
  BY <1>1 DEF CreateOffer, Exists, OffersInv, OffersTypeOK, Turns, AgreedAsShown,
     Parties, OfferStates
<1>2. ASSUME NEW o \in OfferIds, NEW party \in Parties, GetOffer(o, party) PROVE OffersInv'
  BY <1>2 DEF GetOffer, OffersInv, OffersTypeOK, Turns, AgreedAsShown, Parties
<1>3. ASSUME NEW o \in OfferIds, OfferLapses(o) PROVE OffersInv'
  BY <1>3, EndInv DEF OfferLapses
<1>5. ASSUME NEW o \in OfferIds, ConvertOffer(o) PROVE OffersInv'
  BY <1>5, EndInv DEF ConvertOffer, SetState
<1>4. CASE UNCHANGED offersVars
  BY <1>4 DEF offersVars, OffersInv, OffersTypeOK, Turns, AgreedAsShown
<1> QED BY <1>1, <1>2, <1>3, <1>4, <1>5, RespondInv, CloseInv DEF OffersNext

(***************************************************************************)
(* Announcements by themselves.                                            *)
(***************************************************************************)

\* A sender at work holds a queued email of an announcement under way, alone.
AtWork ==
    /\ \A w \in Senders : sender[w] # AtRest =>
        /\ sender[w].pc # "idle"
        /\ sender[w].address \in Addresses
        /\ announcement = "sending"
        /\ delivery[sender[w].address].state = "queued"
    /\ \A v, w \in Senders :
        v # w /\ sender[v] # AtRest => sender[v].address # sender[w].address

\* What is queued is being sent, and may be tried again.
QueuedInTime ==
    \A p \in Addresses : delivery[p].state = "queued" =>
        announcement = "sending" /\ delivery[p].tries < MaxTries

\* People are counted for a draft.
CountedForDraft == operator # NotSending => announcement = "draft"

NewsInv == AnnouncementsTypeOK /\ AtWork /\ QueuedInTime /\ CountedForDraft

LEMMA NewsInitInv == AnnouncementsInit => NewsInv
  BY AnnouncementsConstants DEF AnnouncementsInit, NewsInv, AnnouncementsTypeOK, AtWork,
     QueuedInTime, CountedForDraft, NoContact, NoDelivery, AtRest, NotSending

\* What people choose touches neither the deliveries nor the senders.
LEMMA ChoiceInv ==
    ASSUME NewsInv, UNCHANGED sendingVars,
           contact' \in [Addresses -> [known : BOOLEAN, subscribed : BOOLEAN,
                                       confirmed : BOOLEAN]]
    PROVE  NewsInv'
  BY DEF NewsInv, AnnouncementsTypeOK, AtWork, QueuedInTime, CountedForDraft, sendingVars

LEMMA ChoiceTyped ==
    ASSUME AnnouncementsTypeOK, NEW p \in Addresses, NEW subscribed \in BOOLEAN,
           NEW confirmed \in BOOLEAN,
           \/ RecordMarketingChoice(p, subscribed, confirmed)
           \/ ConfirmMarketingEmail(p)
    PROVE  contact' \in [Addresses -> [known : BOOLEAN, subscribed : BOOLEAN,
                                       confirmed : BOOLEAN]]
<1>1. contact[p] \in [known : BOOLEAN, subscribed : BOOLEAN, confirmed : BOOLEAN]
  BY DEF AnnouncementsTypeOK
<1>2. CASE RecordMarketingChoice(p, subscribed, confirmed)
  BY <1>1, <1>2, Zenon DEF RecordMarketingChoice, AnnouncementsTypeOK
<1>3. CASE ConfirmMarketingEmail(p)
  BY <1>1, <1>3 DEF ConfirmMarketingEmail, Confirmed, AnnouncementsTypeOK
<1> QED BY <1>2, <1>3

LEMMA ImportTyped ==
    ASSUME AnnouncementsTypeOK, NEW S \in SUBSET Addresses, ImportUnsubscribes(S)
    PROVE  contact' \in [Addresses -> [known : BOOLEAN, subscribed : BOOLEAN,
                                       confirmed : BOOLEAN]]
  BY DEF ImportUnsubscribes, AnnouncementsTypeOK

\* A draft has nothing queued and nobody at work.
LEMMA DraftIsQuiet ==
    ASSUME NewsInv, announcement # "sending"
    PROVE  /\ \A p \in Addresses : delivery[p].state # "queued"
           /\ \A w \in Senders : sender[w] = AtRest
  BY DEF NewsInv, AtWork, QueuedInTime

\* What an operator does keeps it all.
LEMMA OperatorInv ==
    ASSUME NewsInv,
           CreateBroadcast \/ CountAudience \/ QueueDeliveries \/ OperatorStops
    PROVE  NewsInv'
<1> USE DEF NewsInv, AnnouncementsTypeOK, AtWork, QueuedInTime, CountedForDraft
<1>1. CASE CreateBroadcast
  BY <1>1, DraftIsQuiet DEF CreateBroadcast
<1>2. CASE CountAudience
  <2>1. Cardinality(Audience) \in Nat
    <3>1. Audience \subseteq Addresses
      BY DEF Audience
    <3> QED BY <3>1, FS_Subset, FS_CardinalityType, AnnouncementsConstants
  <2> QED BY <1>2, <2>1 DEF CountAudience
<1>3. CASE OperatorStops
  BY <1>3 DEF OperatorStops, NotSending
<1>4. CASE QueueDeliveries
  <2>1. /\ contact' = contact /\ sender' = sender /\ mailed' = mailed
        /\ announcement' = "sending" /\ operator' = NotSending
        /\ announcement = "draft"
    BY <1>4 DEF QueueDeliveries
  <2>2. ASSUME NEW p \in Addresses
        PROVE  \/ delivery'[p] = [state |-> "queued", tries |-> 0]
               \/ delivery'[p] = delivery[p] /\ delivery'[p].state # "queued"
    BY <1>4, <2>1, DraftIsQuiet DEF QueueDeliveries, NoDelivery
  <2>3. delivery' = [p \in Addresses |-> delivery'[p]]
    BY <1>4 DEF QueueDeliveries
  <2>4. delivery' \in [Addresses -> [state : {"none", "queued", "sent", "skipped", "failed"},
                                     tries : 0 .. MaxTries]]
    BY <2>2, <2>3, AnnouncementsConstants
  <2>5. QueuedInTime'
    BY <2>1, <2>2, AnnouncementsConstants
  <2>6. AtWork' /\ CountedForDraft'
    BY <2>1, DraftIsQuiet
  <2> QED BY <2>1, <2>4, <2>5, <2>6 DEF NotSending
<1> QED BY <1>1, <1>2, <1>3, <1>4

LEMMA CancelInv ==
    ASSUME NewsInv, CancelBroadcast
    PROVE  NewsInv'
<1>1. /\ contact' = contact /\ sender' = sender /\ mailed' = mailed
      /\ operator' = operator /\ operator = NotSending /\ announcement' = "cancelled"
      /\ delivery' = [p \in Addresses |-> delivery'[p]]
  BY DEF CancelBroadcast
<1>2. \A w \in Senders : sender[w] = AtRest
  BY DEF CancelBroadcast, Held, NewsInv, AtWork
<1>3. ASSUME NEW p \in Addresses
      PROVE  /\ delivery'[p] \in [state : {"none", "queued", "sent", "skipped", "failed"},
                                  tries : 0 .. MaxTries]
             /\ delivery'[p].state # "queued"
  <2>1. delivery[p] \in [state : {"none", "queued", "sent", "skipped", "failed"},
                         tries : 0 .. MaxTries]
    BY DEF NewsInv, AnnouncementsTypeOK
  <2>2. delivery'[p] = IF delivery[p].state = "queued"
                       THEN [delivery[p] EXCEPT !.state = "skipped"] ELSE delivery[p]
    BY DEF CancelBroadcast
  <2> QED BY <2>1, <2>2
<1>4. AnnouncementsTypeOK'
  BY <1>1, <1>3 DEF NewsInv, AnnouncementsTypeOK
<1>5. AtWork' /\ QueuedInTime' /\ CountedForDraft'
  BY <1>1, <1>2, <1>3 DEF AtWork, QueuedInTime, CountedForDraft
<1> QED BY <1>4, <1>5 DEF NewsInv

\* Forgetting an address that no sender holds.
LEMMA ForgetInv ==
    ASSUME NewsInv, NEW p \in Addresses, ForgetNews(p)
    PROVE  NewsInv'
<1>1. /\ announcement' = announcement /\ sender' = sender /\ mailed' = mailed
      /\ operator' = operator
      /\ \A w \in Senders : sender[w].address # p
  BY DEF ForgetNews, Held
<1>2. /\ delivery' = [delivery EXCEPT ![p] = NoDelivery]
      /\ contact' = [contact EXCEPT ![p] = NoContact]
  BY DEF ForgetNews
<1>3. AnnouncementsTypeOK'
  BY <1>1, <1>2, AnnouncementsConstants
     DEF NewsInv, AnnouncementsTypeOK, NoDelivery, NoContact
<1>4. \A q \in Addresses : delivery'[q] = IF q = p THEN NoDelivery ELSE delivery[q]
  BY <1>2 DEF NewsInv, AnnouncementsTypeOK
<1>5. AtWork' /\ QueuedInTime' /\ CountedForDraft'
  BY <1>1, <1>4 DEF NewsInv, AtWork, QueuedInTime, CountedForDraft, NoDelivery
<1> QED BY <1>3, <1>5 DEF NewsInv

\* Taking a delivery, or skipping it.
LEMMA TakeInv ==
    ASSUME NewsInv, NEW w \in Senders, TakeDelivery(w)
    PROVE  NewsInv'
<1> USE DEF NewsInv, AnnouncementsTypeOK
<1>1. PICK p \in Addresses :
        /\ Waiting(p)
        /\ IF Wanted(p)
           THEN sender' = [sender EXCEPT ![w] = [pc |-> "sending", address |-> p]]
                /\ UNCHANGED delivery
           ELSE SetDelivery(p, [delivery[p] EXCEPT !.state = "skipped"]) /\ UNCHANGED sender
  BY DEF TakeDelivery
<1>2. /\ contact' = contact /\ announcement' = announcement /\ operator' = operator
      /\ mailed' = mailed
      /\ sender[w] = AtRest
      /\ announcement = "sending" /\ delivery[p].state = "queued"
      /\ \A v \in Senders : sender[v].address # p
  BY <1>1 DEF TakeDelivery, Waiting, Held
<1>3. CASE Wanted(p)
  <2>1. delivery' = delivery /\ sender' = [sender EXCEPT ![w] = [pc |-> "sending", address |-> p]]
    BY <1>1, <1>3
  <2>2. AnnouncementsTypeOK'
    BY <1>2, <2>1
  <2>3. \A v \in Senders : sender'[v] = IF v = w THEN [pc |-> "sending", address |-> p]
                                        ELSE sender[v]
    BY <2>1
  <2>4. AtWork'
    BY <1>2, <2>1, <2>3, AnnouncementsConstants DEF AtWork, AtRest
  <2>5. QueuedInTime' /\ CountedForDraft'
    BY <1>2, <2>1 DEF QueuedInTime, CountedForDraft
  <2> QED BY <2>2, <2>4, <2>5
<1>4. CASE ~Wanted(p)
  <2>1. sender' = sender /\ delivery' = [delivery EXCEPT ![p] = [delivery[p] EXCEPT !.state = "skipped"]]
    BY <1>1, <1>4 DEF SetDelivery
  <2>2. AnnouncementsTypeOK'
    BY <1>2, <2>1
  <2>3. \A q \in Addresses : /\ q # p => delivery'[q] = delivery[q]
                             /\ delivery'[p].state = "skipped"
    BY <2>1
  <2>4. AtWork' /\ QueuedInTime' /\ CountedForDraft'
    BY <1>2, <2>1, <2>3 DEF AtWork, QueuedInTime, CountedForDraft
  <2> QED BY <2>2, <2>4
<1> QED BY <1>3, <1>4

LEMMA DeliverInv ==
    ASSUME NewsInv, NEW w \in Senders, NEW taken \in BOOLEAN,
           NEW told \in {"accepted", "refused"}, DeliverEmail(w, taken, told)
    PROVE  NewsInv'
<1> USE DEF NewsInv, AnnouncementsTypeOK
<1>1. /\ contact' = contact /\ announcement' = announcement /\ operator' = operator
      /\ delivery' = delivery
      /\ sender[w].pc = "sending" /\ sender[w] # AtRest
      /\ sender' = [sender EXCEPT ![w].pc = told]
  BY DEF DeliverEmail, AtRest
<1>2. mailed' \in [Addresses -> Nat]
  <2>1. sender[w].address \in Addresses
    BY <1>1 DEF AtWork
  <2>2. mailed \in [Addresses -> Nat] /\ mailed[sender[w].address] \in Nat
    BY <2>1
  <2>3. PICK n \in Nat : mailed' = [mailed EXCEPT ![sender[w].address] = n]
    <3>1. CASE taken
      <4>1. mailed' = [mailed EXCEPT ![sender[w].address] = mailed[sender[w].address] + 1]
        BY <3>1 DEF DeliverEmail
      <4>2. mailed[sender[w].address] + 1 \in Nat
        BY <2>2
      <4> QED BY <4>1, <4>2, Zenon
    <3>2. CASE ~taken
      BY <2>2, <3>2 DEF DeliverEmail
    <3> QED BY <3>1, <3>2
  <2> HIDE DEF NewsInv, AnnouncementsTypeOK
  <2> QED BY <2>2, <2>3
<1>3. AnnouncementsTypeOK'
  BY <1>1, <1>2
<1>4. \A v \in Senders : /\ sender'[v].address = sender[v].address
                         /\ v # w => sender'[v] = sender[v]
                         /\ sender'[w].pc = told
  BY <1>1
<1>5. AtWork' /\ QueuedInTime' /\ CountedForDraft'
  BY <1>1, <1>4 DEF AtWork, QueuedInTime, CountedForDraft
<1> QED BY <1>3, <1>5

\* A sender that lets go of its row, having recorded something or not.
LEMMA LetGoInv ==
    ASSUME NewsInv, NEW w \in Senders, sender[w] # AtRest, LetGo(w),
           UNCHANGED <<contact, announcement, operator, mailed>>,
           NEW d \in [state : {"queued", "sent", "failed"}, tries : 0 .. MaxTries],
           d.state = "queued" => d.tries < MaxTries,
           delivery' = [delivery EXCEPT ![sender[w].address] = d]
    PROVE  NewsInv'
<1> USE DEF NewsInv, AnnouncementsTypeOK
<1> DEFINE p == sender[w].address
<1>1. p \in Addresses /\ announcement = "sending"
  BY DEF AtWork
<1>2. AnnouncementsTypeOK'
  BY <1>1 DEF LetGo, AtRest
<1>3. /\ \A q \in Addresses : q # p => delivery'[q] = delivery[q]
      /\ delivery'[p] = d
  BY <1>1
<1>4. \A v \in Senders : sender'[v] = IF v = w THEN AtRest ELSE sender[v]
  BY DEF LetGo
<1>5. \A v \in Senders : v # w => sender[v].address # p
  BY DEF AtWork
<1>6. AtWork'
  <2>1. \A v \in Senders : sender'[v] # AtRest => v # w /\ sender'[v] = sender[v]
    BY <1>4
  <2>2. AtRest.address = Noone
    BY DEF AtRest
  <2>3. \A v \in Senders : sender'[v] # AtRest =>
            \A u \in Senders : u # v => sender'[v].address # sender'[u].address
    BY <1>4, <2>1, <2>2, AnnouncementsConstants DEF AtWork
  <2> QED BY <1>3, <1>5, <2>1, <2>3 DEF AtWork
<1>7. QueuedInTime' /\ CountedForDraft'
  BY <1>1, <1>3 DEF QueuedInTime, CountedForDraft
<1> QED BY <1>2, <1>6, <1>7

\* Everything a sender does.
LEMMA SenderInv ==
    ASSUME NewsInv, NEW w \in Senders,
           Sender(w) \/ SenderStops(w) \/ DeliverEmail(w, TRUE, "refused")
    PROVE  NewsInv'
<1> DEFINE p == sender[w].address
<1> DEFINE Types == [state : {"none", "queued", "sent", "skipped", "failed"},
                     tries : 0 .. MaxTries]
<1>1. sender[w] # AtRest =>
        /\ p \in Addresses /\ delivery[p] \in Types
        /\ delivery[p].state = "queued" /\ delivery[p].tries < MaxTries
  BY DEF NewsInv, AnnouncementsTypeOK, AtWork, QueuedInTime
<1>2. CASE TakeDelivery(w)
  BY <1>2, TakeInv
<1>3. CASE \/ DeliverEmail(w, TRUE, "accepted") \/ DeliverEmail(w, FALSE, "refused")
           \/ DeliverEmail(w, TRUE, "refused")
  BY <1>3, DeliverInv
<1>4. CASE RecordSent(w)
  <2>1. sender[w] # AtRest
    BY <1>4 DEF RecordSent, AtRest
  <2>2. [state |-> "sent", tries |-> delivery[p].tries + 1] \in
            [state : {"queued", "sent", "failed"}, tries : 0 .. MaxTries]
    BY <1>1, <2>1, AnnouncementsConstants
  <2> QED BY <1>4, <2>1, <2>2, LetGoInv DEF RecordSent, SetDelivery
<1>5. CASE RecordRefused(w)
  <2>1. sender[w] # AtRest
    BY <1>5 DEF RecordRefused, AtRest
  <2> DEFINE d == [state |-> IF delivery[p].tries + 1 >= MaxTries THEN "failed" ELSE "queued",
                   tries |-> delivery[p].tries + 1]
  <2>2. /\ d \in [state : {"queued", "sent", "failed"}, tries : 0 .. MaxTries]
        /\ d.state = "queued" => d.tries < MaxTries
    BY <1>1, <2>1, AnnouncementsConstants
  <2>3. /\ delivery' = [delivery EXCEPT ![p] = d] /\ LetGo(w)
        /\ UNCHANGED <<contact, announcement, operator, mailed>>
    BY <1>5 DEF RecordRefused, SetDelivery
  <2> HIDE DEF d
  <2> QED BY <2>1, <2>2, <2>3, LetGoInv
<1>6. CASE SenderStops(w)
  <2>1. sender[w] # AtRest
    BY <1>6 DEF SenderStops
  <2>2. delivery[p] \in [state : {"queued", "sent", "failed"}, tries : 0 .. MaxTries]
    BY <1>1, <2>1
  <2>3. delivery' = [delivery EXCEPT ![p] = delivery[p]]
    BY <1>1, <1>6, <2>1 DEF SenderStops, NewsInv, AnnouncementsTypeOK
  <2> QED BY <1>1, <1>6, <2>1, <2>2, <2>3, LetGoInv DEF SenderStops
<1>7. CASE CloseBroadcast(w)
  <2>1. /\ contact' = contact /\ delivery' = delivery /\ sender' = sender
        /\ operator' = operator /\ mailed' = mailed /\ announcement' = "sent"
        /\ announcement = "sending"
        /\ \A q \in Addresses : delivery[q].state # "queued"
    BY <1>7 DEF CloseBroadcast, Finished
  <2> QED BY <2>1 DEF NewsInv, AnnouncementsTypeOK, AtWork, QueuedInTime, CountedForDraft
<1> QED BY <1>2, <1>3, <1>4, <1>5, <1>6, <1>7 DEF Sender

LEMMA NewsStepInv == NewsInv /\ [AnnouncementsNext]_newsVars => NewsInv'
<1> SUFFICES ASSUME NewsInv, [AnnouncementsNext]_newsVars PROVE NewsInv'
  OBVIOUS
<1>0. AnnouncementsTypeOK
  BY DEF NewsInv
<1>1. ASSUME NEW p \in Addresses, NEW subscribed \in BOOLEAN, NEW verified \in BOOLEAN,
             SetMyMarketing(p, subscribed, verified)
      PROVE  NewsInv'
  BY <1>0, <1>1, ChoiceInv, ChoiceTyped DEF SetMyMarketing
<1>2. ASSUME NEW p \in Addresses, NEW subscribed \in BOOLEAN, SetMarketingByToken(p, subscribed)
      PROVE  NewsInv'
  BY <1>0, <1>2, ChoiceInv, ChoiceTyped DEF SetMarketingByToken
<1>3. ASSUME NEW p \in Addresses, AddressConfirmed(p) PROVE NewsInv'
  BY <1>0, <1>3, ChoiceInv, ChoiceTyped DEF AddressConfirmed
<1>4. ASSUME NEW S \in SUBSET Addresses, ImportUnsubscribes(S) PROVE NewsInv'
  BY <1>0, <1>4, ChoiceInv, ImportTyped DEF ImportUnsubscribes
<1>5. CASE UNCHANGED newsVars
  BY <1>5 DEF newsVars, NewsInv, AnnouncementsTypeOK, AtWork, QueuedInTime, CountedForDraft
<1> QED BY <1>1, <1>2, <1>3, <1>4, <1>5, OperatorInv, CancelInv, ForgetInv, SenderInv
        DEF AnnouncementsNext

\* Once an announcement is over, none of its emails is queued and no sender is at
\* work: from what a sender at work and a queued email presuppose.
LEMMA OverFollows == NewsInv => OverIsOver
  BY DEF NewsInv, AtWork, QueuedInTime, OverIsOver

\* Offers by themselves keep to what the accepting party was shown (offerRespond): the
\* version in force tells whose amount it is and who may accept it.
THEOREM OffersAgreedAsShown == OffersSpec => []AgreedAsShown
<1>1. OffersInv => AgreedAsShown
  BY DEF OffersInv
<1> HIDE DEF OffersInv, AgreedAsShown, OffersNext, OffersInit
<1> QED BY <1>1, OffersInitInv, OffersStepInv, PTL DEF OffersSpec

\* An announcement that is sent or cancelled is never taken up again
\* (sendOneBroadcastEmail, opsCancelBroadcast), whatever happens to contacts.
THEOREM AnnouncementsOver == AnnouncementsSpec => []OverIsOver
<1> HIDE DEF NewsInv, OverIsOver, AnnouncementsNext, AnnouncementsInit
<1> QED BY NewsInitInv, NewsStepInv, OverFollows, PTL DEF AnnouncementsSpec

(***************************************************************************)
(* People: offers and announcements under sign-in and deletion.            *)
(***************************************************************************)

\* Accounts, sessions and requests have their types; a request acts for an account
\* from one of its addresses, or from a link for an address.
PeopleTyped ==
    /\ status \in [Accounts -> {"new", "active", "deleted"}]
    /\ identity \in [Addresses -> Accounts \cup {Nobody}]
    /\ session \in [Accounts -> SUBSET Kinds]
    /\ request \in [Requests -> [kind : Kinds \cup {"none", "link"},
            account : Accounts \cup {Nobody}, address : Addresses \cup {Noone}]]
    /\ \A r \in Requests :
        /\ request[r].kind # "none" => request[r].address \in Addresses
        /\ request[r].kind \in Kinds => request[r].account \in Accounts

\* An account has one address, and both sides agree on it; a deleted account has
\* none, and no session.
OneAccount ==
    /\ \A p \in Addresses : identity[p] # Nobody => status[identity[p]] = "active"
    /\ \A p, q \in Addresses : identity[p] # Nobody /\ identity[p] = identity[q] => p = q
    /\ \A r \in Requests :
        request[r].kind \in Kinds /\ status[request[r].account] # "deleted" =>
            identity[request[r].address] = request[r].account
    /\ \A a \in Accounts : status[a] = "deleted" => session[a] = {}

PeopleInv == PeopleTyped /\ OneAccount

LEMMA PeopleInitInv == Init => PeopleInv
  BY AccountsConstants DEF Init, PeopleInv, PeopleTyped, OneAccount, NoRequest, Kinds

\* A request that ends, and one that is authenticated.
LEMMA CarryInv ==
    ASSUME PeopleInv, NEW r \in Requests, Carry(r), UNCHANGED <<status, identity, session>>
    PROVE  PeopleInv'
<1>1. \A q \in Requests : request'[q] = IF q = r THEN NoRequest ELSE request[q]
  BY DEF Carry, PeopleInv, PeopleTyped
<1>2. request' = [q \in Requests |-> request'[q]]
  BY DEF Carry, PeopleInv, PeopleTyped
<1>3. PeopleTyped'
  BY <1>1, <1>2 DEF PeopleInv, PeopleTyped, NoRequest, Kinds
<1>4. OneAccount'
  BY <1>1 DEF PeopleInv, PeopleTyped, OneAccount, NoRequest, Kinds
<1> QED BY <1>3, <1>4 DEF PeopleInv

LEMMA EnterInv ==
    ASSUME PeopleInv, NEW r \in Requests, NEW p \in Addresses, NEW a \in Accounts \cup {Nobody},
           NEW kind \in Kinds \cup {"link"}, kind \in Kinds => a \in Accounts /\ identity[p] = a,
           request' = [request EXCEPT ![r] = [kind |-> kind, account |-> a, address |-> p]],
           UNCHANGED <<status, identity, session>>
    PROVE  PeopleInv'
<1>1. \A q \in Requests : request'[q] = IF q = r THEN [kind |-> kind, account |-> a, address |-> p]
                                        ELSE request[q]
  BY DEF PeopleInv, PeopleTyped
<1>2. request' = [q \in Requests |-> request'[q]]
  BY DEF PeopleInv, PeopleTyped
<1>3. PeopleTyped'
  BY <1>1, <1>2 DEF PeopleInv, PeopleTyped, Kinds
<1>4. OneAccount'
  BY <1>1 DEF PeopleInv, PeopleTyped, OneAccount, Kinds
<1> QED BY <1>3, <1>4 DEF PeopleInv

\* An account found or made for an address gets a session.
LEMMA SignedInInv ==
    ASSUME PeopleInv, NEW p \in Addresses, NEW a \in Accounts, AccountOf(p, a), NowActive(p, a),
           session' \in [Accounts -> SUBSET Kinds],
           \A b \in Accounts : b # a => session'[b] = session[b],
           request' = request
    PROVE  PeopleInv'
<1>1. /\ \A b \in Accounts : status'[b] = IF b = a /\ status[a] = "new" THEN "active"
                                          ELSE status[b]
      /\ \A q \in Addresses : identity'[q] = IF q = p THEN a ELSE identity[q]
  BY DEF NowActive, PeopleInv, PeopleTyped
<1>2. /\ status' \in [Accounts -> {"new", "active", "deleted"}]
      /\ identity' \in [Addresses -> Accounts \cup {Nobody}]
  BY DEF NowActive, PeopleInv, PeopleTyped
<1>3. /\ a # Nobody
      /\ identity[p] = Nobody => status[a] = "new" /\ \A q \in Addresses : identity[q] # a
      /\ identity[p] # Nobody => identity[p] = a /\ status[a] = "active"
  BY AccountsConstants DEF AccountOf, Unused, PeopleInv, PeopleTyped, OneAccount
<1>4. PeopleTyped'
  BY <1>2 DEF PeopleInv, PeopleTyped
<1>5. OneAccount'
  <2>1. \A q \in Addresses : identity'[q] # Nobody => status'[identity'[q]] = "active"
    BY <1>1, <1>3 DEF PeopleInv, PeopleTyped, OneAccount
  <2>2. \A q, s \in Addresses : identity'[q] # Nobody /\ identity'[q] = identity'[s] => q = s
    BY <1>1, <1>3 DEF PeopleInv, PeopleTyped, OneAccount
  <2>3. ASSUME NEW r \in Requests, request[r].kind \in Kinds,
               status'[request[r].account] # "deleted"
        PROVE  identity'[request[r].address] = request[r].account
    <3> DEFINE b == request[r].account
               q == request[r].address
    <3>1. b \in Accounts /\ q \in Addresses
      BY <2>3 DEF PeopleInv, PeopleTyped, Kinds
    <3>2. status[b] # "deleted"
      BY <1>1, <2>3, <3>1 DEF PeopleInv, PeopleTyped
    <3>3. identity[q] = b /\ b # Nobody
      BY <2>3, <3>1, <3>2, AccountsConstants DEF PeopleInv, OneAccount
    <3> QED BY <1>1, <1>3, <3>1, <3>3
  <2>4. \A b \in Accounts : status'[b] = "deleted" => session'[b] = {}
    BY <1>1, <1>3 DEF PeopleInv, PeopleTyped, OneAccount
  <2> QED BY <2>1, <2>2, <2>3, <2>4 DEF OneAccount
<1> QED BY <1>4, <1>5 DEF PeopleInv

LEMMA SignInInv ==
    ASSUME PeopleInv, NEW p \in Addresses, SignIn(p)
    PROVE  PeopleInv'
<1> DEFINE Kept == UNCHANGED <<status, identity, session, request>>
<1>0. Kept => PeopleInv'
  BY DEF PeopleInv, PeopleTyped, OneAccount
<1>1. ASSUME NEW i \in 1 .. MaxCodes, VerifyChallenge(p, i) PROVE PeopleInv'
  <2>1. PICK a \in Accounts :
            /\ AccountOf(p, a)
            /\ NowActive(p, a)
            /\ \/ OpenSession(a, code[p][i].purpose)
               \/ KeepSession(a, code[p][i].purpose)
    BY <1>1 DEF VerifyChallenge
  <2>2. request' = request
    BY <1>1 DEF VerifyChallenge
  <2>3. /\ session' \in [Accounts -> SUBSET Kinds]
        /\ \A b \in Accounts : b # a => session'[b] = session[b]
    <3>1. CASE KeepSession(a, code[p][i].purpose)
      BY <3>1 DEF KeepSession, PeopleInv, PeopleTyped
    <3>2. CASE OpenSession(a, code[p][i].purpose)
      <4> DEFINE opened == IF code[p][i].purpose = "login" THEN "full" ELSE "guest"
      <4>1. session' = [session EXCEPT ![a] = @ \cup {opened}] /\ opened \in Kinds
        BY <3>2 DEF OpenSession, Kinds
      <4> HIDE DEF opened
      <4> QED BY <4>1 DEF PeopleInv, PeopleTyped
    <3> QED BY <2>1, <3>1, <3>2
  <2> QED BY <2>1, <2>2, <2>3, SignedInInv
<1>2. ASSUME StartGuestBooking(p) PROVE PeopleInv'
  <2>1. PICK a \in Accounts :
            /\ AccountOf(p, a)
            /\ NowActive(p, a)
            /\ session' = [session EXCEPT ![a] = @ \cup {"quick"}]
    BY <1>2 DEF StartGuestBooking
  <2>2. request' = request
    BY <1>2 DEF StartGuestBooking
  <2>3. /\ session' \in [Accounts -> SUBSET Kinds]
        /\ \A b \in Accounts : b # a => session'[b] = session[b]
    BY <2>1 DEF PeopleInv, PeopleTyped, Kinds
  <2> QED BY <2>1, <2>2, <2>3, SignedInInv
<1>3. ASSUME NEW i \in 1 .. MaxCodes, NEW purpose \in Purposes, CreateChallenge(p, i, purpose)
      PROVE  Kept
  BY <1>3 DEF CreateChallenge
<1>4. ASSUME NEW i \in 1 .. MaxCodes, CodeLapses(p, i) \/ WrongCode(p, i)
      PROVE  Kept
  BY <1>4 DEF CodeLapses, WrongCode
<1> HIDE DEF Kept
<1> QED BY <1>0, <1>1, <1>2, <1>3, <1>4 DEF SignIn

LEMMA SessionEndsInv ==
    ASSUME PeopleInv, NEW a \in Accounts, NEW kind \in Kinds, SessionEnds(a, kind)
    PROVE  PeopleInv'
<1>1. /\ status' = status /\ identity' = identity /\ request' = request
      /\ session' = [session EXCEPT ![a] = @ \ {kind}]
  BY DEF SessionEnds
<1>2. PeopleTyped'
  BY <1>1 DEF PeopleInv, PeopleTyped
<1>3. OneAccount'
  BY <1>1 DEF PeopleInv, PeopleTyped, OneAccount
<1> QED BY <1>2, <1>3 DEF PeopleInv

\* The address of a request belongs to its account until it is deleted; no other
\* address does.
LEMMA DeleteInv ==
    ASSUME PeopleInv, NEW r \in Requests, DeleteAccount(r)
    PROVE  PeopleInv'
<1> DEFINE a == request[r].account
           p == request[r].address
<1>1. /\ request[r].kind = "full" /\ status[a] = "active"
      /\ identity' = [identity EXCEPT ![p] = Nobody]
      /\ status' = [status EXCEPT ![a] = "deleted"]
      /\ session' = [session EXCEPT ![a] = {}]
      /\ request' = [request EXCEPT ![r] = NoRequest]
  BY DEF DeleteAccount, Carry
<1>2. a \in Accounts /\ p \in Addresses /\ identity[p] = a /\ a # Nobody
  BY <1>1, AccountsConstants DEF PeopleInv, PeopleTyped, OneAccount, Kinds
<1> HIDE DEF a, p
<1>3. PeopleTyped'
  BY <1>1, <1>2 DEF PeopleInv, PeopleTyped, NoRequest, Kinds
<1>4. /\ \A b \in Accounts : status'[b] = IF b = a THEN "deleted" ELSE status[b]
      /\ \A b \in Accounts : session'[b] = IF b = a THEN {} ELSE session[b]
      /\ \A q \in Addresses : identity'[q] = IF q = p THEN Nobody ELSE identity[q]
      /\ \A q \in Requests : request'[q] = IF q = r THEN NoRequest ELSE request[q]
  BY <1>1, <1>2 DEF PeopleInv, PeopleTyped
<1>5. OneAccount'
  <2>1. \A q \in Addresses : identity'[q] # Nobody => status'[identity'[q]] = "active"
    BY <1>2, <1>4 DEF PeopleInv, PeopleTyped, OneAccount
  <2>2. \A q, s \in Addresses : identity'[q] # Nobody /\ identity'[q] = identity'[s] => q = s
    BY <1>2, <1>4 DEF PeopleInv, PeopleTyped, OneAccount
  <2>3. ASSUME NEW q \in Requests, request'[q].kind \in Kinds,
               status'[request'[q].account] # "deleted"
        PROVE  identity'[request'[q].address] = request'[q].account
    <3>1. q # r
      BY <1>4, <2>3 DEF NoRequest, Kinds
    <3>2. request'[q] = request[q] /\ request[q].account \in Accounts
          /\ request[q].address \in Addresses
      BY <1>4, <2>3, <3>1 DEF PeopleInv, PeopleTyped, Kinds
    <3>3. request[q].account # a /\ status[request[q].account] # "deleted"
      BY <1>4, <2>3, <3>2
    <3>4. identity[request[q].address] = request[q].account
      BY <2>3, <3>2, <3>3 DEF PeopleInv, OneAccount
    <3> QED BY <1>2, <1>4, <3>2, <3>3, <3>4
  <2>4. \A b \in Accounts : status'[b] = "deleted" => session'[b] = {}
    BY <1>4 DEF PeopleInv, OneAccount
  <2> QED BY <2>1, <2>2, <2>3, <2>4 DEF OneAccount
<1> QED BY <1>3, <1>5 DEF PeopleInv

\* Whatever else is carried out leaves people and their sessions as they are.
LEMMA CarriedInv ==
    ASSUME PeopleInv, NEW r \in Requests, Carried(r)
    PROVE  PeopleInv'
<1> DEFINE Ended == Carry(r) /\ UNCHANGED <<status, identity, session>>
<1>1. ASSUME NEW o \in OfferIds, BuyerOffers(r, o) \/ ReadOffer(r, o) \/ AnswerOffer(r, o)
      PROVE  Ended
  BY <1>1 DEF BuyerOffers, ReadOffer, AnswerOffer
<1>2. ASSUME NEW subscribed \in BOOLEAN, ChooseNews(r, subscribed)
      PROVE  Ended
  BY <1>2 DEF ChooseNews
<1>3. ASSUME OpenCheckout(r) \/ RequestFails(r)
      PROVE  Ended
  BY <1>3 DEF OpenCheckout, RequestFails
<1>4. Ended => PeopleInv'
  BY CarryInv
<1> HIDE DEF Ended
<1> QED BY <1>1, <1>2, <1>3, <1>4, DeleteInv DEF Carried

LEMMA PeopleStepInv == PeopleInv /\ [Next]_vars => PeopleInv'
<1> SUFFICES ASSUME PeopleInv, [Next]_vars PROVE PeopleInv'
  OBVIOUS
<1> DEFINE Kept == UNCHANGED <<status, identity, session, request>>
<1>0. Kept => PeopleInv'
  BY DEF PeopleInv, PeopleTyped, OneAccount
<1>1. ASSUME NEW r \in Requests, NEW a \in Accounts, NEW p \in Addresses, NEW kind \in Kinds,
             Enter(r, a, p, kind)
      PROVE  PeopleInv'
  BY <1>1, EnterInv DEF Enter, Authenticated
<1>2. ASSUME NEW r \in Requests, NEW p \in Addresses, OpenLink(r, p) PROVE PeopleInv'
  BY <1>2, EnterInv DEF OpenLink, Kinds
<1>3. ASSUME NEW a \in Accounts, Charged(a) \/ BookingOver(a) PROVE Kept
  BY <1>3 DEF Charged, BookingOver
<1>4. ASSUME NEW a \in Accounts, NEW p \in Addresses, ChargeBooked(a, p) PROVE Kept
  BY <1>4 DEF ChargeBooked
<1>5. ASSUME OfferTime \/ Operator \/ Sending PROVE Kept
  BY <1>5 DEF OfferTime, Operator, Sending, people
<1>6. ASSUME NEW S \in SUBSET Addresses, Import(S) PROVE Kept
  BY <1>6 DEF Import, people
<1>7. ASSUME NEW w \in Senders, SendingFails(w) PROVE Kept
  BY <1>7 DEF SendingFails, people
<1>8. CASE UNCHANGED vars
  BY <1>0, <1>8 DEF vars, people
<1> HIDE DEF Kept
<1> QED BY <1>0, <1>1, <1>2, <1>3, <1>4, <1>5, <1>6, <1>7, <1>8, SignInInv, SessionEndsInv,
           CarriedInv DEF Next

\* What people do to offers is what may happen to offers, or nothing.
LEMMA OffersStep == PeopleInv /\ [Next]_vars => [OffersNext]_offersVars
<1> SUFFICES ASSUME PeopleInv, [Next]_vars PROVE [OffersNext]_offersVars
  OBVIOUS
<1> DEFINE Kept == UNCHANGED offersVars
<1>1. ASSUME NEW p \in Addresses, SignIn(p) PROVE Kept
  <2>1. ASSUME NEW i \in 1 .. MaxCodes,
               \/ \E purpose \in Purposes : CreateChallenge(p, i, purpose)
               \/ CodeLapses(p, i) \/ WrongCode(p, i) \/ VerifyChallenge(p, i)
        PROVE  Kept
    BY <2>1 DEF CreateChallenge, CodeLapses, WrongCode, VerifyChallenge
  <2>2. ASSUME StartGuestBooking(p) PROVE Kept
    BY <2>2 DEF StartGuestBooking
  <2> HIDE DEF Kept
  <2> QED BY <1>1, <2>1, <2>2 DEF SignIn
<1>2. ASSUME NEW a \in Accounts, NEW kind \in Kinds, SessionEnds(a, kind) PROVE Kept
  BY <1>2 DEF SessionEnds
<1>3. ASSUME NEW r \in Requests, NEW a \in Accounts, NEW p \in Addresses, NEW kind \in Kinds,
             Enter(r, a, p, kind)
      PROVE  Kept
  BY <1>3 DEF Enter
<1>6. ASSUME NEW r \in Requests, NEW p \in Addresses, OpenLink(r, p) PROVE Kept
  BY <1>6 DEF OpenLink
<1>4. ASSUME NEW r \in Requests, Carried(r) PROVE OffersNext \/ Kept
  <2>1. ASSUME NEW o \in OfferIds, BuyerOffers(r, o) PROVE OffersNext
    BY <2>1 DEF BuyerOffers, OffersNext
  <2>2. ASSUME NEW o \in OfferIds, ReadOffer(r, o) PROVE OffersNext
    BY <2>2 DEF ReadOffer, OffersNext, PartyIn, Parties
  <2>3. ASSUME NEW o \in OfferIds, AnswerOffer(r, o) PROVE OffersNext
    BY <2>3 DEF AnswerOffer, OffersNext, PartyIn, Parties
  <2>4. ASSUME DeleteAccount(r) PROVE OffersNext
    <3>1. OffersWith(request[r].account) \in SUBSET OfferIds
          /\ OffersOf(request[r].account) \in SUBSET OfferIds
      BY DEF OffersWith, OffersOf
    <3> QED BY <2>4, <3>1 DEF DeleteAccount, OffersNext
  <2>5. ASSUME NEW subscribed \in BOOLEAN, ChooseNews(r, subscribed) PROVE Kept
    BY <2>5 DEF ChooseNews
  <2>6. ASSUME OpenCheckout(r) \/ RequestFails(r) PROVE Kept
    BY <2>6 DEF OpenCheckout, RequestFails
  <2> HIDE DEF Kept
  <2> QED BY <1>4, <2>1, <2>2, <2>3, <2>4, <2>5, <2>6 DEF Carried
<1>5. ASSUME NEW a \in Accounts, Charged(a) \/ BookingOver(a) PROVE Kept
  BY <1>5 DEF Charged, BookingOver
<1>13. ASSUME NEW a \in Accounts, NEW p \in Addresses, ChargeBooked(a, p) PROVE Kept
  BY <1>13 DEF ChargeBooked
<1>7. ASSUME OfferTime PROVE OffersNext
  BY <1>7 DEF OfferTime, OffersNext
<1>8. ASSUME Operator \/ Sending PROVE Kept
  BY <1>8 DEF Operator, Sending
<1>9. ASSUME NEW S \in SUBSET Addresses, Import(S) PROVE Kept
  BY <1>9 DEF Import
<1>10. ASSUME NEW w \in Senders, SendingFails(w) PROVE Kept
  BY <1>10 DEF SendingFails
<1>11. CASE UNCHANGED vars
  BY <1>11 DEF vars
<1>12. ASSUME Next PROVE OffersNext \/ Kept
  <2> HIDE DEF Kept
  <2> QED BY <1>1, <1>2, <1>3, <1>4, <1>5, <1>6, <1>7, <1>8, <1>9, <1>10, <1>12, <1>13 DEF Next
<1> QED BY <1>11, <1>12

\* What people do to announcements is what may happen to announcements, or nothing.
LEMMA NewsStep == PeopleInv /\ [Next]_vars => [AnnouncementsNext]_newsVars
<1> SUFFICES ASSUME PeopleInv, [Next]_vars PROVE [AnnouncementsNext]_newsVars
  OBVIOUS
<1> DEFINE Kept == UNCHANGED newsVars
<1>1. ASSUME NEW p \in Addresses, SignIn(p) PROVE AnnouncementsNext \/ Kept
  <2>1. ASSUME NEW i \in 1 .. MaxCodes,
               \/ \E purpose \in Purposes : CreateChallenge(p, i, purpose)
               \/ CodeLapses(p, i) \/ WrongCode(p, i)
        PROVE  Kept
    BY <2>1 DEF CreateChallenge, CodeLapses, WrongCode
  <2>2. ASSUME NEW i \in 1 .. MaxCodes, VerifyChallenge(p, i) PROVE AnnouncementsNext
    BY <2>2 DEF VerifyChallenge, AnnouncementsNext
  <2>3. ASSUME StartGuestBooking(p) PROVE Kept
    BY <2>3 DEF StartGuestBooking
  <2> HIDE DEF Kept
  <2> QED BY <1>1, <2>1, <2>2, <2>3 DEF SignIn
<1>2. ASSUME NEW a \in Accounts, NEW kind \in Kinds, SessionEnds(a, kind) PROVE Kept
  BY <1>2 DEF SessionEnds
<1>3. ASSUME NEW r \in Requests, NEW a \in Accounts, NEW p \in Addresses, NEW kind \in Kinds,
             Enter(r, a, p, kind)
      PROVE  Kept
  BY <1>3 DEF Enter
<1>4. ASSUME NEW r \in Requests, NEW p \in Addresses, OpenLink(r, p) PROVE Kept
  BY <1>4 DEF OpenLink
<1>5. ASSUME NEW r \in Requests, Carried(r) PROVE AnnouncementsNext \/ Kept
  <2> DEFINE p == request[r].address
             verified == identity[p] = request[r].account /\ p \in proven
  <2>1. ASSUME NEW o \in OfferIds, BuyerOffers(r, o) \/ ReadOffer(r, o) \/ AnswerOffer(r, o)
        PROVE  Kept
    BY <2>1 DEF BuyerOffers, ReadOffer, AnswerOffer
  <2>2. ASSUME NEW subscribed \in BOOLEAN, ChooseNews(r, subscribed) PROVE AnnouncementsNext
    <3>1. p \in Addresses
      BY <2>2 DEF ChooseNews, PeopleInv, PeopleTyped, Kinds
    <3>2. SetMyMarketing(p, subscribed, verified) \/ SetMarketingByToken(p, subscribed)
      BY <2>2 DEF ChooseNews
    <3>3. verified \in BOOLEAN
      OBVIOUS
    <3> HIDE DEF p, verified
    <3> QED BY <3>1, <3>2, <3>3, Zenon DEF AnnouncementsNext
  <2>3. ASSUME DeleteAccount(r) PROVE AnnouncementsNext
    <3>1. p \in Addresses /\ ForgetNews(p)
      BY <2>3 DEF DeleteAccount, PeopleInv, PeopleTyped
    <3> HIDE DEF p
    <3> QED BY <3>1 DEF AnnouncementsNext
  <2>4. ASSUME OpenCheckout(r) \/ RequestFails(r) PROVE Kept
    BY <2>4 DEF OpenCheckout, RequestFails
  <2> HIDE DEF Kept
  <2> QED BY <1>5, <2>1, <2>2, <2>3, <2>4 DEF Carried
<1>6. ASSUME NEW a \in Accounts, Charged(a) \/ BookingOver(a) PROVE Kept
  BY <1>6 DEF Charged, BookingOver
<1>7. ASSUME NEW a \in Accounts, NEW p \in Addresses, ChargeBooked(a, p)
      PROVE  AnnouncementsNext
  BY <1>7 DEF ChargeBooked, AnnouncementsNext
<1>8. ASSUME OfferTime PROVE Kept
  BY <1>8 DEF OfferTime
<1>9. ASSUME Operator PROVE AnnouncementsNext
  BY <1>9 DEF Operator, AnnouncementsNext
<1>10. ASSUME NEW S \in SUBSET Addresses, Import(S) PROVE AnnouncementsNext
  BY <1>10 DEF Import, AnnouncementsNext
<1>11. ASSUME Sending \/ \E w \in Senders : SendingFails(w) PROVE AnnouncementsNext
  BY <1>11 DEF Sending, SendingFails, AnnouncementsNext
<1>12. CASE UNCHANGED vars
  BY <1>12 DEF vars
<1>13. ASSUME Next PROVE AnnouncementsNext \/ Kept
  <2> HIDE DEF Kept
  <2> QED BY <1>1, <1>2, <1>3, <1>4, <1>5, <1>6, <1>7, <1>8, <1>9, <1>10, <1>11, <1>13 DEF Next
<1> QED BY <1>12, <1>13

LEMMA PeopleAlways == Spec => []PeopleInv
<1> HIDE DEF Init, Next, vars, PeopleInv
<1> QED BY PeopleInitInv, PeopleStepInv, PTL DEF Spec

\* Signing in, carrying out requests and deleting accounts (offerRespond's callers,
\* deleteAccount) do nothing to offers that Offers does not describe.
THEOREM ImplementsOffers == Spec => OffersSpec
<1>1. Init => OffersInit
  BY DEF Init
<1> HIDE DEF Init, Next, vars, PeopleInv, OffersInit, OffersNext, offersVars
<1> QED BY <1>1, PeopleAlways, OffersStep, PTL DEF Spec, OffersSpec

\* Nor to announcements: a request always has an address, so that each choice and each
\* deletion is a step of Announcements (recordMarketingChoice, deleteAccount).
THEOREM ImplementsAnnouncements == Spec => AnnouncementsSpec
<1>1. Init => AnnouncementsInit
  BY DEF Init
<1> HIDE DEF Init, Next, vars, PeopleInv, AnnouncementsInit, AnnouncementsNext, newsVars
<1> QED BY <1>1, PeopleAlways, NewsStep, PTL DEF Spec, AnnouncementsSpec

\* So an agreement is on what was shown, with sessions and deletions too.
THEOREM SafeAgreedAsShown == Spec => []AgreedAsShown
BY ImplementsOffers, OffersAgreedAsShown, PTL

\* And an announcement that is over stays over, with deletions between its emails too.
THEOREM SafeOverIsOver == Spec => []OverIsOver
BY ImplementsAnnouncements, AnnouncementsOver, PTL

(***************************************************************************)
(* One email each.                                                         *)
(***************************************************************************)

\* An email still to be sent, or sent by a sender that has not been told so.
Outstanding(p) ==
    /\ delivery[p].state = "queued"
    /\ \A w \in Senders : ~(sender[w].pc = "accepted" /\ sender[w].address = p)

\* An outstanding email was mailed only by failures.
MailedByFaults ==
    /\ faults \in Nat
    /\ \A p \in Addresses :
        /\ mailed[p] <= 1 + faults
        /\ announcement \in {"none", "draft"} => mailed[p] = 0
        /\ Outstanding(p) => mailed[p] <= faults

LEMMA MailedInit == Init => MailedByFaults
  BY DEF Init, AnnouncementsInit, MailedByFaults, NoDelivery, Outstanding

\* A step that mails nothing, and puts back only what a failure leaves.
LEMMA NothingMailed ==
    ASSUME NewsInv, MailedByFaults, mailed' = mailed, faults' \in {faults, faults + 1},
           announcement' \in {"none", "draft"} => announcement \in {"none", "draft"},
           \A p \in Addresses : Outstanding(p)' =>
                Outstanding(p) \/ announcement = "draft" \/ faults' = faults + 1
    PROVE  MailedByFaults'
<1>1. faults' \in Nat /\ faults' >= faults /\ \A p \in Addresses : mailed[p] \in Nat
  BY DEF NewsInv, AnnouncementsTypeOK, MailedByFaults
<1> HIDE DEF Outstanding
<1> QED BY <1>1 DEF MailedByFaults

LEMMA SenderMails ==
    ASSUME NewsInv, MailedByFaults, NEW w \in Senders, Sender(w), faults' = faults
    PROVE  MailedByFaults'
<1> DEFINE p == sender[w].address
<1>0. /\ faults \in Nat /\ mailed \in [Addresses -> Nat]
      /\ \A q \in Addresses : delivery[q] \in
            [state : {"none", "queued", "sent", "skipped", "failed"}, tries : 0 .. MaxTries]
      /\ sender = [v \in Senders |-> sender[v]] /\ delivery = [q \in Addresses |-> delivery[q]]
      /\ sender[w] # AtRest => p \in Addresses
      /\ \A v \in Senders : v # w /\ sender[v] # AtRest => sender[v].address # p
  BY DEF NewsInv, AnnouncementsTypeOK, AtWork, MailedByFaults
<1>1. CASE TakeDelivery(w)
  <2>1. PICK q \in Addresses : Waiting(q) /\
            (IF Wanted(q)
             THEN sender' = [sender EXCEPT ![w] = [pc |-> "sending", address |-> q]]
                  /\ UNCHANGED delivery
             ELSE SetDelivery(q, [delivery[q] EXCEPT !.state = "skipped"]) /\ UNCHANGED sender)
    BY <1>1 DEF TakeDelivery
  <2>2. /\ sender[w] = AtRest /\ announcement' = announcement /\ mailed' = mailed
    BY <1>1 DEF TakeDelivery
  <2>3. \A s \in Addresses : Outstanding(s)' => Outstanding(s)
    BY <1>0, <2>1, <2>2 DEF Outstanding, SetDelivery, AtRest
  <2> QED BY <2>2, <2>3, NothingMailed
<1>2. CASE DeliverEmail(w, TRUE, "accepted")
  <2>1. /\ sender[w].pc = "sending" /\ announcement' = announcement /\ delivery' = delivery
        /\ mailed' = [mailed EXCEPT ![p] = @ + 1]
        /\ sender' = [sender EXCEPT ![w].pc = "accepted"]
    BY <1>2 DEF DeliverEmail
  <2>2. p \in Addresses /\ announcement = "sending" /\ delivery[p].state = "queued"
    BY <2>1 DEF NewsInv, AtWork, AtRest
  <2>3. Outstanding(p)
    BY <1>0, <2>1, <2>2 DEF Outstanding, AtRest
  <2>4. \A s \in Addresses : s = p => ~Outstanding(s)'
    <3>1. sender'[w].pc = "accepted" /\ sender'[w].address = p
      BY <2>1 DEF NewsInv, AnnouncementsTypeOK
    <3> QED BY <3>1 DEF Outstanding
  <2>5. \A s \in Addresses : s # p /\ Outstanding(s)' => Outstanding(s)
    <3>1. \A v \in Senders : v # w => sender'[v] = sender[v]
      BY <2>1 DEF NewsInv, AnnouncementsTypeOK
    <3> QED BY <2>1, <3>1 DEF Outstanding
  <2>6. \A s \in Addresses : mailed'[s] = IF s = p THEN mailed[s] + 1 ELSE mailed[s]
    BY <1>0, <2>1
  <2>7. ASSUME NEW s \in Addresses
        PROVE  mailed'[s] <= 1 + faults /\ (Outstanding(s)' => mailed'[s] <= faults)
    <3> HIDE DEF Outstanding, p
    <3>1. mailed[s] \in Nat /\ faults \in Nat
      BY <1>0
    <3>2. CASE s = p
      BY <2>3, <2>4, <2>6, <3>1, <3>2 DEF MailedByFaults
    <3>3. CASE s # p
      BY <2>5, <2>6, <3>1, <3>3 DEF MailedByFaults
    <3> QED BY <3>2, <3>3
  <2> HIDE DEF Outstanding, p
  <2> QED BY <1>0, <2>1, <2>2, <2>7 DEF MailedByFaults
<1>3. CASE DeliverEmail(w, FALSE, "refused")
  <2>1. /\ sender[w].pc = "sending" /\ announcement' = announcement /\ delivery' = delivery
        /\ mailed' = [mailed EXCEPT ![p] = @]
        /\ sender' = [sender EXCEPT ![w].pc = "refused"]
    BY <1>3 DEF DeliverEmail
  <2>2. mailed' = mailed
    BY <1>0, <2>1
  <2>3. \A s \in Addresses : Outstanding(s)' => Outstanding(s)
    BY <2>1 DEF Outstanding, NewsInv, AnnouncementsTypeOK
  <2> QED BY <2>1, <2>2, <2>3, NothingMailed
<1>4. CASE RecordSent(w)
  <2>1. /\ announcement' = announcement /\ mailed' = mailed /\ sender[w].pc = "accepted"
        /\ delivery' = [delivery EXCEPT ![p] = [state |-> "sent", tries |-> delivery[p].tries + 1]]
        /\ sender' = [sender EXCEPT ![w] = AtRest]
    BY <1>4 DEF RecordSent, SetDelivery, LetGo
  <2>2. \A s \in Addresses : Outstanding(s)' => Outstanding(s)
    BY <1>0, <2>1 DEF Outstanding, AtRest
  <2> QED BY <2>1, <2>2, NothingMailed
<1>5. CASE RecordRefused(w)
  <2>1. /\ announcement' = announcement /\ mailed' = mailed /\ sender[w].pc = "refused"
        /\ \A s \in Addresses : s # p => delivery'[s] = delivery[s]
        /\ sender' = [sender EXCEPT ![w] = AtRest]
    BY <1>0, <1>5 DEF RecordRefused, SetDelivery, LetGo
  <2>2. p \in Addresses => delivery[p].state = "queued"
    BY <2>1 DEF NewsInv, AtWork, AtRest
  <2>3. \A s \in Addresses : Outstanding(s)' => Outstanding(s)
    BY <1>0, <2>1, <2>2 DEF Outstanding, AtRest
  <2> QED BY <2>1, <2>3, NothingMailed
<1>6. CASE CloseBroadcast(w)
  <2>1. /\ announcement' = "sent" /\ UNCHANGED <<delivery, sender, mailed>>
    BY <1>6 DEF CloseBroadcast
  <2>2. \A s \in Addresses : Outstanding(s)' => Outstanding(s)
    BY <2>1 DEF Outstanding
  <2> QED BY <2>1, <2>2, NothingMailed
<1> QED BY <1>1, <1>2, <1>3, <1>4, <1>5, <1>6 DEF Sender

LEMMA FailureMails ==
    ASSUME NewsInv, MailedByFaults, NEW w \in Senders, SendingFails(w)
    PROVE  MailedByFaults'
<1>0. faults' = faults + 1 /\ faults \in Nat /\ mailed \in [Addresses -> Nat]
  BY DEF SendingFails, Fault, MailedByFaults, NewsInv, AnnouncementsTypeOK
<1>1. CASE SenderStops(w)
  <2>1. mailed' = mailed /\ announcement' = announcement
    BY <1>1 DEF SenderStops
  <2> QED BY <1>0, <2>1, NothingMailed
<1>2. CASE DeliverEmail(w, TRUE, "refused")
  <2> DEFINE p == sender[w].address
  <2>1. /\ sender[w].pc = "sending" /\ announcement' = announcement /\ delivery' = delivery
        /\ mailed' = [mailed EXCEPT ![p] = @ + 1]
        /\ sender' = [sender EXCEPT ![w].pc = "refused"]
    BY <1>2 DEF DeliverEmail
  <2>2. p \in Addresses /\ announcement = "sending" /\ delivery[p].state = "queued"
        /\ \A v \in Senders : v # w /\ sender[v] # AtRest => sender[v].address # p
    BY <2>1 DEF NewsInv, AtWork, AtRest
  <2>3. Outstanding(p)
    BY <2>1, <2>2 DEF Outstanding, AtRest
  <2>4. ASSUME NEW s \in Addresses PROVE mailed'[s] <= faults + 1
    <3>1. mailed[s] \in Nat /\ mailed'[s] = IF s = p THEN mailed[s] + 1 ELSE mailed[s]
      BY <1>0, <2>1
    <3>2. s = p => mailed[s] <= faults
      BY <2>3 DEF MailedByFaults
    <3>3. mailed[s] <= 1 + faults
      BY DEF MailedByFaults
    <3> QED BY <1>0, <3>1, <3>2, <3>3
  <2>5. ASSUME NEW s \in Addresses PROVE mailed'[s] <= 1 + faults'
    <3>1. mailed'[s] \in Nat /\ mailed'[s] <= faults + 1
      BY <1>0, <2>1, <2>4
    <3> QED BY <1>0, <3>1
  <2>6. ASSUME NEW s \in Addresses PROVE mailed'[s] <= faults'
    BY <1>0, <2>4
  <2> QED BY <1>0, <2>1, <2>2, <2>5, <2>6 DEF MailedByFaults
<1> QED BY <1>1, <1>2 DEF SendingFails

LEMMA OperatorMails ==
    ASSUME NewsInv, MailedByFaults, Operator
    PROVE  MailedByFaults'
<1>0. faults' = faults
  BY DEF Operator, bounds
<1>1. CASE QueueDeliveries
  <2>1. mailed' = mailed /\ announcement = "draft"
    BY <1>1 DEF QueueDeliveries, NewsInv, CountedForDraft
  <2> QED BY <1>0, <2>1, NothingMailed
<1>2. CASE CancelBroadcast
  <2>1. /\ announcement' = "cancelled" /\ UNCHANGED <<sender, mailed>>
        /\ \A p \in Addresses : delivery'[p].state = "queued" => delivery[p].state = "queued"
    BY <1>2 DEF CancelBroadcast, NewsInv, AnnouncementsTypeOK
  <2>2. \A p \in Addresses : Outstanding(p)' => Outstanding(p)
    BY <2>1 DEF Outstanding
  <2> QED BY <1>0, <2>1, <2>2, NothingMailed
<1>3. CASE CreateBroadcast \/ CountAudience \/ OperatorStops
  <2>1. /\ UNCHANGED <<delivery, sender, mailed>>
        /\ announcement' \in {"none", "draft"} => announcement \in {"none", "draft"}
    BY <1>3 DEF CreateBroadcast, CountAudience, OperatorStops
  <2>2. \A p \in Addresses : Outstanding(p)' => Outstanding(p)
    BY <2>1 DEF Outstanding
  <2> QED BY <1>0, <2>1, <2>2, NothingMailed
<1> QED BY <1>1, <1>2, <1>3 DEF Operator

LEMMA MailedStep == NewsInv /\ PeopleInv /\ MailedByFaults /\ [Next]_vars => MailedByFaults'
<1> SUFFICES ASSUME NewsInv, PeopleInv, MailedByFaults, [Next]_vars PROVE MailedByFaults'
  OBVIOUS
<1> DEFINE Kept == /\ UNCHANGED <<announcement, delivery, sender, mailed>>
                   /\ faults' = faults
<1>0. Kept => MailedByFaults'
  BY DEF MailedByFaults, Outstanding
<1>1. ASSUME NEW p \in Addresses, SignIn(p) PROVE Kept
  <2>1. ASSUME NEW i \in 1 .. MaxCodes,
               \/ \E purpose \in Purposes : CreateChallenge(p, i, purpose)
               \/ CodeLapses(p, i) \/ WrongCode(p, i) \/ VerifyChallenge(p, i)
        PROVE  Kept
    BY <2>1 DEF CreateChallenge, CodeLapses, WrongCode, VerifyChallenge, Ask, newsVars, bounds,
       AddressConfirmed, sendingVars
  <2>2. ASSUME StartGuestBooking(p) PROVE Kept
    BY <2>2 DEF StartGuestBooking, Ask, newsVars
  <2> HIDE DEF Kept
  <2> QED BY <1>1, <2>1, <2>2 DEF SignIn
<1>2. ASSUME NEW a \in Accounts, NEW kind \in Kinds, SessionEnds(a, kind) PROVE Kept
  BY <1>2 DEF SessionEnds, newsVars, bounds
<1>3. ASSUME NEW r \in Requests, NEW a \in Accounts, NEW p \in Addresses, NEW kind \in Kinds,
             Enter(r, a, p, kind)
      PROVE  Kept
  BY <1>3 DEF Enter, Ask, newsVars
<1>4. ASSUME NEW r \in Requests, NEW p \in Addresses, OpenLink(r, p) PROVE Kept
  BY <1>4 DEF OpenLink, Ask, newsVars
<1>5. ASSUME NEW r \in Requests, Carried(r) PROVE MailedByFaults'
  <2>1. ASSUME NEW o \in OfferIds, BuyerOffers(r, o) \/ ReadOffer(r, o) \/ AnswerOffer(r, o)
        PROVE  Kept
    BY <2>1 DEF BuyerOffers, ReadOffer, AnswerOffer, newsVars, bounds
  <2>2. ASSUME NEW subscribed \in BOOLEAN, ChooseNews(r, subscribed) PROVE Kept
    BY <2>2 DEF ChooseNews, SetMyMarketing, SetMarketingByToken, sendingVars, bounds
  <2>3. ASSUME DeleteAccount(r) PROVE MailedByFaults'
    <3>1. /\ UNCHANGED <<announcement, sender, mailed>> /\ faults' = faults
          /\ delivery' = [delivery EXCEPT ![request[r].address] = NoDelivery]
      BY <2>3 DEF DeleteAccount, ForgetNews, bounds
    <3>2. \A p \in Addresses : delivery'[p].state = "queued" => delivery[p].state = "queued"
      BY <3>1 DEF NewsInv, AnnouncementsTypeOK, NoDelivery
    <3>3. \A p \in Addresses : Outstanding(p)' => Outstanding(p)
      BY <3>1, <3>2 DEF Outstanding
    <3> QED BY <3>1, <3>3, NothingMailed
  <2>4. ASSUME OpenCheckout(r) \/ RequestFails(r) PROVE Kept
    BY <2>4 DEF OpenCheckout, RequestFails, newsVars, bounds
  <2> HIDE DEF Kept
  <2> QED BY <1>0, <1>5, <2>1, <2>2, <2>3, <2>4 DEF Carried
<1>6. ASSUME NEW a \in Accounts, Charged(a) \/ BookingOver(a) PROVE Kept
  BY <1>6 DEF Charged, BookingOver, newsVars, bounds
<1>7. ASSUME NEW a \in Accounts, NEW p \in Addresses, ChargeBooked(a, p) PROVE Kept
  BY <1>7 DEF ChargeBooked, AddressConfirmed, sendingVars, bounds
<1>8. ASSUME OfferTime PROVE Kept
  BY <1>8 DEF OfferTime, newsVars, bounds
<1>9. ASSUME NEW S \in SUBSET Addresses, Import(S) PROVE Kept
  BY <1>9 DEF Import, ImportUnsubscribes, sendingVars, Ask
<1>10. ASSUME Sending PROVE MailedByFaults'
  BY <1>10, SenderMails DEF Sending, bounds
<1>11. CASE UNCHANGED vars
  BY <1>0, <1>11 DEF vars, newsVars
<1>12. ASSUME Next PROVE MailedByFaults'
  <2> HIDE DEF Kept
  <2> QED BY <1>0, <1>1, <1>2, <1>3, <1>4, <1>5, <1>6, <1>7, <1>8, <1>9, <1>10, <1>12,
             OperatorMails, FailureMails DEF Next
<1> QED BY <1>11, <1>12

LEMMA NewsAlways == Spec => []NewsInv
<1> HIDE DEF NewsInv, AnnouncementsInit, AnnouncementsNext, newsVars
<1> QED BY ImplementsAnnouncements, NewsInitInv, NewsStepInv, PTL DEF AnnouncementsSpec

LEMMA MailedAlways == Spec => []MailedByFaults
<1> HIDE DEF Init, Next, vars, NewsInv, PeopleInv, MailedByFaults
<1> QED BY NewsAlways, PeopleAlways, MailedInit, MailedStep, PTL DEF Spec

\* No address is mailed an announcement more often than once and once more for each
\* failure (sendOneBroadcastEmail): an email is outstanding only if it was not mailed,
\* or a failure came between mailing and recording it.
THEOREM SafeOneEmailEach == Spec => []OneEmailEach
<1>1. MailedByFaults => OneEmailEach
  BY DEF MailedByFaults, OneEmailEach
<1> QED BY <1>1, MailedAlways, PTL

(***************************************************************************)
(* What a deletion erases.                                                 *)
(***************************************************************************)

Closed == {"none", "declined", "withdrawn", "expired", "converted"}

\* Of the offers of a deleted account none is open, and none names it.
OffersErased ==
    \A a \in Accounts : status[a] = "deleted" =>
        \A o \in OfferIds :
            /\ offer[o].buyer = a /\ a \notin late => ~offer[o].named
            /\ (offer[o].buyer = a /\ a \notin late) \/ a = Seller => offer[o].state \in Closed

\* An address without an account is on no list.
NewsErased ==
    \A p \in Addresses :
        /\ contact[p].subscribed => contact[p].known
        /\ identity[p] = Nobody /\ p \notin late =>
            ~contact[p].known /\ delivery[p].state = "none"

Erased == OffersErased /\ NewsErased

LEMMA ErasedInit == Init => Erased
  BY DEF Init, Erased, OffersErased, NewsErased, AnnouncementsInit, NoContact, NoDelivery

\* Nobody is deleted, and no offer is made, opened again or named.
LEMMA OffersStayErased ==
    ASSUME OffersErased, late \subseteq late',
           \A a \in Accounts : status'[a] = "deleted" => status[a] = "deleted",
           \A o \in OfferIds :
                /\ offer'[o].buyer = offer[o].buyer
                /\ offer'[o].named => offer[o].named
                /\ offer[o].state \in Closed => offer'[o].state \in Closed
    PROVE  OffersErased'
<1> SUFFICES ASSUME NEW a \in Accounts, status'[a] = "deleted", NEW o \in OfferIds
             PROVE  /\ offer'[o].buyer = a /\ a \notin late' => ~offer'[o].named
                    /\ (offer'[o].buyer = a /\ a \notin late') \/ a = Seller =>
                            offer'[o].state \in Closed
  BY DEF OffersErased, Closed
<1>1. status[a] = "deleted" /\ (a \notin late' => a \notin late)
  OBVIOUS
<1>2. /\ offer[o].buyer = a /\ a \notin late => ~offer[o].named
      /\ (offer[o].buyer = a /\ a \notin late) \/ a = Seller => offer[o].state \in Closed
  BY <1>1 DEF OffersErased
<1> QED BY <1>1, <1>2

\* No address loses its account, and nobody without one is put on a list.
LEMMA NewsStaysErased ==
    ASSUME NewsErased, late \subseteq late',
           \A p \in Addresses :
                /\ identity'[p] = Nobody => identity[p] = Nobody
                /\ contact'[p].subscribed => contact'[p].known
                /\ contact'[p].known =>
                        contact[p].known \/ p \in late' \/ identity'[p] # Nobody
                /\ delivery'[p].state # "none" => delivery[p].state # "none" \/ Wanted(p)
    PROVE  NewsErased'
  BY DEF NewsErased, Wanted

\* People come: an address gets its account or keeps the one it has.
LEMMA NobodyErased ==
    ASSUME PeopleInv, NEW p \in Addresses, NEW a \in Accounts, NowActive(p, a)
    PROVE  /\ \A b \in Accounts : status'[b] = "deleted" => status[b] = "deleted"
           /\ \A q \in Addresses : identity'[q] = Nobody => identity[q] = Nobody
<1>1. /\ \A b \in Accounts : status'[b] = IF b = a /\ status[a] = "new" THEN "active"
                                          ELSE status[b]
      /\ \A q \in Addresses : identity'[q] = IF q = p THEN a ELSE identity[q]
  BY DEF NowActive, PeopleInv, PeopleTyped
<1> QED BY <1>1, AccountsConstants

\* What people say they want, and what an import says.
LEMMA ChoiceErases ==
    ASSUME NewsInv, NewsErased, NEW p \in Addresses, NEW subscribed \in BOOLEAN,
           NEW verified \in BOOLEAN, RecordMarketingChoice(p, subscribed, verified),
           LateChoice(p), UNCHANGED <<identity, delivery>>
    PROVE  NewsErased' /\ late \subseteq late'
<1>1. \A q \in Addresses : q # p => contact'[q] = contact[q]
  BY DEF RecordMarketingChoice, NewsInv, AnnouncementsTypeOK
<1>2. contact'[p].known
  BY DEF RecordMarketingChoice, NewsInv, AnnouncementsTypeOK
<1>3. /\ late \subseteq late'
      /\ identity[p] # Nobody \/ p \in late'
  BY DEF LateChoice
<1>4. \A q \in Addresses :
        /\ contact'[q].subscribed => contact'[q].known
        /\ contact'[q].known => contact[q].known \/ q \in late' \/ identity'[q] # Nobody
  BY <1>1, <1>2, <1>3 DEF NewsErased
<1> QED BY <1>3, <1>4, NewsStaysErased

LEMMA ConfirmErases ==
    ASSUME NewsInv, NewsErased, NEW p \in Addresses, ConfirmMarketingEmail(p)
    PROVE  \A q \in Addresses : /\ contact'[q].known => contact[q].known
                                /\ contact'[q].subscribed => contact'[q].known
  BY DEF ConfirmMarketingEmail, Confirmed, NewsInv, AnnouncementsTypeOK, NewsErased

\* The senders and the operator touch only what is on a list.
LEMMA SendersErase ==
    ASSUME NewsInv, \/ Operator
                    \/ \E w \in Senders : Sender(w) \/ SenderStops(w)
                                          \/ DeliverEmail(w, TRUE, "refused")
    PROVE  /\ contact' = contact
           /\ \A p \in Addresses :
                delivery'[p].state # "none" => delivery[p].state # "none" \/ Wanted(p)
<1>1. CASE Operator
  BY <1>1 DEF Operator, CreateBroadcast, CountAudience, QueueDeliveries, OperatorStops,
     CancelBroadcast, NewsInv, AnnouncementsTypeOK
<1>2. ASSUME NEW w \in Senders, Sender(w) \/ SenderStops(w) \/ DeliverEmail(w, TRUE, "refused")
      PROVE  /\ contact' = contact
             /\ \A p \in Addresses :
                  delivery'[p].state # "none" => delivery[p].state # "none" \/ Wanted(p)
  <2>1. CASE TakeDelivery(w)
    <3>1. PICK q \in Addresses : Waiting(q) /\ (delivery' = delivery \/
                SetDelivery(q, [delivery[q] EXCEPT !.state = "skipped"]))
      BY <2>1 DEF TakeDelivery
    <3> QED BY <2>1, <3>1 DEF TakeDelivery, Waiting, SetDelivery, NewsInv, AnnouncementsTypeOK
  <2>2. CASE RecordSent(w) \/ RecordRefused(w)
    <3>1. /\ contact' = contact
          /\ sender[w].address \in Addresses
          /\ delivery[sender[w].address].state = "queued"
      BY <2>2 DEF RecordSent, RecordRefused, NewsInv, AtWork, AtRest
    <3>2. \A p \in Addresses : p # sender[w].address => delivery'[p] = delivery[p]
      BY <2>2 DEF RecordSent, RecordRefused, SetDelivery, NewsInv, AnnouncementsTypeOK
    <3> QED BY <3>1, <3>2
  <2>3. CASE DeliverEmail(w, TRUE, "accepted") \/ DeliverEmail(w, FALSE, "refused")
             \/ DeliverEmail(w, TRUE, "refused") \/ SenderStops(w) \/ CloseBroadcast(w)
    BY <2>3 DEF DeliverEmail, SenderStops, CloseBroadcast
  <2> QED BY <1>2, <2>1, <2>2, <2>3 DEF Sender
<1> QED BY <1>1, <1>2

\* A response, a lapse or a sale opens no offer again.
LEMMA EndedStaysEnded ==
    ASSUME OffersInv, NEW o \in OfferIds,
           \/ \E party \in Parties : GetOffer(o, party)
           \/ \E party \in Parties, version \in 1 .. 2 : OfferRespond(o, party, version)
           \/ OfferLapses(o) \/ ConvertOffer(o)
    PROVE  \A p \in OfferIds :
                /\ offer'[p].buyer = offer[p].buyer
                /\ offer'[p].named => offer[p].named
                /\ offer[p].state \in Closed => offer'[p].state \in Closed
<1>5. offer[o] \in [state : OfferStates, version : {1, 2}, buyer : Buyers \cup {Nobody},
                    named : BOOLEAN]
  BY DEF OffersInv, OffersTypeOK
<1>6. ASSUME NEW to \in OfferStates, SetState(o, to)
      PROVE  offer' = [offer EXCEPT ![o] = [@ EXCEPT !.state = to, !.version = offer[o].version]]
  BY <1>5, <1>6 DEF SetState, OffersInv, OffersTypeOK
<1>1. ASSUME NEW party \in Parties, NEW version \in 1 .. 2, OfferRespond(o, party, version)
      PROVE  /\ offer[o].state \notin Closed
             /\ \E to \in OfferStates, v \in {1, 2} :
                    offer' = [offer EXCEPT ![o] = [@ EXCEPT !.state = to, !.version = v]]
  <2>2. CASE Counter(o, party, version)
    <3>1. offer' = [offer EXCEPT ![o] = [@ EXCEPT !.state = "countered", !.version = 2]]
      BY <1>5, <2>2 DEF Counter, OffersInv, OffersTypeOK
    <3> QED BY <2>2, <3>1 DEF Counter, Closed, OfferStates
  <2>4. CASE Accept(o, party, version) \/ Decline(o, party, version) \/ Withdraw(o, party, version)
    <3>1. offer[o].state \in {"pending", "countered"} /\ offer[o].version \in {1, 2}
      BY <1>5, <2>4 DEF Accept, Decline, Withdraw, Decidable
    <3>2. PICK to \in OfferStates : SetState(o, to)
      BY <2>4 DEF Accept, Decline, Withdraw, OfferStates
    <3> QED BY <1>6, <3>1, <3>2 DEF Closed
  <2> QED BY <1>1, <2>2, <2>4 DEF OfferRespond
<1>2. ASSUME NEW to \in OfferStates, NEW v \in {1, 2}, offer[o].state \notin Closed,
             offer' = [offer EXCEPT ![o] = [@ EXCEPT !.state = to, !.version = v]]
      PROVE  \A p \in OfferIds :
                /\ offer'[p].buyer = offer[p].buyer
                /\ offer'[p].named => offer[p].named
                /\ offer[p].state \in Closed => offer'[p].state \in Closed
  BY <1>2 DEF OffersInv, OffersTypeOK
<1>3. CASE OfferLapses(o) \/ ConvertOffer(o)
  <2>1. offer[o].state \notin Closed /\ offer[o].version \in {1, 2}
    BY <1>3, <1>5 DEF OfferLapses, ConvertOffer, OpenStates, Closed
  <2>2. SetState(o, "expired") \/ SetState(o, "converted")
    BY <1>3 DEF OfferLapses, ConvertOffer, SetState
  <2> QED BY <1>2, <1>6, <2>1, <2>2 DEF OfferStates
<1>4. CASE \E party \in Parties : GetOffer(o, party)
  BY <1>4 DEF GetOffer
<1> QED BY <1>1, <1>2, <1>3, <1>4

\* An offer is made to a seller who is there; one made by a buyer who is gone is late.
LEMMA BuyerOffersErased ==
    ASSUME OffersInv, PeopleInv, Erased, NEW r \in Requests, NEW o \in OfferIds,
           BuyerOffers(r, o)
    PROVE  Erased'
<1> DEFINE a == request[r].account
<1>1. /\ status[Seller] = "active" /\ status' = status /\ identity' = identity
      /\ late' = (IF Gone(a) THEN late \cup {a} ELSE late)
      /\ offer' = [offer EXCEPT ![o] = [state |-> "pending", version |-> 1, buyer |-> a,
                                        named |-> TRUE]]
      /\ UNCHANGED <<contact, delivery>>
  BY DEF BuyerOffers, CreateOffer, newsVars
<1>2. NewsErased'
  BY <1>1, NewsStaysErased DEF Erased, NewsErased
<1>3. /\ \A p \in OfferIds : p # o => offer'[p] = offer[p]
      /\ offer'[o].buyer = a
      /\ late \subseteq late' /\ (status[a] = "deleted" => a \in late')
  BY <1>1 DEF OffersInv, OffersTypeOK, Gone
<1> HIDE DEF a
<1>4. ASSUME NEW b \in Accounts, status'[b] = "deleted", NEW p \in OfferIds
      PROVE  /\ offer'[p].buyer = b /\ b \notin late' => ~offer'[p].named
             /\ (offer'[p].buyer = b /\ b \notin late') \/ b = Seller => offer'[p].state \in Closed
  <2>1. b # Seller /\ status[b] = "deleted"
    BY <1>1, <1>4
  <2>2. CASE p = o
    BY <1>3, <2>1, <2>2
  <2>3. CASE p # o
    BY <1>3, <2>1, <2>3 DEF Erased, OffersErased
  <2> QED BY <2>2, <2>3
<1>5. OffersErased'
  BY <1>4 DEF OffersErased, Closed
<1> QED BY <1>2, <1>5 DEF Erased

\* The deletion itself: the only address of the account, and all its offers.
LEMMA DeleteErases ==
    ASSUME OffersInv, NewsInv, PeopleInv, Erased, NEW r \in Requests, DeleteAccount(r)
    PROVE  Erased'
<1> DEFINE a == request[r].account
           p == request[r].address
<1>1. /\ request[r].kind = "full" /\ status[a] = "active"
      /\ identity' = [identity EXCEPT ![p] = Nobody]
      /\ status' = [status EXCEPT ![a] = "deleted"]
      /\ late' = late
      /\ contact' = [contact EXCEPT ![p] = NoContact]
      /\ delivery' = [delivery EXCEPT ![p] = NoDelivery]
      /\ offer' = [o \in OfferIds |->
            [offer[o] EXCEPT !.state = IF o \in OffersWith(a) /\ @ \in OpenStates
                                       THEN "expired" ELSE @,
                             !.named = @ /\ o \notin OffersOf(a)]]
  BY DEF DeleteAccount, CloseOffersOf, ForgetNews
<1>2. a \in Accounts /\ p \in Addresses
  BY <1>1 DEF PeopleInv, PeopleTyped, Kinds
<1>3. ASSUME NEW o \in OfferIds
      PROVE  /\ offer'[o].buyer = offer[o].buyer
             /\ offer'[o].named => offer[o].named /\ offer[o].buyer # a
             /\ offer'[o].state = IF o \in OffersWith(a) /\ offer[o].state \in OpenStates
                                  THEN "expired" ELSE offer[o].state
             /\ offer[o].state \in OfferStates
  <2>1. offer[o] \in [state : OfferStates, version : {1, 2}, buyer : Buyers \cup {Nobody},
                      named : BOOLEAN]
    BY DEF OffersInv, OffersTypeOK
  <2>2. offer'[o] = [offer[o] EXCEPT
            !.state = IF o \in OffersWith(a) /\ @ \in OpenStates THEN "expired" ELSE @,
            !.named = @ /\ o \notin OffersOf(a)]
    BY <1>1
  <2> QED BY <2>1, <2>2 DEF OffersOf
<1>4. \A o \in OfferIds : offer[o].buyer = a \/ a = Seller =>
            o \in OffersWith(a) \/ offer[o].state = "none"
  BY DEF OffersWith, OffersOf, Exists
<1>5. \A b \in Accounts : status'[b] = IF b = a THEN "deleted" ELSE status[b]
  BY <1>1, <1>2 DEF PeopleInv, PeopleTyped
<1>6. \A q \in Addresses :
        /\ identity'[q] = IF q = p THEN Nobody ELSE identity[q]
        /\ contact'[q] = IF q = p THEN NoContact ELSE contact[q]
        /\ delivery'[q] = IF q = p THEN NoDelivery ELSE delivery[q]
  BY <1>1, <1>2 DEF PeopleInv, PeopleTyped, NewsInv, AnnouncementsTypeOK
<1>7. late' = late
  BY <1>1
<1> HIDE DEF a, p
<1>8. NewsErased'
  BY <1>6, <1>7 DEF Erased, NewsErased, NoContact, NoDelivery
<1>9. ASSUME NEW b \in Accounts, status'[b] = "deleted", NEW o \in OfferIds
      PROVE  /\ offer'[o].buyer = b /\ b \notin late' => ~offer'[o].named
             /\ (offer'[o].buyer = b /\ b \notin late') \/ b = Seller => offer'[o].state \in Closed
  <2>1. CASE b = a
    BY <1>3, <1>4, <2>1 DEF Closed, OpenStates, OfferStates
  <2>2. CASE b # a
    <3>1. status[b] = "deleted"
      BY <1>5, <1>9, <2>2
    <3>2. /\ offer[o].buyer = b /\ b \notin late => ~offer[o].named
          /\ (offer[o].buyer = b /\ b \notin late) \/ b = Seller => offer[o].state \in Closed
      BY <3>1 DEF Erased, OffersErased
    <3> QED BY <1>3, <1>7, <3>2 DEF Closed
  <2> QED BY <2>1, <2>2
<1>10. OffersErased'
  BY <1>9 DEF OffersErased, Closed
<1> QED BY <1>8, <1>10 DEF Erased

LEMMA ErasedStep ==
    OffersInv /\ NewsInv /\ PeopleInv /\ Erased /\ [Next]_vars => Erased'
<1> SUFFICES ASSUME OffersInv, NewsInv, PeopleInv, Erased, [Next]_vars PROVE Erased'
  OBVIOUS
<1> DEFINE Kept == UNCHANGED <<status, identity, late, offer, contact, delivery>>
<1>0. Kept => Erased'
  BY DEF Erased, OffersErased, NewsErased
<1>a. ASSUME UNCHANGED offer, late \subseteq late',
             \A a \in Accounts : status'[a] = "deleted" => status[a] = "deleted"
      PROVE  OffersErased'
  BY <1>a, OffersStayErased DEF Erased
<1>b. ASSUME UNCHANGED <<status, identity, late, contact, delivery>>,
             \A p \in OfferIds :
                /\ offer'[p].buyer = offer[p].buyer
                /\ offer'[p].named => offer[p].named
                /\ offer[p].state \in Closed => offer'[p].state \in Closed
      PROVE  Erased'
  <2>1. OffersErased'
    BY <1>b, OffersStayErased DEF Erased
  <2>2. NewsErased'
    BY <1>b DEF Erased, NewsErased
  <2> QED BY <2>1, <2>2 DEF Erased
<1>1. ASSUME NEW p \in Addresses, SignIn(p) PROVE Erased'
  <2>1. ASSUME NEW i \in 1 .. MaxCodes,
               \/ \E purpose \in Purposes : CreateChallenge(p, i, purpose)
               \/ CodeLapses(p, i) \/ WrongCode(p, i)
        PROVE  Kept
    BY <2>1 DEF CreateChallenge, CodeLapses, WrongCode, newsVars, offersVars
  <2>2. ASSUME NEW i \in 1 .. MaxCodes, VerifyChallenge(p, i) PROVE Erased'
    <3>1. PICK a \in Accounts : NowActive(p, a)
      BY <2>2 DEF VerifyChallenge
    <3>2. ConfirmMarketingEmail(p) /\ late' = late /\ offer' = offer /\ delivery' = delivery
      BY <2>2 DEF VerifyChallenge, AddressConfirmed, sendingVars, offersVars
    <3>3. /\ \A b \in Accounts : status'[b] = "deleted" => status[b] = "deleted"
          /\ \A q \in Addresses : identity'[q] = Nobody => identity[q] = Nobody
      BY <3>1, NobodyErased
    <3>4. OffersErased'
      BY <1>a, <3>2, <3>3
    <3>5. NewsErased'
      BY <3>2, <3>3, ConfirmErases, NewsStaysErased DEF Erased
    <3> QED BY <3>4, <3>5 DEF Erased
  <2>3. ASSUME StartGuestBooking(p) PROVE Erased'
    <3>1. PICK a \in Accounts : NowActive(p, a)
      BY <2>3 DEF StartGuestBooking
    <3>2. UNCHANGED <<late, offer, contact, delivery>>
      BY <2>3 DEF StartGuestBooking, newsVars, offersVars
    <3>3. /\ \A b \in Accounts : status'[b] = "deleted" => status[b] = "deleted"
          /\ \A q \in Addresses : identity'[q] = Nobody => identity[q] = Nobody
      BY <3>1, NobodyErased
    <3>4. OffersErased'
      BY <1>a, <3>2, <3>3
    <3>5. NewsErased'
      BY <3>2, <3>3, NewsStaysErased DEF Erased, NewsErased
    <3> QED BY <3>4, <3>5 DEF Erased
  <2> HIDE DEF Kept
  <2> QED BY <1>0, <1>1, <2>1, <2>2, <2>3 DEF SignIn
<1>2. ASSUME NEW a \in Accounts, NEW kind \in Kinds, SessionEnds(a, kind) PROVE Kept
  BY <1>2 DEF SessionEnds, newsVars, offersVars
<1>3. ASSUME NEW r \in Requests, NEW a \in Accounts, NEW p \in Addresses, NEW kind \in Kinds,
             Enter(r, a, p, kind)
      PROVE  Kept
  BY <1>3 DEF Enter, newsVars, offersVars
<1>4. ASSUME NEW r \in Requests, NEW p \in Addresses, OpenLink(r, p) PROVE Kept
  BY <1>4 DEF OpenLink, newsVars, offersVars
<1>5. ASSUME NEW r \in Requests, Carried(r) PROVE Erased'
  <2> DEFINE p == request[r].address
             verified == identity[p] = request[r].account /\ p \in proven
  <2>1. ASSUME NEW o \in OfferIds, ReadOffer(r, o) \/ AnswerOffer(r, o) PROVE Erased'
    <3>1. UNCHANGED <<status, identity, late, contact, delivery>>
      BY <2>1 DEF ReadOffer, AnswerOffer, newsVars
    <3>2. \/ \E party \in Parties : GetOffer(o, party)
          \/ \E party \in Parties, version \in 1 .. 2 : OfferRespond(o, party, version)
      BY <2>1 DEF ReadOffer, AnswerOffer, PartyIn, Parties
    <3> QED BY <1>b, <3>1, <3>2, EndedStaysEnded
  <2>2. ASSUME NEW subscribed \in BOOLEAN, ChooseNews(r, subscribed) PROVE Erased'
    <3>1. p \in Addresses
      BY <2>2 DEF ChooseNews, PeopleInv, PeopleTyped, Kinds
    <3>2. UNCHANGED <<status, identity, offer, delivery>> /\ LateChoice(p)
      BY <2>2 DEF ChooseNews, offersVars, SetMyMarketing, SetMarketingByToken, sendingVars
    <3>3. RecordMarketingChoice(p, subscribed, verified)
          \/ RecordMarketingChoice(p, subscribed, TRUE)
      BY <2>2 DEF ChooseNews, SetMyMarketing, SetMarketingByToken
    <3>4. verified \in BOOLEAN
      OBVIOUS
    <3> HIDE DEF p, verified
    <3>5. NewsErased' /\ late \subseteq late'
      BY <3>1, <3>2, <3>3, <3>4, ChoiceErases DEF Erased
    <3>6. OffersErased'
      BY <1>a, <3>2, <3>5
    <3> QED BY <3>5, <3>6 DEF Erased
  <2>3. ASSUME OpenCheckout(r) \/ RequestFails(r) PROVE Kept
    BY <2>3 DEF OpenCheckout, RequestFails, newsVars, offersVars
  <2> HIDE DEF Kept
  <2> QED BY <1>0, <1>5, <2>1, <2>2, <2>3, BuyerOffersErased, DeleteErases DEF Carried
<1>6. ASSUME NEW a \in Accounts, Charged(a) \/ BookingOver(a) PROVE Kept
  BY <1>6 DEF Charged, BookingOver, newsVars, offersVars
<1>7. ASSUME NEW a \in Accounts, NEW p \in Addresses, ChargeBooked(a, p) PROVE Erased'
  <2>1. ConfirmMarketingEmail(p) /\ UNCHANGED <<status, identity, late, offer, delivery>>
    BY <1>7 DEF ChargeBooked, AddressConfirmed, sendingVars, offersVars
  <2>2. OffersErased'
    BY <1>a, <2>1
  <2>3. NewsErased'
    BY <2>1, ConfirmErases, NewsStaysErased DEF Erased
  <2> QED BY <2>2, <2>3 DEF Erased
<1>8. ASSUME OfferTime PROVE Erased'
  BY <1>8, <1>b, EndedStaysEnded DEF OfferTime, people, newsVars
<1>9. ASSUME NEW S \in SUBSET Addresses, Import(S) PROVE Erased'
  <2>1. UNCHANGED <<status, identity, late, offer, delivery>>
    BY <1>9 DEF Import, ImportUnsubscribes, sendingVars, people, offersVars
  <2>2. OffersErased'
    BY <1>a, <2>1
  <2>3. contact' = [p \in Addresses |->
            IF p \in S THEN [contact[p] EXCEPT !.subscribed = FALSE] ELSE contact[p]]
    BY <1>9 DEF Import, ImportUnsubscribes
  <2>4. \A p \in Addresses : /\ contact'[p].known = contact[p].known
                             /\ contact'[p].subscribed => contact[p].subscribed
    BY <2>3 DEF NewsInv, AnnouncementsTypeOK
  <2>5. NewsErased'
    BY <2>1, <2>4, NewsStaysErased DEF Erased, NewsErased
  <2> QED BY <2>2, <2>5 DEF Erased
<1>10. ASSUME Operator \/ Sending \/ \E w \in Senders : SendingFails(w) PROVE Erased'
  <2>1. UNCHANGED <<status, identity, late, offer>>
    BY <1>10 DEF Operator, Sending, SendingFails, people, offersVars
  <2>2. /\ contact' = contact
        /\ \A p \in Addresses :
            delivery'[p].state # "none" => delivery[p].state # "none" \/ Wanted(p)
    BY <1>10, SendersErase DEF Sending, SendingFails
  <2>3. OffersErased'
    BY <1>a, <2>1
  <2>4. NewsErased'
    BY <2>1, <2>2, NewsStaysErased DEF Erased, NewsErased
  <2> QED BY <2>3, <2>4 DEF Erased
<1>11. CASE UNCHANGED vars
  BY <1>0, <1>11 DEF vars, people, newsVars, offersVars
<1>12. ASSUME Next PROVE Erased'
  <2> HIDE DEF Kept
  <2> QED BY <1>0, <1>1, <1>2, <1>3, <1>4, <1>5, <1>6, <1>7, <1>8, <1>9, <1>10, <1>12 DEF Next
<1> QED BY <1>11, <1>12

LEMMA OffersAlways == Spec => []OffersInv
<1> HIDE DEF OffersInv, OffersInit, OffersNext, offersVars
<1> QED BY ImplementsOffers, OffersInitInv, OffersStepInv, PTL DEF OffersSpec

\* A deletion withdraws and erases what deleteAccount says it does, and no later
\* step of anyone brings it back, but for a request authenticated before it: an
\* account has one address, its request names that address, and an address without
\* an account gets on no list.
THEOREM SafeDeletedIsErased == Spec => []DeletedIsErased
<1>1. PeopleInv /\ Erased => DeletedIsErased
  <2> SUFFICES ASSUME PeopleInv, Erased PROVE DeletedIsErased
    OBVIOUS
  <2>1. ASSUME NEW a \in Accounts, status[a] = "deleted"
        PROVE  session[a] = {} /\ \A p \in Addresses : identity[p] # a
    BY <2>1, AccountsConstants DEF PeopleInv, OneAccount
  <2>2. ASSUME NEW a \in Accounts, status[a] = "deleted", NEW o \in OfferIds
        PROVE  /\ offer[o].buyer = a /\ a \notin late => ~offer[o].named
               /\ (offer[o].buyer = a /\ a \notin late) \/ a = Seller =>
                    offer[o].state \in {"none", "declined", "withdrawn", "expired", "converted"}
    BY <2>2 DEF Erased, OffersErased, Closed
  <2>3. \A p \in Addresses : identity[p] = Nobody /\ p \notin late =>
            ~contact[p].known /\ delivery[p].state = "none"
    BY DEF Erased, NewsErased
  <2> QED BY <2>1, <2>2, <2>3 DEF DeletedIsErased
<1> HIDE DEF Init, Next, vars, OffersInv, NewsInv, PeopleInv, Erased, DeletedIsErased
<1> QED BY <1>1, OffersAlways, NewsAlways, PeopleAlways, ErasedInit, ErasedStep, PTL DEF Spec

(***************************************************************************)
(* The types of everything.                                                *)
(***************************************************************************)

CodeType == [state : {"none", "live", "over"}, purpose : Purposes \cup {"login"},
             guesses : 0 .. MaxGuesses]

MoneyStates == {"none", "open", "charged", "booked"}

CodesTyped == code \in [Addresses -> [1 .. MaxCodes -> CodeType]]

BoundsTyped == faults \in 0 .. MaxFaults /\ asked \in 0 .. MaxAsks

RestTyped ==
    /\ proven \in SUBSET Addresses
    /\ scope \in [Accounts -> SUBSET OfferIds]
    /\ CodesTyped
    /\ money \in [Accounts -> MoneyStates]
    /\ late \subseteq Accounts \cup Addresses
    /\ BoundsTyped

NoCodeTyped == NoCode \in CodeType

LEMMA NoCodeIsTyped == NoCodeTyped
  BY AccountsConstants DEF NoCodeTyped, NoCode, CodeType

LEMMA RestInit == Init => RestTyped
<1> SUFFICES ASSUME Init PROVE RestTyped
  OBVIOUS
<1>1. CodesTyped
  BY NoCodeIsTyped DEF Init, CodesTyped, NoCodeTyped
<1>2. BoundsTyped
  BY AccountsConstants DEF Init, BoundsTyped
<1> QED BY <1>1, <1>2, AccountsConstants DEF Init, RestTyped, MoneyStates

LEMMA OneMore ==
    ASSUME NEW most \in Nat, NEW n \in 0 .. most, n < most
    PROVE  n + 1 \in 0 .. most
OBVIOUS

LEMMA BoundsKept ==
    ASSUME BoundsTyped, UNCHANGED bounds \/ Ask \/ Fault
    PROVE  BoundsTyped'
<1>1. CASE UNCHANGED bounds
  BY <1>1 DEF BoundsTyped, bounds
<1>2. CASE Ask
  BY <1>2, OneMore, AccountsConstants DEF BoundsTyped, Ask
<1>3. CASE Fault
  BY <1>3, OneMore, AccountsConstants DEF BoundsTyped, Fault
<1> QED BY <1>1, <1>2, <1>3

LEMMA SetCodeTyped ==
    ASSUME CodesTyped, NEW p \in Addresses, NEW i \in 1 .. MaxCodes, NEW c \in CodeType,
           SetCode(p, i, c)
    PROVE  CodesTyped'
<1>1. code[p] \in [1 .. MaxCodes -> CodeType]
      /\ code' = [code EXCEPT ![p] = [code[p] EXCEPT ![i] = c]]
  BY DEF CodesTyped, SetCode
<1> QED BY <1>1 DEF CodesTyped

LEMMA SignInTyped ==
    ASSUME PeopleInv, RestTyped, NEW p \in Addresses, SignIn(p)
    PROVE  RestTyped'
<1>0. CodesTyped /\ BoundsTyped /\ scope \in [Accounts -> SUBSET OfferIds]
  BY DEF RestTyped
<1>1. ASSUME NEW i \in 1 .. MaxCodes, NEW purpose \in Purposes, CreateChallenge(p, i, purpose)
      PROVE  RestTyped'
  <2>1. [state |-> "live", purpose |-> purpose, guesses |-> 0] \in CodeType
    BY AccountsConstants DEF CodeType
  <2>2. CodesTyped'
    BY <1>0, <1>1, <2>1, SetCodeTyped DEF CreateChallenge
  <2>3. BoundsTyped'
    BY <1>0, <1>1, BoundsKept DEF CreateChallenge
  <2> QED BY <1>1, <2>2, <2>3 DEF RestTyped, CreateChallenge
<1>2. ASSUME NEW i \in 1 .. MaxCodes PROVE code[p][i] \in CodeType
  BY <1>0 DEF CodesTyped
<1>3. ASSUME NEW i \in 1 .. MaxCodes, CodeLapses(p, i) PROVE RestTyped'
  <2>1. [code[p][i] EXCEPT !.state = "over"] \in CodeType
    BY <1>2 DEF CodeType
  <2>2. CodesTyped'
    BY <1>0, <1>3, <2>1, SetCodeTyped DEF CodeLapses
  <2>3. BoundsTyped'
    BY <1>0, <1>3, BoundsKept DEF CodeLapses
  <2> QED BY <1>3, <2>2, <2>3 DEF RestTyped, CodeLapses
<1>4. ASSUME NEW i \in 1 .. MaxCodes, WrongCode(p, i) PROVE RestTyped'
  <2> DEFINE n == code[p][i].guesses + 1
  <2>1. n \in 0 .. MaxGuesses
    BY <1>2, <1>4, OneMore, AccountsConstants DEF CodeType, WrongCode
  <2>2. SetCode(p, i, [code[p][i] EXCEPT !.guesses = n])
    BY <1>4 DEF WrongCode
  <2> HIDE DEF n
  <2>3. [code[p][i] EXCEPT !.guesses = n] \in CodeType
    BY <1>2, <2>1 DEF CodeType
  <2>4. CodesTyped'
    BY <1>0, <2>2, <2>3, SetCodeTyped
  <2>5. BoundsTyped'
    BY <1>0, <1>4, BoundsKept DEF WrongCode
  <2> QED BY <1>4, <2>4, <2>5 DEF RestTyped, WrongCode
<1>5. ASSUME NEW i \in 1 .. MaxCodes, VerifyChallenge(p, i) PROVE RestTyped'
  <2>1. [code[p][i] EXCEPT !.state = "over"] \in CodeType
    BY <1>2 DEF CodeType
  <2>2. CodesTyped'
    BY <1>0, <1>5, <2>1, SetCodeTyped DEF VerifyChallenge
  <2>3. BoundsTyped'
    BY <1>0, <1>5, BoundsKept DEF VerifyChallenge
  <2>4. PICK a \in Accounts :
            OpenSession(a, code[p][i].purpose) \/ KeepSession(a, code[p][i].purpose)
    BY <1>5 DEF VerifyChallenge
  <2>5. OffersOf(a) \in SUBSET OfferIds
    BY DEF OffersOf
  <2>6. scope' \in [Accounts -> SUBSET OfferIds]
    <3>1. CASE KeepSession(a, code[p][i].purpose)
      BY <1>0, <3>1 DEF KeepSession
    <3>2. CASE OpenSession(a, code[p][i].purpose)
      <4> DEFINE more == IF code[p][i].purpose = "guest_access" THEN OffersOf(a) ELSE {}
      <4>1. scope' = [scope EXCEPT ![a] = @ \cup more] /\ more \in SUBSET OfferIds
        BY <2>5, <3>2 DEF OpenSession
      <4> HIDE DEF more
      <4> QED BY <1>0, <4>1
    <3> QED BY <2>4, <3>1, <3>2
  <2> QED BY <1>5, <2>2, <2>3, <2>6 DEF RestTyped, VerifyChallenge
<1>6. ASSUME StartGuestBooking(p) PROVE RestTyped'
  <2>1. BoundsTyped'
    BY <1>0, <1>6, BoundsKept DEF StartGuestBooking
  <2> QED BY <1>6, <2>1 DEF RestTyped, StartGuestBooking, CodesTyped
<1> QED BY <1>1, <1>3, <1>4, <1>5, <1>6 DEF SignIn

LEMMA CarriedTyped ==
    ASSUME PeopleInv, RestTyped, NEW r \in Requests, Carried(r)
    PROVE  RestTyped'
<1> DEFINE a == request[r].account
           p == request[r].address
<1>0. /\ CodesTyped /\ BoundsTyped
      /\ request[r].kind \in Kinds => a \in Accounts
      /\ request[r].kind # "none" => p \in Addresses
  BY DEF RestTyped, PeopleInv, PeopleTyped
<1>1. ASSUME NEW o \in OfferIds, BuyerOffers(r, o) PROVE RestTyped'
  <2>1. a \in Accounts
    BY <1>0, <1>1 DEF BuyerOffers, Kinds
  <2>2. scope' \in [Accounts -> SUBSET OfferIds]
    BY <1>1, <2>1 DEF BuyerOffers, RestTyped
  <2>3. late' \subseteq Accounts \cup Addresses
    BY <1>1, <2>1 DEF BuyerOffers, RestTyped
  <2> QED BY <1>0, <1>1, <2>2, <2>3, BoundsKept DEF BuyerOffers, RestTyped, CodesTyped
<1>2. ASSUME NEW o \in OfferIds, ReadOffer(r, o) \/ AnswerOffer(r, o) PROVE RestTyped'
  BY <1>0, <1>2, BoundsKept DEF ReadOffer, AnswerOffer, RestTyped, CodesTyped
<1>3. ASSUME NEW subscribed \in BOOLEAN, ChooseNews(r, subscribed) PROVE RestTyped'
  <2>1. p \in Addresses
    BY <1>0, <1>3 DEF ChooseNews, Kinds
  <2>2. late' \subseteq Accounts \cup Addresses
    BY <1>3, <2>1 DEF ChooseNews, LateChoice, RestTyped
  <2> QED BY <1>0, <1>3, <2>2, BoundsKept DEF ChooseNews, RestTyped, CodesTyped
<1>4. ASSUME OpenCheckout(r) PROVE RestTyped'
  BY <1>0, <1>4, BoundsKept DEF OpenCheckout, RestTyped, CodesTyped, MoneyStates
<1>5. ASSUME RequestFails(r) PROVE RestTyped'
  BY <1>0, <1>5, BoundsKept DEF RequestFails, RestTyped, CodesTyped
<1>6. ASSUME DeleteAccount(r) PROVE RestTyped'
  <2>1. /\ code' = [code EXCEPT ![p] = [i \in 1 .. MaxCodes |-> NoCode]]
        /\ scope' = [scope EXCEPT ![a] = {}] /\ proven' = proven \ {p}
        /\ UNCHANGED <<money, late, bounds>>
    BY <1>6 DEF DeleteAccount
  <2>2. CodesTyped'
    BY <1>0, <2>1, NoCodeIsTyped DEF CodesTyped, NoCodeTyped
  <2> QED BY <1>0, <2>1, <2>2, BoundsKept DEF RestTyped
<1> QED BY <1>1, <1>2, <1>3, <1>4, <1>5, <1>6 DEF Carried

LEMMA RestStep == PeopleInv /\ RestTyped /\ [Next]_vars => RestTyped'
<1> SUFFICES ASSUME PeopleInv, RestTyped, [Next]_vars PROVE RestTyped'
  OBVIOUS
<1>0. BoundsTyped
  BY DEF RestTyped
<1>1. ASSUME UNCHANGED <<proven, scope, code, money, late>>,
             UNCHANGED bounds \/ Ask \/ Fault
      PROVE  RestTyped'
  BY <1>0, <1>1, BoundsKept DEF RestTyped, CodesTyped
<1>2. ASSUME NEW a \in Accounts, NEW kind \in Kinds, SessionEnds(a, kind) PROVE RestTyped'
  <2>1. scope' \in [Accounts -> SUBSET OfferIds]
    BY <1>2 DEF SessionEnds, RestTyped
  <2> QED BY <1>0, <1>2, <2>1, BoundsKept DEF SessionEnds, RestTyped, CodesTyped
<1>3. ASSUME NEW r \in Requests, NEW a \in Accounts, NEW p \in Addresses, NEW kind \in Kinds,
             Enter(r, a, p, kind) \/ OpenLink(r, p)
      PROVE  RestTyped'
  BY <1>1, <1>3 DEF Enter, OpenLink
<1>4. ASSUME NEW r \in Requests, NEW p \in Addresses, OpenLink(r, p) PROVE RestTyped'
  BY <1>1, <1>4 DEF OpenLink
<1>5. ASSUME NEW a \in Accounts, Charged(a) \/ BookingOver(a) PROVE RestTyped'
  <2>1. /\ money' \in [Accounts -> MoneyStates]
        /\ UNCHANGED <<proven, scope, code, late, bounds>>
    BY <1>5 DEF Charged, BookingOver, RestTyped, MoneyStates
  <2> QED BY <1>0, <2>1, BoundsKept DEF RestTyped, CodesTyped
<1>6. ASSUME NEW a \in Accounts, NEW p \in Addresses, ChargeBooked(a, p) PROVE RestTyped'
  <2>1. /\ money' \in [Accounts -> MoneyStates]
        /\ UNCHANGED <<proven, scope, code, late, bounds>>
    BY <1>6 DEF ChargeBooked, RestTyped, MoneyStates
  <2> QED BY <1>0, <2>1, BoundsKept DEF RestTyped, CodesTyped
<1>7. ASSUME OfferTime \/ Operator \/ Sending PROVE RestTyped'
  BY <1>1, <1>7 DEF OfferTime, Operator, Sending, people
<1>8. ASSUME NEW S \in SUBSET Addresses, Import(S) PROVE RestTyped'
  BY <1>1, <1>8 DEF Import, people
<1>9. ASSUME NEW w \in Senders, SendingFails(w) PROVE RestTyped'
  BY <1>1, <1>9 DEF SendingFails, people
<1>10. CASE UNCHANGED vars
  BY <1>1, <1>10 DEF vars, people, bounds
<1> QED BY <1>2, <1>3, <1>4, <1>5, <1>6, <1>7, <1>8, <1>9, <1>10, SignInTyped, CarriedTyped
        DEF Next

\* Codes, sessions, scopes, requests, offers, announcements and payments are what the
\* code's tables hold (email_challenges, sessions, guest scopes, offers, broadcasts), for
\* any people and requests: a guess is counted up to its limit and no further.
THEOREM TypeCorrect == Spec => []TypeOK
<1>1. Spec => []RestTyped
  <2> HIDE DEF Init, Next, vars, RestTyped, PeopleInv
  <2> QED BY RestInit, RestStep, PeopleAlways, PTL DEF Spec
<1>2. OffersInv /\ NewsInv /\ PeopleInv /\ RestTyped => TypeOK
  BY DEF OffersInv, NewsInv, PeopleInv, PeopleTyped, RestTyped, CodesTyped, CodeType, MoneyStates,
         BoundsTyped, TypeOK
<1> HIDE DEF Spec, OffersInv, NewsInv, PeopleInv, RestTyped, TypeOK
<1> QED BY <1>1, <1>2, OffersAlways, NewsAlways, PeopleAlways, PTL
===============================================================================
