----------------------------- MODULE Announcements -----------------------------
(***************************************************************************)
(* An announcement goes by email to everyone who agreed to news and whose  *)
(* address is confirmed.  An operator confirms the number of people; every *)
(* API instance then sends one email at a time, within the transaction     *)
(* that holds the row of that delivery, while people come and go and the   *)
(* operator may stop it.                                                   *)
(*                                                                         *)
(* An update of a row that a sender holds waits for its commit: such an    *)
(* operation is a step that is not taken while the row is held.            *)
(***************************************************************************)
EXTENDS Integers, FiniteSets

CONSTANTS
    Addresses,
    Senders,        \* announcement workers, one per API instance
    Noone,          \* no address: a sender at rest
    MaxTries        \* attempts at one email

ASSUME AnnouncementsConstants ==
    /\ MaxTries \in Nat \ {0}
    /\ Noone \notin Addresses /\ IsFiniteSet(Addresses)

VARIABLES
    contact,        \* marketing_contacts, by address
    announcement,   \* broadcasts.state
    delivery,       \* broadcast_deliveries, by address
    sender,         \* the row a sender holds and what it was told
    operator,       \* an operator sending the announcement: the number counted
    mailed          \* emails the provider took, by address

newsVars == <<contact, announcement, delivery, sender, operator, mailed>>

NoContact == [known |-> FALSE, subscribed |-> FALSE, confirmed |-> FALSE]
NoDelivery == [state |-> "none", tries |-> 0]
AtRest == [pc |-> "idle", address |-> Noone]
NotSending == -1

AnnouncementsTypeOK ==
    /\ contact \in [Addresses -> [known : BOOLEAN, subscribed : BOOLEAN, confirmed : BOOLEAN]]
    /\ announcement \in {"none", "draft", "sending", "sent", "cancelled"}
    /\ delivery \in [Addresses -> [state : {"none", "queued", "sent", "skipped", "failed"},
                                   tries : 0 .. MaxTries]]
    /\ sender \in [Senders -> [pc : {"idle", "sending", "accepted", "refused"},
                               address : Addresses \cup {Noone}]]
    /\ operator \in Int
    /\ mailed \in [Addresses -> Nat]

AnnouncementsInit ==
    /\ contact = [p \in Addresses |-> NoContact]
    /\ announcement = "none"
    /\ delivery = [p \in Addresses |-> NoDelivery]
    /\ sender = [w \in Senders |-> AtRest]
    /\ operator = NotSending
    /\ mailed = [p \in Addresses |-> 0]

sendingVars == <<announcement, delivery, sender, operator, mailed>>

\* A yes counts at once if the address is known to be the person's, else later.
RecordMarketingChoice(p, subscribed, confirmed) ==
    contact' = [contact EXCEPT ![p] = [known |-> TRUE, subscribed |-> subscribed,
                                       confirmed |-> @.confirmed \/ confirmed]]

Confirmed(p) == [contact EXCEPT ![p].confirmed = @ \/ contact[p].known]

SetMyMarketing(p, subscribed, verified) ==
    /\ RecordMarketingChoice(p, subscribed, verified)
    /\ UNCHANGED sendingVars

\* The link in an email: the address is real either way.
SetMarketingByToken(p, subscribed) ==
    /\ RecordMarketingChoice(p, subscribed, TRUE)
    /\ UNCHANGED sendingVars

ConfirmMarketingEmail(p) == contact' = Confirmed(p)

ImportUnsubscribes(S) ==
    /\ contact' = [p \in Addresses |->
            IF p \in S THEN [contact[p] EXCEPT !.subscribed = FALSE] ELSE contact[p]]
    /\ UNCHANGED sendingVars

-------------------------------------------------------------------------------
(* The operator. *)

Wanted(p) == contact[p].subscribed /\ contact[p].confirmed

Audience == {p \in Addresses : Wanted(p)}

CreateBroadcast ==
    /\ announcement = "none"
    /\ announcement' = "draft"
    /\ UNCHANGED <<contact, delivery, sender, operator, mailed>>

\* The announcement is locked, and the number confirmed is the number counted.
CountAudience ==
    /\ announcement = "draft" /\ operator = NotSending
    /\ Audience # {}
    /\ operator' = Cardinality(Audience)
    /\ UNCHANGED <<contact, announcement, delivery, sender, mailed>>

\* The next statement lists the people anew.
QueueDeliveries ==
    /\ operator # NotSending
    /\ delivery' = [p \in Addresses |-> IF Wanted(p) THEN [NoDelivery EXCEPT !.state = "queued"]
                                        ELSE delivery[p]]
    /\ announcement' = "sending"
    /\ operator' = NotSending
    /\ UNCHANGED <<contact, sender, mailed>>

OperatorStops ==
    /\ operator # NotSending
    /\ operator' = NotSending
    /\ UNCHANGED <<contact, announcement, delivery, sender, mailed>>

Held(p) == \E w \in Senders : sender[w].address = p

\* What is queued is skipped, once the senders have let go of it.
CancelBroadcast ==
    /\ announcement \in {"draft", "sending"} /\ operator = NotSending
    /\ \A p \in Addresses : ~Held(p)
    /\ announcement' = "cancelled"
    /\ delivery' = [p \in Addresses |->
            IF delivery[p].state = "queued" THEN [delivery[p] EXCEPT !.state = "skipped"]
            ELSE delivery[p]]
    /\ UNCHANGED <<contact, sender, operator, mailed>>

-------------------------------------------------------------------------------
(* The senders. *)

WaitingAndWanted(p) ==
    announcement = "sending" /\ delivery[p].state = "queued" /\ ~Held(p) /\ Wanted(p)

WaitingHeldOrNot(p) == announcement = "sending" /\ delivery[p].state = "queued"

\* FOR UPDATE SKIP LOCKED
Waiting(p) ==
    /\ announcement = "sending" /\ delivery[p].state = "queued"
    /\ ~Held(p)

SetDelivery(p, d) == delivery' = [delivery EXCEPT ![p] = d]

LetGo(w) == sender' = [sender EXCEPT ![w] = AtRest]

\* One who unsubscribed after the announcement was queued is skipped.
TakeDelivery(w) ==
    /\ sender[w] = AtRest
    /\ \E p \in Addresses :
        /\ Waiting(p)
        /\ IF Wanted(p)
           THEN sender' = [sender EXCEPT ![w] = [pc |-> "sending", address |-> p]]
                /\ UNCHANGED delivery
           ELSE SetDelivery(p, [delivery[p] EXCEPT !.state = "skipped"]) /\ UNCHANGED sender
    /\ UNCHANGED <<contact, announcement, operator, mailed>>

DeliverEmail(w, taken, told) ==
    /\ sender[w].pc = "sending"
    /\ mailed' = [mailed EXCEPT ![sender[w].address] = IF taken THEN @ + 1 ELSE @]
    /\ sender' = [sender EXCEPT ![w].pc = told]
    /\ UNCHANGED <<contact, announcement, delivery, operator>>

RecordSent(w) ==
    LET p == sender[w].address IN
    /\ sender[w].pc = "accepted"
    /\ SetDelivery(p, [state |-> "sent", tries |-> delivery[p].tries + 1])
    /\ LetGo(w)
    /\ UNCHANGED <<contact, announcement, operator, mailed>>

RecordRefusedForEver(w) ==
    LET p == sender[w].address IN
    /\ sender[w].pc = "refused"
    /\ SetDelivery(p, [delivery[p] EXCEPT !.tries = @ + 1])
    /\ LetGo(w)
    /\ UNCHANGED <<contact, announcement, operator, mailed>>

RecordRefused(w) ==
    LET p == sender[w].address
        tries == delivery[p].tries + 1
    IN
    /\ sender[w].pc = "refused"
    /\ SetDelivery(p, [state |-> IF tries >= MaxTries THEN "failed" ELSE "queued",
                       tries |-> tries])
    /\ LetGo(w)
    /\ UNCHANGED <<contact, announcement, operator, mailed>>

\* The transaction is rolled back; what was sent stays sent.
SenderStops(w) ==
    /\ sender[w] # AtRest
    /\ LetGo(w)
    /\ UNCHANGED <<contact, announcement, delivery, operator, mailed>>

\* Nothing that this sender could take.
NothingToTake == \A p \in Addresses : ~Waiting(p)

Finished == \A p \in Addresses : delivery[p].state # "queued"

\* A sender that finds nothing to take closes the announcement that is done.
CloseBroadcast(w) ==
    /\ sender[w] = AtRest
    /\ announcement = "sending" /\ Finished
    /\ announcement' = "sent"
    /\ UNCHANGED <<contact, delivery, sender, operator, mailed>>

Sender(w) ==
    \/ TakeDelivery(w)
    \/ DeliverEmail(w, TRUE, "accepted")
    \/ DeliverEmail(w, FALSE, "refused")
    \/ RecordSent(w)
    \/ RecordRefused(w)
    \/ CloseBroadcast(w)

\* deleteAccount
ForgetNews(p) ==
    /\ ~Held(p)
    /\ contact' = [contact EXCEPT ![p] = NoContact]
    /\ delivery' = [delivery EXCEPT ![p] = NoDelivery]
    /\ UNCHANGED <<announcement, sender, operator, mailed>>

AddressConfirmed(p) == ConfirmMarketingEmail(p) /\ UNCHANGED sendingVars

\* What happens to announcements, whoever does it.
AnnouncementsNext ==
    \/ \E p \in Addresses :
        \/ \E subscribed, verified \in BOOLEAN : SetMyMarketing(p, subscribed, verified)
        \/ \E subscribed \in BOOLEAN : SetMarketingByToken(p, subscribed)
        \/ AddressConfirmed(p)
        \/ ForgetNews(p)
    \/ \E S \in SUBSET Addresses : ImportUnsubscribes(S)
    \/ CreateBroadcast \/ CountAudience \/ QueueDeliveries \/ OperatorStops
    \/ CancelBroadcast
    \/ \E w \in Senders : Sender(w) \/ SenderStops(w) \/ DeliverEmail(w, TRUE, "refused")

AnnouncementsSpec == AnnouncementsInit /\ [][AnnouncementsNext]_newsVars

-------------------------------------------------------------------------------

\* What an announcement left is never taken up again: once it is cancelled or has
\* been sent, nothing is queued and no sender is at work on it (opsCancelBroadcast
\* and the closing update of sendOneBroadcastEmail, against the other instances).
OverIsOver ==
    announcement \in {"sent", "cancelled"} =>
        /\ \A p \in Addresses : delivery[p].state # "queued"
        /\ \A w \in Senders : sender[w] = AtRest
===============================================================================
