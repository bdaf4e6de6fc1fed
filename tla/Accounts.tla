------------------------------- MODULE Accounts -------------------------------
(***************************************************************************)
(* People: how an address comes to an account, signs in and out, what a    *)
(* session lets it do, and how an account is deleted.  Offers and          *)
(* announcements are the two components that deletion has most to clear    *)
(* up after; this module composes them with accounts.                      *)
(*                                                                         *)
(* A request is authenticated first and carried out afterwards, in another *)
(* transaction: meanwhile the account may be deleted.                      *)
(***************************************************************************)
EXTENDS Offers, Announcements

CONSTANTS
    Accounts,
    Seller,         \* the account whose link takes offers
    SellerAddress,
    Requests,       \* requests under way at one time
    Purposes,       \* what a code is asked for
    MaxCodes,       \* bound: codes an address asks for (5 an hour in the code)
    MaxGuesses,     \* attempts at a code
    MaxFaults,      \* bound: senders that stop, answers that do not come
    MaxAsks         \* bound: what people begin

ASSUME AccountsConstants ==
    /\ Seller \in Accounts /\ SellerAddress \in Addresses
    /\ Buyers = Accounts \ {Seller} /\ Nobody \notin Accounts
    /\ Purposes \subseteq {"login", "guest_access", "guest_offer", "guest_booking"}
    /\ MaxCodes \in Nat /\ MaxGuesses \in Nat \ {0}
    /\ MaxFaults \in Nat /\ MaxAsks \in Nat

VARIABLES
    status,     \* users.status
    identity,   \* the account of an address
    proven,     \* addresses that have been verified
    session,    \* kinds of sessions in force of an account
    scope,      \* offers that the guest sessions of an account may reach
    code,       \* email_challenges of an address
    request,    \* the account, or the address, that a request acts for
    money,      \* a payment of an account, or the booking made with it
    late,       \* accounts for which a request was carried out after the deletion
    faults, asked

people == <<status, identity, proven, session, scope, code, request, money, late>>
vars == <<people, offersVars, newsVars, faults, asked>>

Kinds == {"full", "guest", "quick"}
NoRequest == [kind |-> "none", account |-> Nobody, address |-> Noone]
NoCode == [state |-> "none", purpose |-> "login", guesses |-> 0]

TypeOK ==
    /\ OffersTypeOK /\ AnnouncementsTypeOK
    /\ status \in [Accounts -> {"new", "active", "deleted"}]
    /\ identity \in [Addresses -> Accounts \cup {Nobody}]
    /\ proven \in SUBSET Addresses
    /\ session \in [Accounts -> SUBSET Kinds]
    /\ scope \in [Accounts -> SUBSET OfferIds]
    /\ code \in [Addresses -> [1 .. MaxCodes ->
            [state : {"none", "live", "over"}, purpose : Purposes \cup {"login"},
             guesses : 0 .. MaxGuesses]]]
    /\ request \in [Requests -> [kind : Kinds \cup {"none", "link"},
            account : Accounts \cup {Nobody}, address : Addresses \cup {Noone}]]
    /\ money \in [Accounts -> {"none", "open", "charged", "booked"}]
    /\ late \subseteq Accounts \cup Addresses
    /\ faults \in 0 .. MaxFaults /\ asked \in 0 .. MaxAsks

Init ==
    /\ OffersInit /\ AnnouncementsInit
    /\ status = [a \in Accounts |-> IF a = Seller THEN "active" ELSE "new"]
    /\ identity = [p \in Addresses |-> IF p = SellerAddress THEN Seller ELSE Nobody]
    /\ proven = {SellerAddress}
    /\ session = [a \in Accounts |-> IF a = Seller THEN {"full"} ELSE {}]
    /\ scope = [a \in Accounts |-> {}]
    /\ code = [p \in Addresses |-> [i \in 1 .. MaxCodes |-> NoCode]]
    /\ request = [r \in Requests |-> NoRequest]
    /\ money = [a \in Accounts |-> "none"]
    /\ late = {}
    /\ faults = 0 /\ asked = 0

Ask == asked < MaxAsks /\ asked' = asked + 1 /\ UNCHANGED faults

Fault == faults < MaxFaults /\ faults' = faults + 1 /\ UNCHANGED asked

bounds == <<faults, asked>>

-------------------------------------------------------------------------------
(* Signing in. *)

SetCode(p, i, c) == code' = [code EXCEPT ![p][i] = c]

\* A code that could not be mailed is removed at once, and none was given out.
CreateChallenge(p, i, purpose) ==
    /\ Ask
    /\ code[p][i].state = "none"
    /\ SetCode(p, i, [state |-> "live", purpose |-> purpose, guesses |-> 0])
    /\ UNCHANGED <<status, identity, proven, session, scope, request, money, late,
                   offersVars, newsVars>>

CodeLapses(p, i) ==
    /\ code[p][i].state = "live"
    /\ SetCode(p, i, [code[p][i] EXCEPT !.state = "over"])
    /\ UNCHANGED <<status, identity, proven, session, scope, request, money, late,
                   offersVars, newsVars, bounds>>

\* A guess counts whether the code was the right one or not, once they are used up.
WrongCode(p, i) ==
    /\ code[p][i].state = "live" /\ code[p][i].guesses < MaxGuesses
    /\ SetCode(p, i, [code[p][i] EXCEPT !.guesses = @ + 1])
    /\ UNCHANGED <<status, identity, proven, session, scope, request, money, late,
                   offersVars, newsVars, bounds>>

Unused(a) == status[a] = "new" /\ a # Seller

\* The account of an address, made when there is none.
AccountOf(p, a) == IF identity[p] = Nobody THEN Unused(a) ELSE a = identity[p]

NowActive(p, a) ==
    /\ status' = [status EXCEPT ![a] = IF @ = "new" THEN "active" ELSE @]
    /\ identity' = [identity EXCEPT ![p] = a]

OffersOf(a) == {o \in OfferIds : offer[o].buyer = a}

\* A guest session reaches what it makes itself; one opened from an email's link,
\* what the account has made so far.
OpenSession(a, purpose) ==
    /\ session' = [session EXCEPT ![a] = @ \cup {IF purpose = "login" THEN "full" ELSE "guest"}]
    /\ scope' = [scope EXCEPT ![a] = @ \cup IF purpose = "guest_access" THEN OffersOf(a) ELSE {}]

\* One signed in already keeps the session, when the code was for a guest's errand.
KeepSession(a, purpose) ==
    /\ purpose # "login" /\ "full" \in session[a]
    /\ UNCHANGED <<session, scope>>

VerifyChallenge(p, i) ==
    /\ code[p][i].state = "live" /\ code[p][i].guesses < MaxGuesses
    /\ SetCode(p, i, [code[p][i] EXCEPT !.state = "over"])
    /\ \E a \in Accounts :
        /\ AccountOf(p, a)
        /\ NowActive(p, a)
        /\ \/ OpenSession(a, code[p][i].purpose)
           \/ KeepSession(a, code[p][i].purpose)
    /\ proven' = proven \cup {p}
    /\ AddressConfirmed(p)
    /\ UNCHANGED <<request, money, late, offersVars, bounds>>

\* A buyer may pay before confirming the address.
StartGuestBooking(p) ==
    /\ Ask
    /\ \E a \in Accounts :
        /\ AccountOf(p, a)
        /\ NowActive(p, a)
        /\ session' = [session EXCEPT ![a] = @ \cup {"quick"}]
    /\ UNCHANGED <<proven, scope, code, request, money, late, offersVars, newsVars>>

\* Signed out, or past its thirty days.
SessionEnds(a, kind) ==
    /\ kind \in session[a]
    /\ session' = [session EXCEPT ![a] = @ \ {kind}]
    /\ scope' = [scope EXCEPT ![a] = IF kind = "guest" THEN {} ELSE @]
    /\ UNCHANGED <<status, identity, proven, code, request, money, late, offersVars,
                   newsVars, bounds>>

-------------------------------------------------------------------------------
(* Requests. *)

\* currentUser, and buyerActor for guests
Authenticated(a, p, kind) ==
    /\ kind \in session[a] /\ status[a] = "active" /\ identity[p] = a
    /\ p \in proven \/ kind = "quick"

Enter(r, a, p, kind) ==
    /\ Ask
    /\ request[r] = NoRequest
    /\ Authenticated(a, p, kind)
    /\ request' = [request EXCEPT ![r] = [kind |-> kind, account |-> a, address |-> p]]
    /\ UNCHANGED <<status, identity, proven, session, scope, code, money, late,
                   offersVars, newsVars>>

\* The link in an announcement finds its address.
OpenLink(r, p) ==
    /\ Ask
    /\ request[r] = NoRequest
    /\ contact[p].known /\ mailed[p] > 0
    /\ request' = [request EXCEPT ![r] =
                        [kind |-> "link", account |-> Nobody, address |-> p]]
    /\ UNCHANGED <<status, identity, proven, session, scope, code, money, late,
                   offersVars, newsVars>>

Carry(r) == request' = [request EXCEPT ![r] = NoRequest]

RequestFails(r) ==
    /\ request[r] # NoRequest
    /\ Carry(r)
    /\ UNCHANGED <<status, identity, proven, session, scope, code, money, late,
                   offersVars, newsVars, bounds>>

Gone(a) == status[a] = "deleted"

\* The link is locked, and must be published; that the buyer still has an account
\* is not asked again.
BuyerOffers(r, o) ==
    LET a == request[r].account IN
    /\ request[r].kind \in {"full", "guest"} /\ a \in Buyers
    /\ status[Seller] = "active"
    /\ CreateOffer(o, a)
    /\ scope' = [scope EXCEPT ![a] = IF request[r].kind = "guest" THEN @ \cup {o} ELSE @]
    /\ late' = IF Gone(a) THEN late \cup {a} ELSE late
    /\ Carry(r)
    /\ UNCHANGED <<status, identity, proven, session, code, money, newsVars, bounds>>

PartyIn(a, o) == IF a = Seller THEN "seller" ELSE "buyer"

Reaches(r, o) ==
    LET a == request[r].account IN
    /\ request[r].kind \in Kinds
    /\ a = Seller \/ offer[o].buyer = a
    /\ request[r].kind = "full" \/ o \in scope[a]

ReadOffer(r, o) ==
    /\ Reaches(r, o)
    /\ GetOffer(o, PartyIn(request[r].account, o))
    /\ Carry(r)
    /\ UNCHANGED <<status, identity, proven, session, scope, code, money, late,
                   newsVars, bounds>>

AnswerOffer(r, o) ==
    /\ Reaches(r, o)
    /\ \E version \in 1 .. 2 : OfferRespond(o, PartyIn(request[r].account, o), version)
    /\ Carry(r)
    /\ UNCHANGED <<status, identity, proven, session, scope, code, money, late,
                   newsVars, bounds>>

\* A choice recorded for someone who is gone keeps the address on the list.
LateChoice(p) == late' = IF identity[p] = Nobody THEN late \cup {p} ELSE late

ChooseNews(r, subscribed) ==
    LET p == request[r].address IN
    /\ \/ /\ request[r].kind \in Kinds
          /\ SetMyMarketing(p, subscribed, identity[p] = request[r].account /\ p \in proven)
       \/ /\ request[r].kind = "link"
          /\ SetMarketingByToken(p, subscribed)
    /\ LateChoice(p)
    /\ Carry(r)
    /\ UNCHANGED <<status, identity, proven, session, scope, code, money,
                   offersVars, bounds>>

-------------------------------------------------------------------------------
(* Payments of an account, as far as deletion sees them. *)

OpenCheckout(r) ==
    LET a == request[r].account IN
    /\ request[r].kind \in Kinds /\ a \in Buyers /\ money[a] = "none"
    /\ money' = [money EXCEPT ![a] = "open"]
    /\ Carry(r)
    /\ UNCHANGED <<status, identity, proven, session, scope, code, late, offersVars,
                   newsVars, bounds>>

\* At Kora.
Charged(a) ==
    /\ money[a] = "open"
    /\ \E to \in {"charged", "none"} : money' = [money EXCEPT ![a] = to]
    /\ UNCHANGED <<status, identity, proven, session, scope, code, request, late,
                   offersVars, newsVars, bounds>>

\* applyVerifiedCharge asks for the buyer's address and fails without one.
ChargeBooked(a, p) ==
    /\ money[a] = "charged" /\ identity[p] = a
    /\ money' = [money EXCEPT ![a] = "booked"]
    /\ AddressConfirmed(p)
    /\ UNCHANGED <<status, identity, proven, session, scope, code, request, late,
                   offersVars, bounds>>

BookingOver(a) ==
    /\ money[a] = "booked"
    /\ money' = [money EXCEPT ![a] = "none"]
    /\ UNCHANGED <<status, identity, proven, session, scope, code, request, late,
                   offersVars, newsVars, bounds>>

-------------------------------------------------------------------------------
(* Deletion. *)

\* Bookings of either party not yet over, and all that they still have to settle.
Blocked(a) ==
    \/ money[a] = "booked"
    \/ a = Seller /\ \E b \in Buyers : money[b] = "booked"

\* The offers of either party.
OffersWith(a) == IF a = Seller THEN {o \in OfferIds : Exists(o)} ELSE OffersOf(a)

\* One transaction; the row of a delivery that is being sent is waited for.
DeleteAccount(r) ==
    LET a == request[r].account
        p == request[r].address
    IN
    /\ request[r].kind = "full" /\ status[a] = "active"
    /\ ~Blocked(a)
    /\ CloseOffersOf(OffersWith(a), OffersOf(a))
    /\ ForgetNews(p)
    /\ code' = [code EXCEPT ![p] = [i \in 1 .. MaxCodes |-> NoCode]]
    /\ session' = [session EXCEPT ![a] = {}]
    /\ scope' = [scope EXCEPT ![a] = {}]
    /\ identity' = [identity EXCEPT ![p] = Nobody]
    /\ proven' = proven \ {p}
    /\ status' = [status EXCEPT ![a] = "deleted"]
    /\ Carry(r)
    /\ UNCHANGED <<money, late, bounds>>

-------------------------------------------------------------------------------
(* The composed system. *)

OfferTime ==
    /\ \E o \in OfferIds : OfferLapses(o) \/ ConvertOffer(o)
    /\ UNCHANGED <<people, newsVars, bounds>>

Operator ==
    /\ \/ CreateBroadcast
       \/ CountAudience
       \/ QueueDeliveries
       \/ OperatorStops
       \/ CancelBroadcast
    /\ UNCHANGED <<people, offersVars, bounds>>

Import(S) ==
    /\ Ask
    /\ ImportUnsubscribes(S)
    /\ UNCHANGED <<people, offersVars>>

Sending ==
    /\ \E w \in Senders : Sender(w)
    /\ UNCHANGED <<people, offersVars, bounds>>

SendingFails(w) ==
    /\ Fault
    /\ SenderStops(w) \/ DeliverEmail(w, TRUE, "refused")
    /\ UNCHANGED <<people, offersVars>>

Carried(r) ==
    \/ \E o \in OfferIds : BuyerOffers(r, o) \/ ReadOffer(r, o) \/ AnswerOffer(r, o)
    \/ \E subscribed \in BOOLEAN : ChooseNews(r, subscribed)
    \/ OpenCheckout(r)
    \/ DeleteAccount(r)
    \/ RequestFails(r)

SignIn(p) ==
    \/ \E i \in 1 .. MaxCodes :
        \/ \E purpose \in Purposes : CreateChallenge(p, i, purpose)
        \/ CodeLapses(p, i)
        \/ WrongCode(p, i)
        \/ VerifyChallenge(p, i)
    \/ StartGuestBooking(p)

Next ==
    \/ \E p \in Addresses : SignIn(p)
    \/ \E a \in Accounts, kind \in Kinds :
        \/ SessionEnds(a, kind)
        \/ \E r \in Requests, p \in Addresses : Enter(r, a, p, kind)
    \/ \E r \in Requests :
        \/ \E p \in Addresses : OpenLink(r, p)
        \/ Carried(r)
    \/ \E a \in Accounts :
        \/ Charged(a)
        \/ \E p \in Addresses : ChargeBooked(a, p)
        \/ BookingOver(a)
    \/ OfferTime
    \/ Operator
    \/ \E S \in SUBSET Addresses \ {{}} : Import(S)
    \/ Sending
    \/ \E w \in Senders : SendingFails(w)

Spec == Init /\ [][Next]_vars

\* runBroadcastWorker wakes every twenty seconds on every instance.
FairSpec == Spec /\ WF_vars(Sending)

-------------------------------------------------------------------------------
(* Properties. *)

\* Nobody is mailed an announcement twice, whichever instances send it, but for one
\* that stops, or is not answered, between sending and recording
\* (sendOneBroadcastEmail sends inside the transaction that holds the row).
OneEmailEach == \A p \in Addresses : mailed[p] <= 1 + faults

\* What deleteAccount promises, "Anything not yet sent or agreed is withdrawn", and
\* no name or address is kept: sign-ins, codes, links, offers and announcements on
\* either side of a deletion bring nothing back, save a request that had been
\* authenticated before and was carried out after it.
DeletedIsErased ==
    /\ \A a \in Accounts : status[a] = "deleted" =>
        /\ session[a] = {}
        /\ \A p \in Addresses : identity[p] # a
        /\ \A o \in OfferIds :
            /\ offer[o].buyer = a /\ a \notin late => ~offer[o].named
            /\ (offer[o].buyer = a /\ a \notin late) \/ a = Seller =>
                    offer[o].state \in {"none", "declined", "withdrawn", "expired", "converted"}
    /\ \A p \in Addresses : identity[p] = Nobody /\ p \notin late =>
        ~contact[p].known /\ delivery[p].state = "none"

\* An announcement that is being sent is sent or stopped in the end.
AnnouncementEnds == []<>(announcement # "sending")

\* What the code says of deletionBlockers, that it lists "what must finish before an
\* account can be deleted: money still moving": no charge is left that the account's
\* deletion has made impossible to book.
NoMoneyMoving == \A a \in Accounts : status[a] = "deleted" => money[a] # "charged"
===============================================================================
