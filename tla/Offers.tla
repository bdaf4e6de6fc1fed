-------------------------------- MODULE Offers --------------------------------
(***************************************************************************)
(* A buyer offers an amount for a seller's time; the seller agrees,        *)
(* declines or names another amount once; the buyer agrees or declines.    *)
(*                                                                         *)
(* A response names the version of the offer that its sender has on the    *)
(* screen.  Who may send one is a matter of sessions, and is left to       *)
(* Accounts, which composes this module with sign-in and deletion.         *)
(***************************************************************************)
EXTENDS Integers

CONSTANTS
    OfferIds,
    Buyers,     \* accounts that may offer
    Nobody      \* no account

ASSUME OffersConstants == Nobody \notin Buyers

VARIABLES
    offer,      \* state, version, the buyer's account, whether it names the buyer
    shown,      \* the version each party has last been shown
    agreement   \* who accepted an offer and which version they answered

offersVars == <<offer, shown, agreement>>

Parties == {"buyer", "seller"}
OfferStates == {"none", "pending", "countered", "agreed", "declined", "withdrawn",
                "expired", "converted"}
NoOffer == [state |-> "none", version |-> 1, buyer |-> Nobody, named |-> FALSE]
NoAgreement == [by |-> "buyer", version |-> 0]

OffersTypeOK ==
    /\ offer \in [OfferIds -> [state : OfferStates, version : {1, 2},
                               buyer : Buyers \cup {Nobody}, named : BOOLEAN]]
    /\ shown \in [OfferIds -> [Parties -> 0 .. 2]]
    /\ agreement \in [OfferIds -> [by : Parties, version : 0 .. 2]]

OffersInit ==
    /\ offer = [o \in OfferIds |-> NoOffer]
    /\ shown = [o \in OfferIds |-> [p \in Parties |-> 0]]
    /\ agreement = [o \in OfferIds |-> NoAgreement]

Exists(o) == offer[o].state # "none"

\* pending, countered, agreed: what deleteAccount withdraws.
OpenStates == {"pending", "countered", "agreed"}

\* The idempotency key makes a repeated request find the offer it made.
CreateOffer(o, a) ==
    /\ ~Exists(o)
    /\ offer' = [offer EXCEPT ![o] = [state |-> "pending", version |-> 1, buyer |-> a,
                                      named |-> TRUE]]
    /\ shown' = [shown EXCEPT ![o]["buyer"] = 1]
    /\ UNCHANGED agreement

GetOffer(o, party) ==
    /\ Exists(o)
    /\ shown' = [shown EXCEPT ![o][party] = offer[o].version]
    /\ UNCHANGED <<offer, agreement>>

\* Noted by the next reader: a response not given in time, a sale not made in time.
OfferLapses(o) ==
    /\ offer[o].state \in OpenStates
    /\ offer' = [offer EXCEPT ![o].state = "expired"]
    /\ UNCHANGED <<shown, agreement>>

StaleNever(o, version) == FALSE

Stale(o, version) == version # offer[o].version

\* A response is refused unless it is about the version in force.
Answerable(o, party, version) ==
    /\ Exists(o)
    /\ version = shown[o][party] /\ version # 0
    /\ ~Stale(o, version)

SetState(o, state) == offer' = [offer EXCEPT ![o].state = state]

Counter(o, party, version) ==
    /\ Answerable(o, party, version)
    /\ party = "seller" /\ offer[o].state = "pending" /\ offer[o].version = 1
    /\ offer' = [offer EXCEPT ![o].state = "countered", ![o].version = 2]
    /\ shown' = [shown EXCEPT ![o]["seller"] = 2]
    /\ UNCHANGED agreement

\* What the other party has put forward.
Decidable(o, party) ==
    offer[o].state = IF party = "seller" THEN "pending" ELSE "countered"

Accept(o, party, version) ==
    /\ Answerable(o, party, version) /\ Decidable(o, party)
    /\ SetState(o, "agreed")
    /\ agreement' = [agreement EXCEPT ![o] = [by |-> party, version |-> version]]
    /\ UNCHANGED shown

Decline(o, party, version) ==
    /\ Answerable(o, party, version) /\ Decidable(o, party)
    /\ SetState(o, "declined")
    /\ UNCHANGED <<shown, agreement>>

Withdraw(o, party, version) ==
    /\ Answerable(o, party, version)
    /\ offer[o].state \in IF party = "seller" THEN {"countered"}
                          ELSE {"pending", "countered"}
    /\ SetState(o, "withdrawn")
    /\ UNCHANGED <<shown, agreement>>

OfferRespond(o, party, version) ==
    \/ Counter(o, party, version)
    \/ Accept(o, party, version)
    \/ Decline(o, party, version)
    \/ Withdraw(o, party, version)

\* A verified charge under the agreement makes the booking (Conversion).
ConvertOffer(o) ==
    /\ offer[o].state = "agreed"
    /\ SetState(o, "converted")
    /\ UNCHANGED <<shown, agreement>>

\* deleteAccount closes the offers of either party, and forgets who the buyer was.
CloseOffersOf(mine, asBuyer) ==
    /\ offer' = [o \in OfferIds |->
            [offer[o] EXCEPT !.state = IF o \in mine /\ @ \in OpenStates THEN "expired" ELSE @,
                             !.named = @ /\ o \notin asBuyer]]
    /\ UNCHANGED <<shown, agreement>>

\* What happens to offers, whoever does it.
OffersNext ==
    \/ \E o \in OfferIds :
        \/ \E a \in Buyers : CreateOffer(o, a)
        \/ \E party \in Parties : GetOffer(o, party)
        \/ \E party \in Parties, version \in 1 .. 2 : OfferRespond(o, party, version)
        \/ OfferLapses(o)
        \/ ConvertOffer(o)
    \/ \E mine, asBuyer \in SUBSET OfferIds : CloseOffersOf(mine, asBuyer)

OffersSpec == OffersInit /\ [][OffersNext]_offersVars

-------------------------------------------------------------------------------

\* An agreement is on the amount that the accepting party was shown and that the
\* other party put forward: the seller accepts the buyer's amount, version 1, the
\* buyer the seller's, version 2, however the two responses cross (offerRespond).
AgreedAsShown ==
    \A o \in OfferIds :
        offer[o].state \in {"agreed", "converted"} =>
            /\ agreement[o].version = offer[o].version
            /\ agreement[o].by = IF offer[o].version = 1 THEN "seller" ELSE "buyer"
===============================================================================
