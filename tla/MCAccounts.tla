------------------------------ MODULE MCAccounts ------------------------------
(* The instance of Accounts that the runs check. *)
EXTENDS Accounts, TLC

CONSTANTS s, a1, a2, ps, pb, r1, r2

\* Offers, announcements and payments meet only in an account: the run looks at
\* all behaviours of each, and of each with signing in and deletion.
Talk == \E o \in OfferIds : Exists(o)
News == \E p \in Addresses : contact[p].known
Paid == \E a \in Accounts : money[a] # "none"

\* The seller is signed in; a second request is one beside a deletion; and an
\* announcement is written for somebody.
Apart ==
    /\ ~(Talk /\ News) /\ ~(Talk /\ Paid) /\ ~(News /\ Paid)
    /\ Talk \/ asked <= 4
    /\ announcement = "none" \/ ~(Talk \/ Paid)
    /\ \A i \in 1 .. MaxCodes : code[ps][i] = NoCode
    /\ request[r2] = NoRequest \/ request[r1].kind = "full"
===============================================================================
