----------------------------- MODULE AddressBook -----------------------------
(***************************************************************************)
(* What sign-in addresses promise: an address is nobody's, an account's or *)
(* an invitation's, and it changes hands in the four ways below only.      *)
(***************************************************************************)
CONSTANTS Addresses, Users, Invitations

VARIABLES
  holder,   \* who an address belongs to
  founded   \* the first account has been created

book == <<holder, founded>>

Nobody == "nobody"

Parties == Users \cup Invitations

BookInit ==
  /\ holder = [a \in Addresses |-> Nobody]
  /\ founded = FALSE

(* The first account is founded once; all others begin as an invitation.   *)
Take(a) ==
  /\ holder[a] = Nobody
  /\ \E p \in IF founded THEN Invitations ELSE Users : holder' = [holder EXCEPT ![a] = p]
  /\ founded' = TRUE

(* An invitation is revoked, an account deleted.                           *)
Release(a) ==
  /\ holder[a] # Nobody
  /\ holder' = [holder EXCEPT ![a] = Nobody]
  /\ UNCHANGED founded

(* An invitation becomes an account in one step: nobody gets in between.   *)
Activate(a) ==
  /\ holder[a] \in Invitations
  /\ \E u \in Users : holder' = [holder EXCEPT ![a] = u]
  /\ UNCHANGED founded

(* An account moves from one address to a free one in one step.            *)
MoveTo(a, b) ==
  /\ holder[a] \in Users /\ holder[b] = Nobody
  /\ holder' = [holder EXCEPT ![a] = Nobody, ![b] = holder[a]]
  /\ UNCHANGED founded

BookNext ==
  \E a \in Addresses :
    \/ Take(a) \/ Release(a) \/ Activate(a)
    \/ \E b \in Addresses : MoveTo(a, b)

BookSpec == BookInit /\ [][BookNext]_book
=============================================================================
