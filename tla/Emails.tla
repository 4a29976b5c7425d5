------------------------------- MODULE Emails -------------------------------
(***************************************************************************)
(* Sign-in addresses: first-run setup, invitations and email changes.      *)
(*                                                                         *)
(* Accounts and pending invitations share one space of addresses, but lie  *)
(* in two tables, each with its own unique index.  What keeps them apart   *)
(* is an advisory lock per address that every transaction takes which      *)
(* gives an address to somebody.  Such a transaction is: an unlocked read  *)
(* that finds the address (Begin...), the advisory lock, the row locks and *)
(* the checks (May...), the writes and the commit (Commit...).  The locks  *)
(* are taken in one step with the checks: whatever another transaction     *)
(* does between them it could as well do before.                           *)
(*                                                                         *)
(* Codes, links and setup tokens are numbered in the order they are made;  *)
(* the digest of what somebody presents is its number, 0 for a guess that  *)
(* is wrong.  Roles, passwords and mail tasks are in the other modules.    *)
(***************************************************************************)
EXTENDS Integers, Sequences, FiniteSets

CONSTANTS
  Users, Invitations,  \* ids, each used once
  Addresses,           \* canonical addresses
  Transactions,
  MaxAttempts,         \* guesses at a code; 5 in the code
  MaxCodes             \* bound on codes, links and tokens

NoAddress == "no address"
Nobody == "nobody"
Console == "console"   \* where the setup token is printed

ASSUME EmailsAssumption ==
  /\ NoAddress \notin Addresses /\ Console \notin Addresses
  /\ {Nobody, Console} \cap (Users \cup Invitations) = {} /\ Users \cap Invitations = {}
  /\ MaxAttempts \in Nat \ {0} /\ MaxCodes \in Nat

VARIABLES
  setup,       \* auth_setup
  account,     \* auth_users
  invitation,  \* auth_user_invitations
  change,      \* auth_email_change_requests, at most one row per account
  tx,          \* the transactions in progress
  issued       \* history: the codes made, what for, and what became of them

vars == <<setup, account, invitation, change, tx, issued>>

-----------------------------------------------------------------------------
(* State *)

Code == 0..MaxCodes

Setup == [complete : BOOLEAN, token : Code, expired : BOOLEAN]

Account == [status : {"unborn", "enabled", "disabled", "deleted"},
            email : Addresses \cup {NoAddress}]

Invitation == [status : {"unborn", "pending", "over"},
               email : Addresses \cup {NoAddress}, link : Code, expired : BOOLEAN]

(* A request is known by the first code it was made with.                  *)
Change == [id : Code, old : Addresses \cup {NoAddress}, new : Addresses \cup {NoAddress},
           code : Code, attempts : 0..MaxAttempts, cooling : BOOLEAN, expired : BOOLEAN]

Unborn == [status |-> "unborn", email |-> NoAddress]
NotInvited == [status |-> "unborn", email |-> NoAddress, link |-> 0, expired |-> FALSE]
NoChange == [id |-> 0, old |-> NoAddress, new |-> NoAddress, code |-> 0, attempts |-> 0,
             cooling |-> FALSE, expired |-> FALSE]

(* What a transaction knows besides the tables.                            *)
Operation(at, op, user, which, address, id, digest) ==
  [at |-> at, op |-> op, user |-> user, invitation |-> which, address |-> address, id |-> id,
   digest |-> digest]

Idle == Operation("idle", "none", Nobody, Nobody, NoAddress, 0, 0)

Init ==
  /\ setup = [complete |-> FALSE, token |-> 0, expired |-> FALSE]
  /\ account = [u \in Users |-> Unborn]
  /\ invitation = [i \in Invitations |-> NotInvited]
  /\ change = [u \in Users |-> NoChange]
  /\ tx = [t \in Transactions |-> Idle]
  /\ issued = <<>>

NewCode == Len(issued) + 1

(* A new code for somebody, sent to an address.                            *)
Issue(to, by, from) ==
  /\ Len(issued) < MaxCodes
  /\ issued' = Append(issued, [to |-> to, by |-> by, from |-> from, misses |-> 0, serves |-> 0])

Serve(n) == issued' = [issued EXCEPT ![n].serves = @ + 1]

Exists(u) == account[u].status \in {"enabled", "disabled"}
Taken(a) == \E u \in Users : account[u].email = a
Invited(a) == \E i \in Invitations : invitation[i].email = a

(* A user row is locked from the checks to the commit.                     *)
UserFree(u) == \A t \in Transactions : ~(tx[t].at = "checked" /\ tx[t].user = u)

(* Mutant: no lock across the two tables.                                  *)
AddressFreeAnyway(a) == TRUE

(* pg_advisory_xact_lock, held to the end of the transaction.              *)
AddressFree(a) == \A t \in Transactions : ~(tx[t].at = "checked" /\ tx[t].address = a)

Start(t, operation) ==
  /\ tx[t].at = "idle"
  /\ tx' = [tx EXCEPT ![t] = operation]
  /\ UNCHANGED <<setup, account, invitation, change, issued>>

(* A check that fails, a deadline, a client that goes away.                *)
Abandon(t) ==
  /\ tx[t].at # "idle"
  /\ tx' = [tx EXCEPT ![t] = Idle]
  /\ UNCHANGED <<setup, account, invitation, change, issued>>

-----------------------------------------------------------------------------
(* First-run setup *)

(* Each process prints a token of its own when it starts, until one is     *)
(* used; the last one counts.                                              *)
IssueStartupToken ==
  /\ ~setup.complete
  /\ setup' = [complete |-> FALSE, token |-> NewCode, expired |-> FALSE]
  /\ Issue(Console, Console, NoAddress)
  /\ UNCHANGED <<account, invitation, change, tx>>

(* PreflightToken; the password is hashed after it.                        *)
BeginSetup(t, a) ==
  /\ ~setup.complete /\ ~setup.expired /\ setup.token > 0
  /\ Start(t, Operation("hashing", "setup", Nobody, Nobody, a, 0, setup.token))

MaySetup(t) == ~setup.complete /\ ~setup.expired /\ setup.token = tx[t].digest

CommitSetup(t) ==
  /\ tx[t].at = "hashing" /\ MaySetup(t)
  /\ \E u \in Users :
       /\ account[u] = Unborn /\ ~Taken(tx[t].address)
       /\ account' = [account EXCEPT ![u] = [status |-> "enabled", email |-> tx[t].address]]
  /\ setup' = [complete |-> TRUE, token |-> 0, expired |-> setup.expired]
  /\ Serve(tx[t].digest)
  /\ tx' = [tx EXCEPT ![t] = Idle]
  /\ UNCHANGED <<invitation, change>>

-----------------------------------------------------------------------------
(* Checks: locked rows, read again *)

Check(t, operation) ==
  tx[t].at = "begun" /\ tx[t].op = operation /\ AddressFree(tx[t].address)

Checked(t) ==
  /\ tx' = [tx EXCEPT ![t].at = "checked"]
  /\ UNCHANGED <<setup, account, invitation, change, issued>>

Ready(t, operation) == tx[t].at = "checked" /\ tx[t].op = operation

-----------------------------------------------------------------------------
(* Email changes *)

(* The account is read and its password verified.                          *)
BeginRequest(t, u, a) ==
  /\ account[u].status = "enabled" /\ account[u].email # a
  /\ Start(t, Operation("begun", "request", u, Nobody, a, 0, 0))

(* One cooldown for requests and resends, whatever the address.            *)
MayRequest(t) ==
  LET u == tx[t].user IN
  /\ Check(t, "request") /\ UserFree(u)
  /\ account[u].status = "enabled" /\ account[u].email # tx[t].address
  /\ ~Taken(tx[t].address) /\ ~Invited(tx[t].address)
  /\ ~change[u].cooling
  /\ Checked(t)

(* A new code comes with all its attempts, and the cooldown begins.        *)
Coded(id, old, new) ==
  [id |-> id, old |-> old, new |-> new, code |-> NewCode, attempts |-> MaxAttempts,
   cooling |-> TRUE, expired |-> FALSE]

CommitRequest(t) ==
  LET u == tx[t].user IN
  /\ Ready(t, "request")
  /\ change' = [change EXCEPT ![u] = Coded(NewCode, account[u].email, tx[t].address)]
  /\ Issue(tx[t].address, u, account[u].email)
  /\ tx' = [tx EXCEPT ![t] = Idle]
  /\ UNCHANGED <<setup, account, invitation>>

(* No address changes hands, so only the account and its request are       *)
(* locked.                                                                 *)
ResendEmailChange(u) ==
  /\ account[u].status = "enabled" /\ UserFree(u)
  /\ change[u] # NoChange
  /\ ~change[u].expired /\ change[u].attempts > 0 /\ ~change[u].cooling
  /\ change' = [change EXCEPT ![u] = Coded(@.id, @.old, @.new)]
  /\ Issue(change[u].new, u, account[u].email)
  /\ UNCHANGED <<setup, account, invitation, tx>>

(* The digest comes from the selector that is read here: a code that is    *)
(* right by this row, or a wrong one.                                      *)
BeginComplete(t, u) ==
  /\ change[u] # NoChange
  /\ \E presented \in {0, change[u].code} :
       Start(t, Operation("begun", "complete", u, Nobody, change[u].new, change[u].id, presented))

(* Mutant: attempts are counted, but not looked at.                        *)
MayGuessForEver(t) ==
  LET u == tx[t].user IN
  /\ Check(t, "complete") /\ UserFree(u)
  /\ account[u].status = "enabled"
  /\ change[u].id = tx[t].id /\ ~change[u].expired

MayGuess(t) ==
  LET u == tx[t].user IN
  /\ Check(t, "complete") /\ UserFree(u)
  /\ account[u].status = "enabled"
  /\ change[u].id = tx[t].id /\ ~change[u].expired /\ change[u].attempts > 0

(* Mutant: compared with the row that was read before the locks.           *)
RightAsRead(t) == tx[t].digest # 0

Right(t) == change[tx[t].user].code = tx[t].digest

(* A wrong code costs an attempt, and that is committed.                   *)
MissCode(t) ==
  LET u == tx[t].user IN
  /\ MayGuess(t) /\ ~Right(t)
  /\ change' = [change EXCEPT ![u].attempts = @ - 1]
  /\ issued' = [issued EXCEPT ![change[u].code].misses = @ + 1]
  /\ tx' = [tx EXCEPT ![t] = Idle]
  /\ UNCHANGED <<setup, account, invitation>>

MayComplete(t) ==
  LET u == tx[t].user IN
  /\ MayGuess(t) /\ Right(t)
  /\ change[u].old = account[u].email
  /\ \A v \in Users \ {u} : account[v].email # change[u].new
  /\ ~Invited(change[u].new)
  /\ Checked(t)

(* The unique index of auth_users is looked at once more by the write.     *)
CommitComplete(t) ==
  LET u == tx[t].user IN
  /\ Ready(t, "complete")
  /\ \A v \in Users \ {u} : account[v].email # tx[t].address
  /\ account' = [account EXCEPT ![u].email = tx[t].address]
  /\ change' = [change EXCEPT ![u] = NoChange]
  /\ Serve(tx[t].digest)
  /\ tx' = [tx EXCEPT ![t] = Idle]
  /\ UNCHANGED <<setup, invitation>>

-----------------------------------------------------------------------------
(* Invitations *)

BeginInvite(t, a) ==
  /\ setup.complete
  /\ Start(t, Operation("begun", "invite", Nobody, Nobody, a, 0, 0))

(* An invitation that has expired still holds its address.                 *)
MayInvite(t) ==
  /\ Check(t, "invite")
  /\ ~Taken(tx[t].address) /\ ~Invited(tx[t].address)
  /\ Checked(t)

Linked(address) ==
  [status |-> "pending", email |-> address, link |-> NewCode, expired |-> FALSE]

CommitInvite(t) ==
  /\ Ready(t, "invite")
  /\ ~Invited(tx[t].address)
  /\ \E i \in Invitations :
       /\ invitation[i] = NotInvited
       /\ invitation' = [invitation EXCEPT ![i] = Linked(tx[t].address)]
       /\ Issue(tx[t].address, i, NoAddress)
  /\ tx' = [tx EXCEPT ![t] = Idle]
  /\ UNCHANGED <<setup, account, change>>

(* lockInvitationMutationScope reads the address of the invitation.        *)
BeginManage(t, i, operation) ==
  /\ invitation[i].status = "pending"
  /\ Start(t, Operation("begun", operation, Nobody, i, invitation[i].email, 0, 0))

MayManage(t) ==
  /\ tx[t].op \in {"resend", "revoke"} /\ Check(t, tx[t].op)
  /\ invitation[tx[t].invitation].status = "pending"
  /\ Checked(t)

CommitResend(t) ==
  LET i == tx[t].invitation IN
  /\ Ready(t, "resend")
  /\ invitation' = [invitation EXCEPT ![i] = Linked(@.email)]
  /\ Issue(tx[t].address, i, NoAddress)
  /\ tx' = [tx EXCEPT ![t] = Idle]
  /\ UNCHANGED <<setup, account, change>>

Over == [status |-> "over", email |-> NoAddress, link |-> 0, expired |-> FALSE]

CommitRevoke(t) ==
  /\ Ready(t, "revoke")
  /\ invitation' = [invitation EXCEPT ![tx[t].invitation] = Over]
  /\ tx' = [tx EXCEPT ![t] = Idle]
  /\ UNCHANGED <<setup, account, change, issued>>

(* Found by the selector of the link; then the password is hashed.         *)
BeginAccept(t, i) ==
  /\ invitation[i].status = "pending" /\ ~invitation[i].expired
  /\ Start(t, Operation("begun", "accept", Nobody, i, invitation[i].email, 0, invitation[i].link))

MayAccept(t) ==
  LET i == tx[t].invitation IN
  /\ Check(t, "accept")
  /\ invitation[i].status = "pending" /\ ~invitation[i].expired
  /\ invitation[i].link = tx[t].digest
  /\ Checked(t)

CommitAccept(t) ==
  /\ Ready(t, "accept")
  /\ ~Taken(tx[t].address)
  /\ \E u \in Users :
       /\ account[u] = Unborn
       /\ account' = [account EXCEPT ![u] = [status |-> "enabled", email |-> tx[t].address]]
  /\ invitation' = [invitation EXCEPT ![tx[t].invitation] = Over]
  /\ Serve(tx[t].digest)
  /\ tx' = [tx EXCEPT ![t] = Idle]
  /\ UNCHANGED <<setup, change>>

-----------------------------------------------------------------------------
(* Administrators and time *)

(* An open request survives a deactivation; it is only refused.            *)
Deactivate(u) ==
  /\ account[u].status = "enabled" /\ UserFree(u)
  /\ account' = [account EXCEPT ![u].status = "disabled"]
  /\ UNCHANGED <<setup, invitation, change, tx, issued>>

Reactivate(u) ==
  /\ account[u].status = "disabled" /\ UserFree(u)
  /\ account' = [account EXCEPT ![u].status = "enabled"]
  /\ UNCHANGED <<setup, invitation, change, tx, issued>>

(* Mutant: the request outlives its account.                               *)
DeleteUserAlone(u) ==
  /\ Exists(u) /\ UserFree(u)
  /\ \E v \in Users \ {u} : account[v].status = "enabled"
  /\ account' = [account EXCEPT ![u] = [status |-> "deleted", email |-> NoAddress]]
  /\ UNCHANGED <<setup, invitation, change, tx, issued>>

(* ON DELETE CASCADE takes the request.  Somebody has to do it.            *)
DeleteUser(u) ==
  /\ Exists(u) /\ UserFree(u)
  /\ \E v \in Users \ {u} : account[v].status = "enabled"
  /\ account' = [account EXCEPT ![u] = [status |-> "deleted", email |-> NoAddress]]
  /\ change' = [change EXCEPT ![u] = NoChange]
  /\ UNCHANGED <<setup, invitation, tx, issued>>

CooldownPasses(u) ==
  /\ change[u].cooling
  /\ change' = [change EXCEPT ![u].cooling = FALSE]
  /\ UNCHANGED <<setup, account, invitation, tx, issued>>

(* Ten minutes are longer than sixty seconds.                              *)
CodeLapses(u) ==
  /\ change[u] # NoChange /\ ~change[u].cooling /\ ~change[u].expired
  /\ change' = [change EXCEPT ![u].expired = TRUE]
  /\ UNCHANGED <<setup, account, invitation, tx, issued>>

LinkLapses(i) ==
  /\ invitation[i].status = "pending" /\ ~invitation[i].expired
  /\ invitation' = [invitation EXCEPT ![i].expired = TRUE]
  /\ UNCHANGED <<setup, account, change, tx, issued>>

(* (Not the last token within the bound.)                                  *)
TokenLapses ==
  /\ setup.token > 0 /\ ~setup.expired /\ Len(issued) < MaxCodes
  /\ setup' = [setup EXCEPT !.expired = TRUE]
  /\ UNCHANGED <<account, invitation, change, tx, issued>>

(* SweepMail removes requests that have expired and are not locked;        *)
(* invitations stay.                                                       *)
SweepChanges(u) ==
  /\ change[u].expired /\ UserFree(u)
  /\ change' = [change EXCEPT ![u] = NoChange]
  /\ UNCHANGED <<setup, account, invitation, tx, issued>>

-----------------------------------------------------------------------------

EmailChange(t) ==
  \/ \E u \in Users : BeginComplete(t, u) \/ \E a \in Addresses : BeginRequest(t, u, a)
  \/ MayRequest(t) \/ CommitRequest(t)
  \/ MissCode(t) \/ MayComplete(t) \/ CommitComplete(t)

Invite(t) ==
  \/ \E a \in Addresses : BeginInvite(t, a)
  \/ \E i \in Invitations :
       BeginAccept(t, i) \/ \E op \in {"resend", "revoke"} : BeginManage(t, i, op)
  \/ MayInvite(t) \/ CommitInvite(t)
  \/ MayManage(t) \/ CommitResend(t) \/ CommitRevoke(t)
  \/ MayAccept(t) \/ CommitAccept(t)

Next ==
  \/ IssueStartupToken \/ TokenLapses
  \/ \E t \in Transactions :
       \/ Abandon(t)
       \/ CommitSetup(t) \/ \E a \in Addresses : BeginSetup(t, a)
       \/ EmailChange(t)
       \/ Invite(t)
  \/ \E u \in Users :
       \/ ResendEmailChange(u) \/ Deactivate(u) \/ Reactivate(u) \/ DeleteUser(u)
       \/ CooldownPasses(u) \/ CodeLapses(u) \/ SweepChanges(u)
  \/ \E i \in Invitations : LinkLapses(i)

Spec == Init /\ [][Next]_vars

-----------------------------------------------------------------------------
(* Properties *)

(* Types, and what the tables' keys say: a request belongs to an account,  *)
(* an address only to rows that exist.                                     *)
TypeOK ==
  /\ setup \in Setup
  /\ account \in [Users -> Account] /\ invitation \in [Invitations -> Invitation]
  /\ change \in [Users -> Change]
  /\ \A u \in Users :
       /\ Exists(u) <=> account[u].email # NoAddress
       /\ change[u] # NoChange => Exists(u)
  /\ \A i \in Invitations : invitation[i].status = "pending" <=> invitation[i].email # NoAddress
  /\ \A t \in Transactions : tx[t].at \in {"idle", "hashing", "begun", "checked"}

(* Who an address belongs to, in the words of AddressBook.                 *)
Holders(a) == {u \in Users : account[u].email = a} \cup {i \in Invitations : invitation[i].email = a}

Holder(a) ==
  CASE Holders(a) = {} -> Nobody
    [] Cardinality(Holders(a)) = 1 -> CHOOSE p \in Holders(a) : TRUE
    [] OTHER -> "several"

AddressSpace == INSTANCE AddressBook WITH
  holder <- [a \in Addresses |-> Holder(a)], founded <- setup.complete

(* "Serialize this email across both tables so a concurrent invitation and *)
(* activation cannot commit an active account alongside a pending          *)
(* invitation for the same canonical address": every address has at most   *)
(* one holder, is handed on in one step, and one account only is founded   *)
(* without an invitation.                                                  *)
ImplementsAddressBook == AddressSpace!BookSpec

(* An account comes to an address only by a code that was sent there (or   *)
(* printed, for the first account), for this account's change from the     *)
(* address it has now or for an invitation that ends with it; the code was *)
(* never used and is the last one made for that purpose.                   *)
Confirms(n, u) ==
  /\ issued[n].serves = 0 /\ issued'[n].serves = 1
  /\ issued[n].to \in {account'[u].email, Console}
  /\ \A m \in (n + 1)..Len(issued) : issued[m].by # issued[n].by
  /\ issued[n].from = account[u].email
  /\ \/ issued[n].by = u
     \/ issued[n].by = Console /\ ~setup.complete
     \/ issued[n].by \in Invitations /\ invitation'[issued[n].by] = Over

AddressesAreConfirmed ==
  [][\A u \in Users :
       account'[u].email \notin {account[u].email, NoAddress}
         => \E n \in DOMAIN issued : Confirms(n, u)]_vars

(* A code stands so many guesses and no more, through resends, new         *)
(* requests and guesses at the same time, and one that was guessed at that *)
(* often never serves.                                                     *)
CodesWearOut ==
  \A n \in DOMAIN issued :
    issued[n].misses <= MaxAttempts /\ (issued[n].misses = MaxAttempts => issued[n].serves = 0)
=============================================================================
