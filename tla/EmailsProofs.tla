---------------------------- MODULE EmailsProofs ----------------------------
(***************************************************************************)
(* Proofs about Emails, for any accounts, invitations, addresses and       *)
(* transactions: the tables implement AddressBook, and codes confirm.      *)
(*                                                                         *)
(* The argument: whoever gives an address away holds its lock from the     *)
(* checks to the commit (LocksExclude), so what was checked about the      *)
(* address still holds then (Prepared).  Codes are numbered in the order   *)
(* they are made, so that the one a row refers to is the last one of its   *)
(* purpose (ChangeKnown, LinkKnown, TokenKnown), and attempts and misses   *)
(* of a code add up.                                                       *)
(***************************************************************************)
EXTENDS Emails, FiniteSetTheorems, TLAPS

Transaction ==
  [at : {"idle", "hashing", "begun", "checked"},
   op : {"none", "setup", "request", "complete", "invite", "resend", "revoke", "accept"},
   user : Users \cup {Nobody}, invitation : Invitations \cup {Nobody},
   address : Addresses \cup {NoAddress}, id : Code, digest : Code]

Letter ==
  [to : Addresses \cup {Console}, by : Users \cup Invitations \cup {Console},
   from : Addresses \cup {NoAddress}, misses : Nat, serves : Nat]

Types ==
  /\ setup \in Setup
  /\ account \in [Users -> Account] /\ invitation \in [Invitations -> Invitation]
  /\ change \in [Users -> Change]
  /\ tx \in [Transactions -> Transaction]
  /\ issued \in Seq(Letter) /\ Len(issued) <= MaxCodes
  /\ \A u \in Users : Exists(u) <=> account[u].email # NoAddress
  /\ \A i \in Invitations : invitation[i].status = "pending" <=> invitation[i].email # NoAddress

(* No address is in two rows.                                              *)
Distinct ==
  /\ \A u, v \in Users : account[u].email = account[v].email => u = v \/ account[u].email = NoAddress
  /\ \A i, j \in Invitations :
       invitation[i].email = invitation[j].email => i = j \/ invitation[i].email = NoAddress
  /\ \A u \in Users : \A i \in Invitations :
       account[u].email = invitation[i].email => account[u].email = NoAddress

(* Before the setup there is nothing, and nothing else goes on.            *)
Founding ==
  ~setup.complete =>
    /\ \A u \in Users : account[u].email = NoAddress
    /\ \A i \in Invitations : invitation[i].email = NoAddress
    /\ \A t \in Transactions : tx[t].op \in {"none", "setup"}

LocksExclude ==
  \A s, t \in Transactions :
    s # t /\ tx[s].at = "checked" /\ tx[t].at = "checked" =>
      tx[s].address # tx[t].address /\ (tx[s].user # tx[t].user \/ tx[s].user = Nobody)

OnAccount == {"request", "complete"}
OnInvitation == {"resend", "revoke", "accept"}

(* The arguments of a transaction, and what it read before the locks.      *)
Armed(t) ==
  /\ tx[t].at = "idle" <=> tx[t].op = "none"
  /\ tx[t].at = "hashing" <=> tx[t].op = "setup"
  /\ tx[t].op # "none" => tx[t].address \in Addresses
  /\ tx[t].op = "setup" => tx[t].digest > 0
  /\ IF tx[t].op \in OnAccount THEN tx[t].user \in Users ELSE tx[t].user = Nobody
  /\ tx[t].op \in OnInvitation =>
       /\ tx[t].invitation \in Invitations
       /\ invitation[tx[t].invitation].status # "unborn"
       /\ invitation[tx[t].invitation].status = "pending" =>
            invitation[tx[t].invitation].email = tx[t].address
  /\ tx[t].op = "complete" =>
       /\ tx[t].id \in 1..Len(issued)
       /\ change[tx[t].user].id = tx[t].id => change[tx[t].user].new = tx[t].address

(* What a transaction has checked under its locks.                         *)
Prepared(t) ==
  tx[t].at = "checked" =>
    /\ tx[t].op \in {"request", "complete", "invite"} => ~Invited(tx[t].address)
    /\ tx[t].op \in {"request", "invite"} => ~Taken(tx[t].address)
    /\ tx[t].op \in OnAccount => account[tx[t].user].status = "enabled"
    /\ tx[t].op = "complete" =>
         /\ change[tx[t].user].id = tx[t].id
         /\ change[tx[t].user].code = tx[t].digest
         /\ change[tx[t].user].attempts > 0
    /\ tx[t].op \in OnInvitation => invitation[tx[t].invitation].status = "pending"
    /\ tx[t].op = "accept" => invitation[tx[t].invitation].link = tx[t].digest

(* The last code made for somebody, and not used.                          *)
Last(n, by) ==
  /\ n \in 1..Len(issued)
  /\ issued[n].by = by /\ issued[n].serves = 0
  /\ \A m \in (n + 1)..Len(issued) : issued[m].by # by

ChangeKnown(u) ==
  /\ change[u].id = 0 => change[u] = NoChange
  /\ change[u].id > 0 =>
       /\ Exists(u) /\ change[u].old = account[u].email /\ change[u].new \in Addresses
       /\ change[u].id <= Len(issued)
       /\ Last(change[u].code, u)
       /\ issued[change[u].code].to = change[u].new
       /\ issued[change[u].code].from = account[u].email
       /\ issued[change[u].code].misses + change[u].attempts = MaxAttempts

LinkKnown(i) ==
  invitation[i].status = "pending" =>
    /\ Last(invitation[i].link, i)
    /\ issued[invitation[i].link].to = invitation[i].email
    /\ issued[invitation[i].link].from = NoAddress

TokenKnown ==
  setup.token > 0 =>
    /\ ~setup.complete /\ Last(setup.token, Console)
    /\ issued[setup.token].to = Console /\ issued[setup.token].from = NoAddress

(* Only codes of accounts are guessed at.                                  *)
Guessed == \A n \in 1..Len(issued) : issued[n].by \notin Users => issued[n].misses = 0

IInv ==
  /\ Types /\ Distinct /\ Founding /\ LocksExclude
  /\ \A t \in Transactions : Armed(t) /\ Prepared(t)
  /\ \A u \in Users : ChangeKnown(u)
  /\ \A i \in Invitations : LinkKnown(i)
  /\ TokenKnown /\ Guessed /\ CodesWearOut

-----------------------------------------------------------------------------
(* Codes *)

LEMMA InitIInv == Init => IInv
<1> SUFFICES ASSUME Init PROVE IInv
  OBVIOUS
<1>1. Types
  BY EmailsAssumption
  DEF Init, Types, Setup, Account, Invitation, Change, Transaction, Code, Unborn, NotInvited,
      NoChange, Idle, Operation, Exists
<1>2. Distinct /\ Founding /\ LocksExclude
  BY DEF Init, Distinct, Founding, LocksExclude, Unborn, NotInvited, Idle, Operation
<1>3. \A t \in Transactions : Armed(t) /\ Prepared(t)
  BY DEF Init, Armed, Prepared, Idle, Operation, OnAccount, OnInvitation
<1>4. \A u \in Users : ChangeKnown(u)
  BY DEF Init, ChangeKnown, NoChange
<1>5. (\A i \in Invitations : LinkKnown(i)) /\ TokenKnown
  BY DEF Init, LinkKnown, TokenKnown, NotInvited
<1>6. Guessed /\ CodesWearOut
  BY DEF Init, Guessed, CodesWearOut
<1> QED
  BY <1>1, <1>2, <1>3, <1>4, <1>5, <1>6 DEF IInv

(* A new code leaves the others as they are, and is the last of its kind.  *)
LEMMA IssueMakesOne ==
  ASSUME IInv, NEW to \in Addresses \cup {Console}, NEW by \in Users \cup Invitations \cup {Console},
         NEW from \in Addresses \cup {NoAddress}, Issue(to, by, from)
  PROVE  /\ issued' \in Seq(Letter) /\ Len(issued') = NewCode /\ NewCode <= MaxCodes
         /\ NewCode \in 1..MaxCodes
         /\ \A n \in 1..Len(issued) : issued'[n] = issued[n]
         /\ issued'[NewCode] = [to |-> to, by |-> by, from |-> from, misses |-> 0, serves |-> 0]
         /\ \A k : k = NewCode => Last(k, by)'
         /\ \A n, other : Last(n, other) /\ other # by => Last(n, other)'
         /\ Guessed' /\ CodesWearOut'
<1> DEFINE letter == [to |-> to, by |-> by, from |-> from, misses |-> 0, serves |-> 0]
<1>1. letter \in Letter /\ issued \in Seq(Letter) /\ Len(issued) \in Nat /\ Len(issued) < MaxCodes
  BY DEF Letter, Issue, IInv, Types
<1>2. issued' = Append(issued, letter)
  BY DEF Issue
<1>3. /\ issued' \in Seq(Letter) /\ Len(issued') = Len(issued) + 1
      /\ \A n \in 1..Len(issued) : issued'[n] = issued[n]
      /\ issued'[Len(issued) + 1] = letter
  BY <1>1, <1>2
<1>4. NewCode \in 1..MaxCodes
  BY <1>1, EmailsAssumption DEF NewCode
<1>5. \A k : k = NewCode => Last(k, by)'
  BY <1>1, <1>3 DEF Last, NewCode
<1>6. ASSUME NEW n, NEW other, Last(n, other), other # by PROVE Last(n, other)'
  <2>1. n \in 1..Len(issued) /\ n \in 1..Len(issued')
    BY <1>1, <1>3, <1>6 DEF Last
  <2>2. ASSUME NEW m \in (n + 1)..Len(issued') PROVE issued'[m].by # other
    BY <1>1, <1>3, <1>6, <2>1, <2>2 DEF Last
  <2> QED
    BY <1>3, <1>6, <2>1, <2>2 DEF Last
<1>7. Guessed'
  BY <1>1, <1>3 DEF Guessed, IInv
<1>8. CodesWearOut'
  <2>1. DOMAIN issued' = 1..(Len(issued) + 1) /\ DOMAIN issued = 1..Len(issued)
    BY <1>1, <1>3
  <2> QED
    BY <1>1, <1>3, <2>1, EmailsAssumption DEF CodesWearOut, IInv
<1> QED
  BY <1>1, <1>3, <1>4, <1>5, <1>6, <1>7, <1>8 DEF NewCode

(* Using a code up is nobody else's loss.                                  *)
LEMMA ServeUsesOne ==
  ASSUME IInv, NEW n \in 1..Len(issued), Serve(n), issued[n].misses < MaxAttempts
  PROVE  /\ issued' \in Seq(Letter) /\ Len(issued') = Len(issued)
         /\ \A m \in 1..Len(issued) :
              /\ m # n => issued'[m] = issued[m]
              /\ issued'[m].to = issued[m].to /\ issued'[m].by = issued[m].by
              /\ issued'[m].from = issued[m].from /\ issued'[m].misses = issued[m].misses
         /\ issued'[n].serves = issued[n].serves + 1
         /\ \A m, by : Last(m, by) /\ m # n => Last(m, by)'
         /\ Guessed' /\ CodesWearOut'
<1>1. issued \in Seq(Letter) /\ issued[n] \in Letter /\ Len(issued) \in Nat
  BY DEF IInv, Types
<1>3. issued' = [issued EXCEPT ![n].serves = @ + 1]
  BY DEF Serve
<1>4. issued' \in Seq(Letter) /\ Len(issued') = Len(issued)
  <2>1. issued \in [1..Len(issued) -> Letter]
    BY <1>1
  <2> DEFINE served == [to |-> issued[n].to, by |-> issued[n].by, from |-> issued[n].from,
                        misses |-> issued[n].misses, serves |-> issued[n].serves + 1]
  <2>3. served \in Letter
    BY <1>1 DEF Letter
  <2>4. [issued[n] EXCEPT !.serves = issued[n].serves + 1] = served
    BY <1>1 DEF Letter
  <2>5. issued' = [issued EXCEPT ![n] = served]
    BY <1>3, <2>4
  <2>2. issued' \in [1..Len(issued) -> Letter]
    BY <2>1, <2>3, <2>5
  <2> QED
    BY <1>1, <2>2
<1>5. \A m \in 1..Len(issued) : m # n => issued'[m] = issued[m]
  BY <1>1, <1>3
<1>6. issued'[n] = [issued[n] EXCEPT !.serves = @ + 1]
  BY <1>1, <1>3 DEF Letter
<1>7. \A m \in 1..Len(issued) :
        /\ issued'[m].to = issued[m].to /\ issued'[m].by = issued[m].by
        /\ issued'[m].from = issued[m].from /\ issued'[m].misses = issued[m].misses
  BY <1>1, <1>5, <1>6 DEF Letter
<1>8. issued'[n].serves = issued[n].serves + 1
  BY <1>1, <1>6 DEF Letter
<1>9. \A m, by : Last(m, by) /\ m # n => Last(m, by)'
  BY <1>1, <1>4, <1>5, <1>7 DEF Last
<1>10. Guessed'
  BY <1>4, <1>7 DEF Guessed, IInv
<1>11. CodesWearOut'
  <2>1. DOMAIN issued' = 1..Len(issued) /\ DOMAIN issued = 1..Len(issued)
    BY <1>1, <1>4
  <2> QED
    BY <1>1, <1>5, <1>7, <2>1, EmailsAssumption DEF CodesWearOut, IInv, Letter
<1> QED
  BY <1>4, <1>5, <1>7, <1>8, <1>9, <1>10, <1>11

-----------------------------------------------------------------------------
(* Steps of a transaction that write nothing *)

LEMMA TransactionKeeps ==
  ASSUME IInv, NEW t \in Transactions, NEW next \in Transaction, tx' = [tx EXCEPT ![t] = next],
         UNCHANGED <<setup, account, invitation, change, issued>>,
         ~setup.complete => next.op \in {"none", "setup"},
         LocksExclude', Armed(t)', Prepared(t)'
  PROVE  IInv'
<1>1. tx' \in [Transactions -> Transaction] /\ \A s \in Transactions : s # t => tx'[s] = tx[s]
  BY DEF IInv, Types
<1>2. tx'[t] = next
  BY DEF IInv, Types
<1>3. Types'
  BY <1>1 DEF IInv, Types, Exists
<1>4. Distinct' /\ Founding'
  BY <1>1, <1>2 DEF IInv, Distinct, Founding
<1>5. \A s \in Transactions : Armed(s)' /\ Prepared(s)'
  BY <1>1 DEF IInv, Armed, Prepared, Taken, Invited
<1>6. \A u \in Users : ChangeKnown(u)'
  BY DEF IInv, ChangeKnown, Last, Exists
<1>7. (\A i \in Invitations : LinkKnown(i)') /\ TokenKnown'
  BY DEF IInv, LinkKnown, TokenKnown, Last
<1>8. Guessed' /\ CodesWearOut'
  BY DEF IInv, Guessed, CodesWearOut
<1> QED
  BY <1>3, <1>4, <1>5, <1>6, <1>7, <1>8 DEF IInv

(* A transaction that starts holds no lock yet.                            *)
LEMMA StartKeeps ==
  ASSUME IInv, NEW t \in Transactions, NEW next \in Transaction, tx' = [tx EXCEPT ![t] = next],
         UNCHANGED <<setup, account, invitation, change, issued>>,
         ~setup.complete => next.op \in {"none", "setup"},
         next.at # "checked", Armed(t)'
  PROVE  IInv'
<1>1. tx'[t] = next /\ \A s \in Transactions : s # t => tx'[s] = tx[s]
  BY DEF IInv, Types
<1>2. LocksExclude'
  BY <1>1 DEF IInv, LocksExclude
<1>3. Prepared(t)'
  BY <1>1 DEF Prepared
<1> QED
  BY <1>2, <1>3, TransactionKeeps

LEMMA IdleIsTyped == Idle \in Transaction
  BY EmailsAssumption DEF Idle, Operation, Transaction, Code

LEMMA AbandonKeeps ==
  ASSUME IInv, NEW t \in Transactions, Abandon(t)
  PROVE  IInv'
<1>1. tx' = [tx EXCEPT ![t] = Idle] /\ UNCHANGED <<setup, account, invitation, change, issued>>
  BY DEF Abandon
<1>2. tx'[t] = Idle
  BY <1>1 DEF IInv, Types
<1>3. Armed(t)'
  BY <1>2 DEF Armed, Idle, Operation, OnAccount, OnInvitation
<1>4. Idle.at # "checked" /\ Idle.op = "none"
  BY DEF Idle, Operation
<1> QED
  BY <1>1, <1>3, <1>4, IdleIsTyped, StartKeeps

LEMMA OperationKeeps ==
  ASSUME IInv, NEW t \in Transactions,
         UNCHANGED <<setup, account, invitation, change, issued>>,
         NEW at \in {"hashing", "begun"},
         NEW op \in {"setup", "request", "complete", "invite", "resend", "revoke", "accept"},
         NEW who \in Users \cup {Nobody}, NEW which \in Invitations \cup {Nobody},
         NEW address \in Addresses, NEW id \in Code, NEW digest \in Code,
         tx' = [tx EXCEPT ![t] = Operation(at, op, who, which, address, id, digest)],
         at = "hashing" <=> op = "setup",
         op = "setup" => digest > 0,
         op # "setup" => setup.complete,
         IF op \in OnAccount THEN who \in Users ELSE who = Nobody,
         op \in OnInvitation =>
           /\ which \in Invitations
           /\ invitation[which].status # "unborn" /\ invitation[which].email = address,
         op = "complete" =>
           id \in 1..Len(issued) /\ (change[who].id = id => change[who].new = address)
  PROVE  IInv'
<1> DEFINE next == Operation(at, op, who, which, address, id, digest)
<1>1. next \in Transaction
  BY DEF Operation, Transaction
<1>2. tx'[t] = next
  BY DEF IInv, Types
<1>3. Armed(t)'
  BY <1>2 DEF Operation, Armed, OnAccount, OnInvitation
<1>4. next.at # "checked" /\ (~setup.complete => next.op \in {"none", "setup"})
  BY DEF Operation
<1> QED
  BY <1>1, <1>3, <1>4, StartKeeps

LEMMA BeginsKeep ==
  ASSUME IInv, NEW t \in Transactions,
         \/ \E a \in Addresses : BeginSetup(t, a) \/ BeginInvite(t, a)
         \/ \E u \in Users : BeginComplete(t, u) \/ \E a \in Addresses : BeginRequest(t, u, a)
         \/ \E i \in Invitations :
              BeginAccept(t, i) \/ \E op \in {"resend", "revoke"} : BeginManage(t, i, op)
  PROVE  IInv'
<1>u. UNCHANGED <<setup, account, invitation, change, issued>>
  BY DEF BeginSetup, BeginInvite, BeginComplete, BeginRequest, BeginAccept, BeginManage, Start
<1>0. 0 \in Code
  BY EmailsAssumption DEF Code
<1>1. ASSUME NEW a \in Addresses, BeginSetup(t, a) PROVE IInv'
  <2>1. tx' = [tx EXCEPT ![t] = Operation("hashing", "setup", Nobody, Nobody, a, 0, setup.token)]
    BY <1>1 DEF BeginSetup, Start
  <2>2. setup.token \in Code /\ setup.token > 0
    BY <1>1 DEF BeginSetup, IInv, Types, Setup
  <2> QED
    BY <1>u, <1>0, <2>1, <2>2, OperationKeeps DEF OnAccount, OnInvitation
<1>2. ASSUME NEW a \in Addresses, BeginInvite(t, a) PROVE IInv'
  <2>1. tx' = [tx EXCEPT ![t] = Operation("begun", "invite", Nobody, Nobody, a, 0, 0)] /\ setup.complete
    BY <1>2 DEF BeginInvite, Start
  <2> QED
    BY <1>u, <1>0, <2>1, OperationKeeps DEF OnAccount, OnInvitation
<1>3. ASSUME NEW u \in Users, NEW a \in Addresses, BeginRequest(t, u, a) PROVE IInv'
  <2>1. tx' = [tx EXCEPT ![t] = Operation("begun", "request", u, Nobody, a, 0, 0)]
    BY <1>3 DEF BeginRequest, Start
  <2>2. setup.complete
    BY <1>3 DEF BeginRequest, IInv, Founding, Types, Exists
  <2> QED
    BY <1>u, <1>0, <2>1, <2>2, OperationKeeps DEF OnAccount, OnInvitation
<1>4. ASSUME NEW u \in Users, BeginComplete(t, u) PROVE IInv'
  <2>1. PICK presented \in {0, change[u].code} :
          tx' = [tx EXCEPT ![t] = Operation("begun", "complete", u, Nobody, change[u].new,
                                         change[u].id, presented)]
    BY <1>4 DEF BeginComplete, Start
  <2>2. change[u] \in Change /\ change[u].id # 0 /\ ChangeKnown(u)
    BY <1>4 DEF BeginComplete, IInv, Types, ChangeKnown
  <2>3. change[u].id \in 1..Len(issued) /\ change[u].id \in Code /\ presented \in Code
    BY <1>0, <2>2 DEF ChangeKnown, Change, Code
  <2>4. change[u].new \in Addresses /\ setup.complete
    BY <2>2, <2>3 DEF ChangeKnown, IInv, Founding, Types
  <2> QED
    BY <1>u, <2>1, <2>3, <2>4, OperationKeeps DEF OnAccount, OnInvitation
<1>5. ASSUME NEW i \in Invitations, NEW op \in {"resend", "revoke"}, BeginManage(t, i, op) PROVE IInv'
  <2>1. tx' = [tx EXCEPT ![t] = Operation("begun", op, Nobody, i, invitation[i].email, 0, 0)]
    BY <1>5 DEF BeginManage, Start
  <2>2. /\ invitation[i].status = "pending" /\ invitation[i].email \in Addresses
        /\ setup.complete
    BY <1>5 DEF BeginManage, IInv, Types, Invitation, Founding
  <2> QED
    BY <1>u, <1>0, <2>1, <2>2, OperationKeeps DEF OnAccount, OnInvitation
<1>6. ASSUME NEW i \in Invitations, BeginAccept(t, i) PROVE IInv'
  <2>1. tx' = [tx EXCEPT ![t] = Operation("begun", "accept", Nobody, i, invitation[i].email, 0,
                                       invitation[i].link)]
    BY <1>6 DEF BeginAccept, Start
  <2>2. /\ invitation[i].status = "pending" /\ invitation[i].email \in Addresses
        /\ invitation[i].link \in Code /\ setup.complete
    BY <1>6 DEF BeginAccept, IInv, Types, Invitation, Founding
  <2> QED
    BY <1>u, <1>0, <2>1, <2>2, OperationKeeps DEF OnAccount, OnInvitation
<1> QED
  BY <1>1, <1>2, <1>3, <1>4, <1>5, <1>6

(* The locks of an address and of an account exclude others from them.     *)
LEMMA CheckedKeeps ==
  ASSUME IInv, NEW t \in Transactions, Checked(t), tx[t].at = "begun", AddressFree(tx[t].address),
         tx[t].op \in OnAccount => UserFree(tx[t].user),
         Prepared(t)'
  PROVE  IInv'
<1>1. tx' = [tx EXCEPT ![t].at = "checked"] /\ UNCHANGED <<setup, account, invitation, change, issued>>
  BY DEF Checked
<1>2. tx[t] \in Transaction
  BY DEF IInv, Types
<1> DEFINE next == [tx[t] EXCEPT !.at = "checked"]
<1>3. next \in Transaction
  BY <1>2 DEF Transaction
<1>4. tx' = [tx EXCEPT ![t] = next]
  BY <1>1
<1>5. /\ tx'[t].at = "checked" /\ tx'[t].op = tx[t].op /\ tx'[t].user = tx[t].user
      /\ tx'[t].invitation = tx[t].invitation /\ tx'[t].address = tx[t].address
      /\ tx'[t].id = tx[t].id /\ tx'[t].digest = tx[t].digest
      /\ \A s \in Transactions : s # t => tx'[s] = tx[s]
  BY <1>1, <1>2 DEF IInv, Types, Transaction
<1>6. next.op = tx[t].op
  BY <1>2 DEF Transaction
<1>7. LocksExclude'
  <2>1. \A s \in Transactions : tx[s].at = "checked" =>
          tx[s].address # tx[t].address /\ (tx[s].user # tx[t].user \/ tx[t].user = Nobody)
    BY DEF AddressFree, UserFree, IInv, Armed
  <2>2. \A s, r \in Transactions :
          s # r /\ tx[s].at = "checked" /\ tx[r].at = "checked" =>
            tx[s].address # tx[r].address /\ (tx[s].user # tx[r].user \/ tx[s].user = Nobody)
    BY DEF IInv, LocksExclude
  <2> QED
    BY <1>5, <2>1, <2>2 DEF LocksExclude
<1>8. Armed(t)'
  <2>1. Armed(t)
    BY DEF IInv
  <2> QED
    BY <1>1, <1>5, <2>1 DEF Armed
<1>9. ~setup.complete => next.op \in {"none", "setup"}
  BY <1>6 DEF IInv, Founding
<1> QED
  BY <1>1, <1>3, <1>4, <1>7, <1>8, <1>9, TransactionKeeps

LEMMA ChecksKeep ==
  ASSUME IInv, NEW t \in Transactions,
         MayRequest(t) \/ MayComplete(t) \/ MayInvite(t) \/ MayManage(t) \/ MayAccept(t)
  PROVE  IInv'
<1>1. Checked(t) /\ tx[t].at = "begun" /\ AddressFree(tx[t].address)
  BY DEF MayRequest, MayComplete, MayGuess, MayInvite, MayManage, MayAccept, Check
<1>2. tx[t].op \in OnAccount => UserFree(tx[t].user)
  BY DEF MayRequest, MayComplete, MayGuess, MayInvite, MayManage, MayAccept, Check, OnAccount
<1>3. /\ tx'[t].op = tx[t].op /\ tx'[t].user = tx[t].user
      /\ tx'[t].invitation = tx[t].invitation /\ tx'[t].address = tx[t].address
      /\ tx'[t].id = tx[t].id /\ tx'[t].digest = tx[t].digest
      /\ UNCHANGED <<account, invitation, change>>
  BY <1>1 DEF Checked, IInv, Types, Transaction
<1>4. Armed(t)
  BY DEF IInv
<1>5. Prepared(t)'
  <2>1. CASE MayRequest(t)
    BY <1>3, <2>1 DEF MayRequest, Check, Prepared, Taken, Invited, OnInvitation
  <2>2. CASE MayComplete(t)
    BY <1>3, <1>4, <2>2
    DEF Armed, MayComplete, MayGuess, Right, Check, Prepared, Invited, OnInvitation
  <2>3. CASE MayInvite(t)
    BY <1>3, <2>3 DEF MayInvite, Check, Prepared, Taken, Invited, OnAccount, OnInvitation
  <2>4. CASE MayManage(t)
    BY <1>3, <2>4 DEF MayManage, Check, Prepared, OnAccount
  <2>5. CASE MayAccept(t)
    BY <1>3, <2>5 DEF MayAccept, Check, Prepared, OnAccount
  <2> QED
    BY <2>1, <2>2, <2>3, <2>4, <2>5
<1> QED
  BY <1>1, <1>2, <1>5, CheckedKeeps

-----------------------------------------------------------------------------
(* Steps that write *)

(* A transaction that ends lets go of its locks.                           *)
LEMMA EndsKeepLocks ==
  ASSUME IInv, NEW t \in Transactions, tx' = [tx EXCEPT ![t] = Idle]
  PROVE  /\ tx' \in [Transactions -> Transaction] /\ tx'[t] = Idle
         /\ \A s \in Transactions : s # t => tx'[s] = tx[s]
         /\ \A s \in Transactions : tx'[s].op # "none" => s # t
         /\ LocksExclude' /\ Armed(t)' /\ Prepared(t)'
<1>1. /\ tx' \in [Transactions -> Transaction] /\ tx'[t] = Idle
      /\ \A s \in Transactions : s # t => tx'[s] = tx[s]
  BY IdleIsTyped DEF IInv, Types
<1>2. Idle.at = "idle" /\ Idle.op = "none" /\ Idle.user = Nobody
  BY DEF Idle, Operation
<1>3. LocksExclude'
  BY <1>1, <1>2 DEF IInv, LocksExclude
<1>4. Armed(t)' /\ Prepared(t)'
  BY <1>1, <1>2 DEF Armed, Prepared, OnAccount, OnInvitation
<1> QED
  BY <1>1, <1>2, <1>3, <1>4

(* What is on record about codes stays true of rows that do not change,    *)
(* when a code is made for somebody else ...                               *)
LEMMA IssueSparesOthers ==
  ASSUME IInv, NEW to \in Addresses \cup {Console}, NEW by \in Users \cup Invitations \cup {Console},
         NEW from \in Addresses \cup {NoAddress}, Issue(to, by, from)
  PROVE  /\ \A u \in Users : u # by /\ change'[u] = change[u] /\ account'[u] = account[u]
              => ChangeKnown(u)'
         /\ \A i \in Invitations : i # by /\ invitation'[i] = invitation[i] => LinkKnown(i)'
         /\ by # Console /\ setup' = setup => TokenKnown'
<1>1. /\ Len(issued') = Len(issued) + 1 /\ Len(issued) \in Nat
      /\ \A n \in 1..Len(issued) : issued'[n] = issued[n]
      /\ \A n, other : Last(n, other) /\ other # by => Last(n, other)'
  <2>1. Len(issued) \in Nat
    BY DEF IInv, Types
  <2> QED
    BY <2>1, IssueMakesOne DEF NewCode
<1>2. ASSUME NEW u \in Users, u # by, change'[u] = change[u], account'[u] = account[u]
      PROVE  ChangeKnown(u)'
  <2>1. change[u] \in Change /\ ChangeKnown(u)
    BY DEF IInv, Types
  <2>2. change[u].id > 0 => Last(change[u].code, u)'
    BY <1>1, <1>2, <2>1 DEF ChangeKnown
  <2>3. change[u].id > 0 => change[u].code \in 1..Len(issued)
    BY <2>1 DEF ChangeKnown, Last
  <2> QED
    BY <1>1, <1>2, <2>1, <2>2, <2>3 DEF ChangeKnown, Exists, Change, Code
<1>3. ASSUME NEW i \in Invitations, i # by, invitation'[i] = invitation[i] PROVE LinkKnown(i)'
  <2>1. LinkKnown(i)
    BY DEF IInv
  <2> QED
    BY <1>1, <1>3, <2>1 DEF LinkKnown, Last
<1>4. ASSUME by # Console, setup' = setup PROVE TokenKnown'
  BY <1>1, <1>4 DEF IInv, TokenKnown, Last
<1> QED
  BY <1>2, <1>3, <1>4

(* ... or somebody else's is used.                                         *)
LEMMA ServeSparesOthers ==
  ASSUME IInv, NEW n \in 1..Len(issued), Serve(n), issued[n].misses < MaxAttempts
  PROVE  /\ \A u \in Users : u # issued[n].by /\ change'[u] = change[u] /\ account'[u] = account[u]
              => ChangeKnown(u)'
         /\ \A i \in Invitations : i # issued[n].by /\ invitation'[i] = invitation[i] => LinkKnown(i)'
         /\ issued[n].by # Console /\ setup' = setup => TokenKnown'
<1>1. /\ Len(issued') = Len(issued)
      /\ \A m \in 1..Len(issued) : m # n => issued'[m] = issued[m]
      /\ \A m, by : Last(m, by) /\ m # n => Last(m, by)'
  BY ServeUsesOne
<1>2. ASSUME NEW u \in Users, u # issued[n].by, change'[u] = change[u], account'[u] = account[u]
      PROVE  ChangeKnown(u)'
  <2>1. ChangeKnown(u)
    BY DEF IInv
  <2>2. change[u].id > 0 => Last(change[u].code, u) /\ change[u].code # n
    BY <1>2, <2>1 DEF ChangeKnown, Last
  <2>4. \A k : k = change[u].code /\ change[u].id > 0 => Last(k, u)'
    BY <1>1, <2>2
  <2>3. change[u].id > 0 => Last(change[u].code, u)' /\ change[u].code \in 1..Len(issued)
    BY <1>2, <2>2, <2>4 DEF Last
  <2> QED
    BY <1>1, <1>2, <2>1, <2>2, <2>3 DEF ChangeKnown, Exists
<1>3. ASSUME NEW i \in Invitations, i # issued[n].by, invitation'[i] = invitation[i]
      PROVE  LinkKnown(i)'
  <2>1. LinkKnown(i)
    BY DEF IInv
  <2> QED
    BY <1>1, <1>3, <2>1 DEF LinkKnown, Last
<1>4. ASSUME issued[n].by # Console, setup' = setup PROVE TokenKnown'
  BY <1>1, <1>4 DEF IInv, TokenKnown, Last
<1> QED
  BY <1>2, <1>3, <1>4

(* An invitation or a change somebody works on is the same, or, as long as *)
(* it is not locked, is over, replaced or has another code.                *)
InvitationStands(s) ==
  LET i == tx[s].invitation IN
  \/ invitation'[i] = invitation[i]
  \/ /\ tx[s].at # "checked"
     /\ invitation'[i].status # "unborn"
     /\ invitation'[i].status = "pending" =>
          invitation[i].status = "pending" /\ invitation'[i].email = invitation[i].email

ChangeStands(s) ==
  LET u == tx[s].user IN
  \/ change'[u] = change[u]
  \/ /\ tx[s].at # "checked"
     /\ \/ change'[u].id # tx[s].id
        \/ change'[u].id = change[u].id /\ change'[u].new = change[u].new

(* Other transactions know no more than the tables and the length of what  *)
(* was issued: they stand as long as what they rely on does.               *)
LEMMA OthersStand ==
  ASSUME IInv, NEW s \in Transactions, tx'[s] = tx[s],
         Len(issued) <= Len(issued'), Len(issued') \in Nat,
         tx[s].op \in OnInvitation => InvitationStands(s),
         tx[s].op = "complete" => ChangeStands(s),
         tx[s].at = "checked" /\ tx[s].op \in OnAccount =>
            account'[tx[s].user].status = account[tx[s].user].status,
         tx[s].at = "checked" /\ Taken(tx[s].address)' => Taken(tx[s].address),
         tx[s].at = "checked" /\ Invited(tx[s].address)' => Invited(tx[s].address)
  PROVE  Armed(s)' /\ Prepared(s)'
<1>1. Armed(s) /\ Prepared(s) /\ Len(issued) \in Nat
  BY DEF IInv, Types
<1>2. Armed(s)'
  BY <1>1 DEF Armed, InvitationStands, ChangeStands
<1>3. Prepared(s)'
  BY <1>1 DEF Prepared, Armed, InvitationStands, ChangeStands, OnAccount, OnInvitation
<1> QED
  BY <1>2, <1>3

LEMMA IssueStartupTokenKeeps ==
  ASSUME IInv, IssueStartupToken
  PROVE  IInv'
<1>1. /\ ~setup.complete /\ setup' = [complete |-> FALSE, token |-> NewCode, expired |-> FALSE]
      /\ Issue(Console, Console, NoAddress)
      /\ UNCHANGED <<account, invitation, change, tx>>
  BY DEF IssueStartupToken
<1>2. /\ issued' \in Seq(Letter) /\ Len(issued') = NewCode /\ NewCode \in 1..MaxCodes
      /\ issued'[NewCode] =
           [to |-> Console, by |-> Console, from |-> NoAddress, misses |-> 0, serves |-> 0]
      /\ \A k : k = NewCode => Last(k, Console)'
      /\ Guessed' /\ CodesWearOut'
  BY <1>1, IssueMakesOne
<1>3. /\ setup' \in Setup /\ setup'.token = NewCode /\ ~setup'.complete
  BY <1>1, <1>2 DEF Setup, Code, IInv, Types
<1>4. Types'
  BY <1>1, <1>2, <1>3 DEF IInv, Types, Exists
<1>5. Distinct' /\ LocksExclude'
  BY <1>1 DEF IInv, Distinct, LocksExclude
<1>6. Founding'
  BY <1>1 DEF IInv, Founding
<1>7. \A s \in Transactions : Armed(s)' /\ Prepared(s)'
  <2>1. Len(issued) \in Nat /\ Len(issued) <= Len(issued') /\ Len(issued') \in Nat
    BY <1>2 DEF NewCode, IInv, Types
  <2> SUFFICES ASSUME NEW s \in Transactions PROVE Armed(s)' /\ Prepared(s)'
    OBVIOUS
  <2>2. Taken(tx[s].address)' => Taken(tx[s].address)
    BY <1>1 DEF Taken
  <2>3. Invited(tx[s].address)' => Invited(tx[s].address)
    BY <1>1 DEF Invited
  <2>4. InvitationStands(s) /\ ChangeStands(s)
    BY <1>1 DEF InvitationStands, ChangeStands
  <2>5. tx'[s] = tx[s] /\ account'[tx[s].user].status = account[tx[s].user].status
    BY <1>1
  <2> QED
    BY <2>1, <2>2, <2>3, <2>4, <2>5, OthersStand
<1>8. \A u \in Users : ChangeKnown(u)'
  BY <1>1, IssueSparesOthers, EmailsAssumption
<1>9. \A i \in Invitations : LinkKnown(i)'
  BY <1>1, IssueSparesOthers, EmailsAssumption
<1>10. TokenKnown'
  BY <1>2, <1>3 DEF TokenKnown
<1> QED
  BY <1>2, <1>4, <1>5, <1>6, <1>7, <1>8, <1>9, <1>10 DEF IInv

LEMMA CommitSetupKeeps ==
  ASSUME IInv, NEW t \in Transactions, CommitSetup(t)
  PROVE  IInv'
<1>1. PICK u \in Users :
        /\ account[u] = Unborn /\ ~Taken(tx[t].address)
        /\ account' = [account EXCEPT ![u] = [status |-> "enabled", email |-> tx[t].address]]
  BY DEF CommitSetup
<1>2. /\ tx[t].at = "hashing" /\ ~setup.complete /\ setup.token = tx[t].digest
      /\ setup' = [complete |-> TRUE, token |-> 0, expired |-> setup.expired]
      /\ Serve(tx[t].digest) /\ tx' = [tx EXCEPT ![t] = Idle]
      /\ UNCHANGED <<invitation, change>>
  BY DEF CommitSetup, MaySetup
<1>3. tx[t].op = "setup" /\ tx[t].address \in Addresses /\ tx[t].digest > 0 /\ tx[t].digest \in Nat
  BY <1>2 DEF IInv, Armed, Types, Transaction, Code
<1>4. /\ setup.token \in 1..Len(issued) /\ issued[setup.token].by = Console
      /\ issued[setup.token].misses = 0
  BY <1>2, <1>3, EmailsAssumption DEF IInv, TokenKnown, Last, Guessed
<1>5. /\ issued' \in Seq(Letter) /\ Len(issued') = Len(issued) /\ Guessed' /\ CodesWearOut'
  BY <1>2, <1>4, ServeUsesOne, EmailsAssumption
<1>6. setup' \in Setup /\ setup'.complete /\ setup'.token = 0
  BY <1>2, EmailsAssumption DEF IInv, Types, Setup, Code
<1>7. /\ account' \in [Users -> Account] /\ account'[u].email = tx[t].address
      /\ account'[u].status = "enabled" /\ \A v \in Users : v # u => account'[v] = account[v]
  BY <1>1, <1>3 DEF IInv, Types, Account
<1>8. /\ tx' \in [Transactions -> Transaction] /\ LocksExclude' /\ Armed(t)' /\ Prepared(t)'
      /\ \A s \in Transactions : s # t => tx'[s] = tx[s]
  BY <1>2, EndsKeepLocks
<1>9. Types'
  BY <1>2, <1>3, <1>5, <1>6, <1>7, <1>8, EmailsAssumption DEF IInv, Types, Exists
<1>10. /\ \A v \in Users : account[v].email = NoAddress
       /\ \A i \in Invitations : invitation[i].email = NoAddress
  BY <1>2 DEF IInv, Founding
<1>11. Distinct' /\ Founding'
  BY <1>2, <1>3, <1>6, <1>7, <1>10, EmailsAssumption DEF Distinct, Founding
<1>12. \A s \in Transactions : Armed(s)' /\ Prepared(s)'
  <2>1. ASSUME NEW s \in Transactions, s # t PROVE Armed(s)' /\ Prepared(s)'
    <3>1. tx[s].op \in {"none", "setup"} /\ Armed(s)
      BY <1>2 DEF IInv, Founding
    <3> QED
      BY <1>8, <2>1, <3>1 DEF Armed, Prepared, OnAccount, OnInvitation
  <2> QED
    BY <1>8, <2>1
<1>13. \A v \in Users : ChangeKnown(v)'
  <2>1. ASSUME NEW v \in Users PROVE change[v].id = 0
    <3>1. ChangeKnown(v) /\ ~Exists(v) /\ change[v].id \in Nat
      BY <1>10, EmailsAssumption DEF IInv, Types, Change, Code
    <3> QED
      BY <3>1 DEF ChangeKnown
  <2> QED
    BY <1>2, <2>1 DEF IInv, ChangeKnown
<1>14. \A i \in Invitations : LinkKnown(i)'
  BY <1>2, <1>10 DEF IInv, Types, LinkKnown
<1>15. TokenKnown'
  BY <1>6 DEF TokenKnown
<1> QED
  BY <1>5, <1>8, <1>9, <1>11, <1>12, <1>13, <1>14, <1>15 DEF IInv

LEMMA CommitRequestKeeps ==
  ASSUME IInv, NEW t \in Transactions, CommitRequest(t)
  PROVE  IInv'
<1> SUFFICES ASSUME NEW u, u = tx[t].user, NEW n, n = NewCode, NEW old, old = account[u].email,
                    NEW address, address = tx[t].address
             PROVE  IInv'
  OBVIOUS
<1> DEFINE new == [id |-> n, old |-> old, new |-> address, code |-> n,
                   attempts |-> MaxAttempts, cooling |-> TRUE, expired |-> FALSE]
<1>1. /\ tx[t].at = "checked" /\ tx[t].op = "request"
      /\ change' = [change EXCEPT ![u] = new]
      /\ Issue(address, u, old)
      /\ tx' = [tx EXCEPT ![t] = Idle]
      /\ UNCHANGED <<setup, account, invitation>>
  BY DEF CommitRequest, Ready, Coded
<1>2. /\ u \in Users /\ account[u].status = "enabled" /\ address \in Addresses
  BY <1>1 DEF IInv, Armed, Prepared, OnAccount
<1>3. account[u] \in Account /\ old \in Addresses
  BY <1>2 DEF IInv, Types, Account, Exists
<1>4. /\ issued' \in Seq(Letter) /\ Len(issued') = n /\ n \in 1..MaxCodes
      /\ issued'[n] = [to |-> address, by |-> u, from |-> old,
                             misses |-> 0, serves |-> 0]
      /\ Last(n, u)'
      /\ Guessed' /\ CodesWearOut'
  BY <1>1, <1>2, <1>3, IssueMakesOne
<1>5. new \in Change
  BY <1>2, <1>3, <1>4, EmailsAssumption DEF Change, Code
<1>6. change' \in [Users -> Change] /\ change'[u] = new /\ \A v \in Users : v # u => change'[v] = change[v]
  BY <1>1, <1>2, <1>5 DEF IInv, Types
<1>7. /\ tx' \in [Transactions -> Transaction] /\ LocksExclude' /\ Armed(t)' /\ Prepared(t)'
      /\ tx'[t].op = "none"
      /\ \A s \in Transactions : s # t => tx'[s] = tx[s]
  BY <1>1, EndsKeepLocks DEF Idle, Operation
<1>8. Types' /\ Distinct' /\ Founding'
  BY <1>1, <1>4, <1>6, <1>7 DEF IInv, Types, Exists, Distinct, Founding
<1>9. \A s \in Transactions : Armed(s)' /\ Prepared(s)'
  <2> SUFFICES ASSUME NEW s \in Transactions, s # t PROVE Armed(s)' /\ Prepared(s)'
    BY <1>7
  <2>1. tx'[s] = tx[s] /\ Armed(s)
    BY <1>7 DEF IInv
  <2>2. Len(issued) \in Nat /\ Len(issued) <= Len(issued') /\ Len(issued') \in Nat
    BY <1>4 DEF NewCode, IInv, Types
  <2>3. (Taken(tx[s].address)' => Taken(tx[s].address))
        /\ (Invited(tx[s].address)' => Invited(tx[s].address))
    BY <1>1, <2>1 DEF Taken, Invited
  <2>4. InvitationStands(s)
    BY <1>1 DEF InvitationStands
  <2>5. tx[s].op = "complete" => ChangeStands(s)
    <3>1. CASE tx[s].op = "complete" /\ tx[s].user = u
      <4>1. tx[s].at # "checked"
        BY <1>1, <1>2, <3>1, EmailsAssumption DEF IInv, LocksExclude
      <4>2. tx[s].id # n
        BY <2>1, <2>2, <3>1 DEF Armed, NewCode
      <4> QED
        BY <1>6, <3>1, <4>1, <4>2 DEF ChangeStands
    <3>2. CASE tx[s].op = "complete" /\ tx[s].user # u
      BY <1>6, <2>1, <3>2 DEF ChangeStands, Armed, OnAccount
    <3> QED
      BY <3>1, <3>2
  <2>6. account'[tx[s].user].status = account[tx[s].user].status
    BY <1>1
  <2> QED
    BY <2>1, <2>2, <2>3, <2>4, <2>5, <2>6, OthersStand
<1>10. \A v \in Users : ChangeKnown(v)'
  <2>1. ChangeKnown(u)'
    <3>1. new.id = n /\ new.code = n /\ new.new = address /\ new.old = old
          /\ new.attempts = MaxAttempts
      OBVIOUS
    <3> HIDE DEF new
    <3>2. Last(change[u].code, u)'
      BY <1>1, <1>2, <1>4, <1>6, <3>1 DEF Last
    <3> QED
      BY <1>1, <1>2, <1>4, <1>6, <3>1, <3>2, EmailsAssumption DEF ChangeKnown, Exists
  <2>2. \A v \in Users : v # u => ChangeKnown(v)'
    BY <1>1, <1>2, <1>3, <1>6, IssueSparesOthers
  <2> QED
    BY <2>1, <2>2
<1>11. \A i \in Invitations : LinkKnown(i)'
  BY <1>1, <1>2, <1>3, IssueSparesOthers, EmailsAssumption
<1>12. TokenKnown'
  BY <1>1, <1>2, <1>3, IssueSparesOthers, EmailsAssumption
<1> QED
  BY <1>4, <1>7, <1>8, <1>9, <1>10, <1>11, <1>12 DEF IInv

(* A change somebody has locked is not touched by others.                  *)
LEMMA ChangesStand ==
  ASSUME IInv, NEW u \in Users, NEW s \in Transactions, tx'[s] = tx[s],
         Len(issued) <= Len(issued'), Len(issued') \in Nat,
         UNCHANGED <<account, invitation>>,
         \A v \in Users : v # u => change'[v] = change[v],
         tx[s].user = u => tx[s].at # "checked",
         \/ change'[u].id = change[u].id /\ change'[u].new = change[u].new
         \/ change'[u].id \notin 1..Len(issued)
  PROVE  Armed(s)' /\ Prepared(s)'
<1>1. Armed(s)
  BY DEF IInv
<1>2. (Taken(tx[s].address)' => Taken(tx[s].address))
      /\ (Invited(tx[s].address)' => Invited(tx[s].address))
  BY DEF Taken, Invited
<1>3. InvitationStands(s)
  BY DEF InvitationStands
<1>4. tx[s].op = "complete" => ChangeStands(s)
  <2>1. CASE tx[s].user = u
    BY <1>1, <2>1 DEF ChangeStands, Armed
  <2>2. CASE tx[s].user # u
    BY <1>1, <2>2 DEF ChangeStands, Armed, OnAccount
  <2> QED
    BY <2>1, <2>2
<1>5. account'[tx[s].user].status = account[tx[s].user].status
  OBVIOUS
<1> QED
  BY <1>2, <1>3, <1>4, <1>5, OthersStand

LEMMA ResendEmailChangeKeeps ==
  ASSUME IInv, NEW u \in Users, ResendEmailChange(u)
  PROVE  IInv'
<1> SUFFICES ASSUME NEW n, n = NewCode, NEW old, old = account[u].email,
                    NEW address, address = change[u].new
             PROVE  IInv'
  OBVIOUS
<1>1. /\ account[u].status = "enabled" /\ UserFree(u) /\ change[u] # NoChange
      /\ change' = [change EXCEPT ![u] =
           [id |-> change[u].id, old |-> change[u].old, new |-> address, code |-> n,
            attempts |-> MaxAttempts, cooling |-> TRUE, expired |-> FALSE]]
      /\ Issue(address, u, old)
      /\ UNCHANGED <<setup, account, invitation, tx>>
  BY DEF ResendEmailChange, Coded
<1>2. change[u] \in Change /\ ChangeKnown(u) /\ change[u].id > 0
  <2>1. change[u] \in Change /\ ChangeKnown(u)
    BY DEF IInv, Types
  <2> QED
    BY <1>1, <2>1, EmailsAssumption DEF ChangeKnown, Change, Code
<1>3. address \in Addresses /\ old \in Addresses \cup {NoAddress} /\ change[u].old = old
  BY <1>2 DEF ChangeKnown, IInv, Types, Account
<1>4. /\ issued' \in Seq(Letter) /\ Len(issued') = n /\ n \in 1..MaxCodes /\ Len(issued) = n - 1
      /\ issued'[n] = [to |-> address, by |-> u, from |-> old, misses |-> 0, serves |-> 0]
      /\ Last(n, u)'
      /\ Guessed' /\ CodesWearOut'
  <2>1. Len(issued) \in Nat
    BY DEF IInv, Types
  <2> QED
    BY <1>1, <1>3, <2>1, IssueMakesOne DEF NewCode
<1>5. /\ change' \in [Users -> Change] /\ \A v \in Users : v # u => change'[v] = change[v]
      /\ change'[u].id = change[u].id /\ change'[u].old = old /\ change'[u].new = address
      /\ change'[u].code = n /\ change'[u].attempts = MaxAttempts
  <2>1. \A v \in Users : v # u => change'[v] = change[v]
    BY <1>1 DEF IInv, Types
  <2>2. /\ change'[u].id = change[u].id /\ change'[u].old = change[u].old
        /\ change'[u].new = change[u].new
        /\ change'[u].code = n /\ change'[u].attempts = MaxAttempts
    BY <1>1, <1>2 DEF IInv, Types, Change
  <2>3. change' \in [Users -> Change]
    BY <1>1, <1>2, <1>4, EmailsAssumption DEF IInv, Types, Change, Code
  <2> QED
    BY <1>3, <2>1, <2>2, <2>3
<1>6. Types' /\ Distinct' /\ Founding' /\ LocksExclude'
  BY <1>1, <1>4, <1>5 DEF IInv, Types, Exists, Distinct, Founding, LocksExclude
<1>7. \A s \in Transactions : Armed(s)' /\ Prepared(s)'
  <2> SUFFICES ASSUME NEW s \in Transactions PROVE Armed(s)' /\ Prepared(s)'
    OBVIOUS
  <2>1. tx'[s] = tx[s] /\ (tx[s].user = u => tx[s].at # "checked")
    BY <1>1 DEF UserFree
  <2> QED
    BY <1>1, <1>4, <1>5, <2>1, ChangesStand
<1>8. \A v \in Users : ChangeKnown(v)'
  <2>1. Last(change[u].code, u)'
    BY <1>4, <1>5 DEF Last
  <2>2. ChangeKnown(u)'
    <3>1. change'[u].id <= Len(issued') /\ Exists(u)'
      BY <1>1, <1>2, <1>4, <1>5 DEF ChangeKnown, Change, Code, Exists
    <3>2. issued'[n].misses + change'[u].attempts = MaxAttempts
      BY <1>4, <1>5, EmailsAssumption
    <3> QED
      BY <1>1, <1>2, <1>3, <1>4, <1>5, <2>1, <3>1, <3>2 DEF ChangeKnown
  <2>3. \A v \in Users : v # u => ChangeKnown(v)'
    BY <1>1, <1>3, <1>5, IssueSparesOthers
  <2> QED
    BY <2>2, <2>3
<1>9. (\A i \in Invitations : LinkKnown(i)') /\ TokenKnown'
  BY <1>1, <1>3, IssueSparesOthers, EmailsAssumption
<1> QED
  BY <1>4, <1>6, <1>7, <1>8, <1>9 DEF IInv

LEMMA MissCodeKeeps ==
  ASSUME IInv, NEW t \in Transactions, MissCode(t)
  PROVE  IInv'
<1> SUFFICES ASSUME NEW u, u = tx[t].user, NEW n, n = change[u].code
             PROVE  IInv'
  OBVIOUS
<1>1. /\ tx[t].at = "begun" /\ tx[t].op = "complete" /\ UserFree(u)
      /\ account[u].status = "enabled" /\ change[u].id = tx[t].id /\ change[u].attempts > 0
      /\ change' = [change EXCEPT ![u].attempts = @ - 1]
      /\ issued' = [issued EXCEPT ![n].misses = @ + 1]
      /\ tx' = [tx EXCEPT ![t] = Idle]
      /\ UNCHANGED <<setup, account, invitation>>
  BY DEF MissCode, MayGuess, Check
<1>2. /\ u \in Users /\ change[u] \in Change /\ change[u].id > 0 /\ ChangeKnown(u)
  BY <1>1 DEF IInv, Types, Armed, OnAccount
<1>3. /\ n \in 1..Len(issued) /\ issued[n] \in Letter /\ issued[n].by = u /\ issued[n].serves = 0
      /\ issued[n].misses + change[u].attempts = MaxAttempts
      /\ Len(issued) \in Nat
  BY <1>2 DEF ChangeKnown, Last, IInv, Types
<1>4. issued' \in Seq(Letter) /\ Len(issued') = Len(issued)
  <2> DEFINE missed == [to |-> issued[n].to, by |-> issued[n].by, from |-> issued[n].from,
                        misses |-> issued[n].misses + 1, serves |-> issued[n].serves]
  <2>1. missed \in Letter
    BY <1>3 DEF Letter
  <2>2. [issued[n] EXCEPT !.misses = issued[n].misses + 1] = missed
    BY <1>3 DEF Letter
  <2>3. issued' = [issued EXCEPT ![n] = missed]
    BY <1>1, <2>2
  <2>4. issued \in [1..Len(issued) -> Letter]
    BY DEF IInv, Types
  <2>5. issued' \in [1..Len(issued) -> Letter]
    BY <2>1, <2>3, <2>4
  <2> QED
    BY <1>3, <2>5
<1>5. /\ \A m \in 1..Len(issued) : m # n => issued'[m] = issued[m]
      /\ issued'[n].to = issued[n].to /\ issued'[n].by = issued[n].by
      /\ issued'[n].from = issued[n].from /\ issued'[n].serves = issued[n].serves
      /\ issued'[n].misses = issued[n].misses + 1
  BY <1>1, <1>3 DEF IInv, Types, Letter
<1>6. /\ change' \in [Users -> Change] /\ \A v \in Users : v # u => change'[v] = change[v]
      /\ change'[u].id = change[u].id /\ change'[u].old = change[u].old
      /\ change'[u].new = change[u].new /\ change'[u].code = n
      /\ change'[u].attempts = change[u].attempts - 1
  <2>1. \A v \in Users : v # u => change'[v] = change[v]
    BY <1>1 DEF IInv, Types
  <2>2. /\ change'[u].id = change[u].id /\ change'[u].old = change[u].old
        /\ change'[u].new = change[u].new /\ change'[u].code = n
        /\ change'[u].attempts = change[u].attempts - 1
    BY <1>1, <1>2 DEF IInv, Types, Change
  <2>3. change[u].attempts - 1 \in 0..MaxAttempts
    BY <1>1, <1>2, EmailsAssumption DEF Change
  <2>4. change' \in [Users -> Change]
    BY <1>1, <1>2, <2>3 DEF IInv, Types, Change
  <2> QED
    BY <2>1, <2>2, <2>4
<1>7. /\ tx' \in [Transactions -> Transaction] /\ LocksExclude' /\ Armed(t)' /\ Prepared(t)'
      /\ tx'[t].op = "none"
      /\ \A s \in Transactions : s # t => tx'[s] = tx[s]
  BY <1>1, EndsKeepLocks DEF Idle, Operation
<1>8. Types' /\ Distinct' /\ Founding'
  BY <1>1, <1>4, <1>6, <1>7 DEF IInv, Types, Exists, Distinct, Founding
<1>9. \A s \in Transactions : Armed(s)' /\ Prepared(s)'
  <2> SUFFICES ASSUME NEW s \in Transactions, s # t PROVE Armed(s)' /\ Prepared(s)'
    BY <1>7
  <2>1. tx'[s] = tx[s] /\ (tx[s].user = u => tx[s].at # "checked")
    BY <1>1, <1>7 DEF UserFree
  <2>2. Len(issued) <= Len(issued') /\ Len(issued') \in Nat /\ u \in Users
    BY <1>2, <1>3, <1>4
  <2> QED
    BY <1>1, <1>6, <2>1, <2>2, ChangesStand
<1>10. ASSUME NEW m, NEW by, Last(m, by) PROVE Last(m, by)'
  BY <1>3, <1>4, <1>5, <1>10 DEF Last
<1>11. ASSUME NEW v \in Users PROVE ChangeKnown(v)'
  <2>1. change'[v].code = change[v].code /\ change'[v].id = change[v].id
        /\ change'[v].old = change[v].old /\ change'[v].new = change[v].new
    BY <1>6
  <2>2. ChangeKnown(v) /\ change[v].id \in Nat
    BY EmailsAssumption DEF IInv, Types, Change, Code
  <2>3. CASE v = u
    <3>2. \A k : k = change[v].code => Last(k, v)'
      BY <1>2, <1>10, <2>3 DEF ChangeKnown
    <3>1. Last(change[v].code, v)'
      BY <2>1, <3>2 DEF Last
    <3> QED
      <4>1. issued[n].misses \in Nat /\ change[u].attempts \in Nat /\ MaxAttempts \in Nat
        BY <1>2, <1>3, EmailsAssumption DEF Change, Letter
      <4>5. issued'[n].misses = issued[n].misses + 1 /\ change'[u].attempts = change[u].attempts - 1
            /\ issued[n].misses + change[u].attempts = MaxAttempts
        BY <1>3, <1>5, <1>6
      <4>2. issued'[n].misses + change'[u].attempts = MaxAttempts
        BY <4>1, <4>5
      <4>3. /\ Exists(u)' /\ change[u].old = account[u].email /\ change[u].new \in Addresses
            /\ change[u].id <= Len(issued)
            /\ issued[n].to = change[u].new /\ issued[n].from = account[u].email
        BY <1>1, <1>2 DEF ChangeKnown, Exists
      <4>6. /\ change'[u].id > 0 /\ change'[u].id <= Len(issued')
            /\ change'[u].old = account'[u].email /\ change'[u].new \in Addresses
            /\ issued'[n].to = change'[u].new /\ issued'[n].from = account'[u].email
        BY <1>1, <1>2, <1>4, <1>5, <1>6, <4>3
      <4>7. change'[u].code = n /\ Last(change[u].code, u)'
        BY <1>6, <2>3, <3>1
      <4>4. ChangeKnown(u)'
        BY <4>2, <4>3, <4>6, <4>7 DEF ChangeKnown
      <4> QED
        BY <1>2, <1>6, <2>3, <4>4
  <2>4. CASE v # u
    <3>1. change[v].id > 0 => change[v].code # n /\ change[v].code \in 1..Len(issued)
      BY <1>3, <2>2, <2>4 DEF ChangeKnown, Last
    <3>2. change[v].id > 0 => Last(change[v].code, v)'
      BY <1>4, <1>5, <2>1, <2>2, <3>1 DEF ChangeKnown, Last
    <3> QED
      BY <1>1, <1>4, <1>5, <1>6, <2>2, <2>4, <3>1, <3>2 DEF ChangeKnown, Exists
  <2> QED
    BY <2>3, <2>4
<1>12. ASSUME NEW i \in Invitations PROVE LinkKnown(i)'
  <2>1. LinkKnown(i) /\ i # u
    BY <1>2, EmailsAssumption DEF IInv
  <2>2. invitation[i].status = "pending" => invitation[i].link # n
    BY <1>3, <2>1 DEF LinkKnown, Last
  <2>3. \A k : k = invitation[i].link /\ invitation[i].status = "pending" => Last(k, i)'
    BY <1>10, <2>1 DEF LinkKnown
  <2>4. invitation[i].status = "pending" => Last(invitation[i].link, i)'
    BY <1>1, <2>3 DEF Last
  <2>5. invitation[i].status = "pending" => invitation[i].link \in 1..Len(issued)
    BY <2>1 DEF LinkKnown, Last
  <2> QED
    BY <1>1, <1>5, <2>1, <2>2, <2>4, <2>5 DEF LinkKnown
<1>13. TokenKnown'
  <2>1. setup.token > 0 => setup.token # n
    BY <1>2, <1>3, EmailsAssumption DEF IInv, TokenKnown, Last
  <2>2. TokenKnown
    BY DEF IInv
  <2>3. \A k : k = setup.token /\ setup.token > 0 => Last(k, Console)'
    BY <1>10, <2>2 DEF TokenKnown
  <2>4. setup.token > 0 => Last(setup.token, Console)'
    BY <1>1, <2>3 DEF Last
  <2>5. setup.token > 0 => setup.token \in 1..Len(issued)
    BY <2>2 DEF TokenKnown, Last
  <2> QED
    BY <1>1, <1>5, <2>1, <2>2, <2>4, <2>5 DEF TokenKnown
<1>14. Guessed' /\ CodesWearOut'
  <2>1. DOMAIN issued = 1..Len(issued) /\ DOMAIN issued' = 1..Len(issued)
    BY <1>4 DEF IInv, Types
  <2>2. issued'[n].misses <= MaxAttempts
    BY <1>1, <1>2, <1>3, <1>5, EmailsAssumption DEF Change, Letter
  <2> QED
    BY <1>2, <1>3, <1>4, <1>5, <2>1, <2>2 DEF IInv, Guessed, CodesWearOut
<1> QED
  BY <1>4, <1>7, <1>8, <1>9, <1>11, <1>12, <1>13, <1>14 DEF IInv

LEMMA NoChangeIsTyped == NoChange \in Change /\ NoChange.id = 0
  BY EmailsAssumption DEF NoChange, Change, Code

LEMMA CommitCompleteKeeps ==
  ASSUME IInv, NEW t \in Transactions, CommitComplete(t)
  PROVE  IInv'
<1> SUFFICES ASSUME NEW u, u = tx[t].user, NEW n, n = tx[t].digest,
                    NEW address, address = tx[t].address
             PROVE  IInv'
  OBVIOUS
<1>1. /\ tx[t].at = "checked" /\ tx[t].op = "complete"
      /\ \A v \in Users \ {u} : account[v].email # address
      /\ account' = [account EXCEPT ![u].email = address]
      /\ change' = [change EXCEPT ![u] = NoChange]
      /\ Serve(n)
      /\ tx' = [tx EXCEPT ![t] = Idle]
      /\ UNCHANGED <<setup, invitation>>
  BY DEF CommitComplete, Ready
<1>2. /\ u \in Users /\ account[u].status = "enabled" /\ address \in Addresses /\ ~Invited(address)
      /\ change[u].code = n /\ change[u].id > 0 /\ change[u].attempts > 0 /\ ChangeKnown(u)
      /\ change[u].attempts \in Nat /\ setup.complete
  BY <1>1, EmailsAssumption
  DEF IInv, Armed, Prepared, Types, Change, OnAccount, Founding
<1>3. /\ n \in 1..Len(issued) /\ issued[n].by = u /\ issued[n].misses < MaxAttempts
      /\ Len(issued) \in Nat
  <2>1. n \in 1..Len(issued) /\ issued[n].by = u /\ Len(issued) \in Nat
        /\ issued[n].misses + change[u].attempts = MaxAttempts
    BY <1>2 DEF ChangeKnown, Last, IInv, Types
  <2>2. issued[n] \in Letter
    BY <2>1 DEF IInv, Types
  <2> QED
    BY <1>2, <2>1, <2>2, EmailsAssumption DEF Letter
<1>4. /\ issued' \in Seq(Letter) /\ Len(issued') = Len(issued) /\ Guessed' /\ CodesWearOut'
  BY <1>1, <1>3, ServeUsesOne
<1>5. /\ change' \in [Users -> Change] /\ change'[u] = NoChange
      /\ \A v \in Users : v # u => change'[v] = change[v]
  BY <1>1, <1>2, NoChangeIsTyped DEF IInv, Types
<1>6. /\ account' \in [Users -> Account] /\ account'[u].email = address
      /\ account'[u].status = "enabled" /\ \A v \in Users : v # u => account'[v] = account[v]
  BY <1>1, <1>2 DEF IInv, Types, Account
<1>7. /\ tx' \in [Transactions -> Transaction] /\ LocksExclude' /\ Armed(t)' /\ Prepared(t)'
      /\ tx'[t].op = "none"
      /\ \A s \in Transactions : s # t => tx'[s] = tx[s]
  BY <1>1, EndsKeepLocks DEF Idle, Operation
<1>8. Types'
  BY <1>1, <1>2, <1>4, <1>5, <1>6, <1>7, EmailsAssumption DEF IInv, Types, Exists
<1>9. Distinct' /\ Founding'
  <2>1. Distinct
    BY DEF IInv
  <2>2. \A v \in Users : v # u => account'[v].email # account'[u].email
    BY <1>1, <1>6
  <2>3. \A i \in Invitations : invitation'[i].email # account'[u].email
    BY <1>1, <1>2, <1>6 DEF Invited
  <2> QED
    BY <1>1, <1>2, <1>6, <2>1, <2>2, <2>3 DEF Distinct, Founding
<1>10. \A s \in Transactions : Armed(s)' /\ Prepared(s)'
  <2> SUFFICES ASSUME NEW s \in Transactions, s # t PROVE Armed(s)' /\ Prepared(s)'
    BY <1>7
  <2>1. tx'[s] = tx[s] /\ Armed(s)
    BY <1>7 DEF IInv
  <2>2. tx[s].at = "checked" => tx[s].address # address /\ tx[s].user # u
    BY <1>1, <1>2, EmailsAssumption DEF IInv, LocksExclude
  <2>3. /\ tx[s].at = "checked" /\ Taken(tx[s].address)' => Taken(tx[s].address)
        /\ tx[s].at = "checked" /\ Invited(tx[s].address)' => Invited(tx[s].address)
    BY <1>1, <1>6, <2>1, <2>2 DEF Taken, Invited
  <2>4. InvitationStands(s)
    BY <1>1 DEF InvitationStands
  <2>5. tx[s].op = "complete" => ChangeStands(s)
    BY <1>5, <2>1, <2>2, NoChangeIsTyped DEF ChangeStands, Armed, OnAccount
  <2>6. tx[s].at = "checked" /\ tx[s].op \in OnAccount =>
          account'[tx[s].user].status = account[tx[s].user].status
    BY <1>6, <2>1, <2>2 DEF Armed
  <2> QED
    BY <1>3, <1>4, <2>1, <2>3, <2>4, <2>5, <2>6, OthersStand
<1>11. \A v \in Users : ChangeKnown(v)'
  <2>1. ChangeKnown(u)'
    BY <1>5, NoChangeIsTyped DEF ChangeKnown
  <2> QED
    BY <1>1, <1>3, <1>5, <1>6, <2>1, ServeSparesOthers
<1>12. (\A i \in Invitations : LinkKnown(i)') /\ TokenKnown'
  BY <1>1, <1>2, <1>3, ServeSparesOthers, EmailsAssumption
<1> QED
  BY <1>4, <1>7, <1>8, <1>9, <1>10, <1>11, <1>12 DEF IInv

LEMMA CommitAcceptKeeps ==
  ASSUME IInv, NEW t \in Transactions, CommitAccept(t)
  PROVE  IInv'
<1> SUFFICES ASSUME NEW i, i = tx[t].invitation, NEW n, n = tx[t].digest,
                    NEW address, address = tx[t].address
             PROVE  IInv'
  OBVIOUS
<1>0. PICK u \in Users :
        /\ account[u] = Unborn
        /\ account' = [account EXCEPT ![u] = [status |-> "enabled", email |-> address]]
  BY DEF CommitAccept
<1>1. /\ tx[t].at = "checked" /\ tx[t].op = "accept" /\ ~Taken(address)
      /\ invitation' = [invitation EXCEPT ![i] = Over]
      /\ Serve(n)
      /\ tx' = [tx EXCEPT ![t] = Idle]
      /\ UNCHANGED <<setup, change>>
  BY DEF CommitAccept, Ready
<1>2. /\ i \in Invitations /\ invitation[i].status = "pending" /\ invitation[i].email = address
      /\ address \in Addresses /\ invitation[i].link = n /\ setup.complete
  BY <1>1 DEF IInv, Armed, Prepared, OnInvitation, Founding
<1>3. /\ n \in 1..Len(issued) /\ issued[n].by = i /\ issued[n].misses = 0 /\ Len(issued) \in Nat
  BY <1>2, EmailsAssumption DEF IInv, LinkKnown, Last, Guessed, Types
<1>4. /\ issued' \in Seq(Letter) /\ Len(issued') = Len(issued) /\ Guessed' /\ CodesWearOut'
  BY <1>1, <1>3, ServeUsesOne, EmailsAssumption
<1>5. /\ invitation' \in [Invitations -> Invitation] /\ invitation'[i].status = "over"
      /\ invitation'[i].email = NoAddress
      /\ \A j \in Invitations : j # i => invitation'[j] = invitation[j]
  BY <1>1, <1>2, EmailsAssumption DEF IInv, Types, Over, Invitation, Code
<1>6. /\ account' \in [Users -> Account] /\ account'[u].email = address
      /\ account'[u].status = "enabled" /\ \A v \in Users : v # u => account'[v] = account[v]
      /\ account[u].email = NoAddress /\ ~Exists(u)
  BY <1>0, <1>2 DEF IInv, Types, Account, Unborn, Exists
<1>7. /\ tx' \in [Transactions -> Transaction] /\ LocksExclude' /\ Armed(t)' /\ Prepared(t)'
      /\ tx'[t].op = "none"
      /\ \A s \in Transactions : s # t => tx'[s] = tx[s]
  BY <1>1, EndsKeepLocks DEF Idle, Operation
<1>8. Types'
  BY <1>1, <1>2, <1>4, <1>5, <1>6, <1>7, EmailsAssumption DEF IInv, Types, Exists
<1>9. Distinct' /\ Founding'
  <2>1. Distinct
    BY DEF IInv
  <2>2. \A v \in Users : v # u => account'[v].email # address
    BY <1>1, <1>6 DEF Taken
  <2>3. \A j \in Invitations : invitation'[j].email # address
    BY <1>2, <1>5, <2>1, EmailsAssumption DEF Distinct
  <2> QED
    BY <1>1, <1>2, <1>5, <1>6, <2>1, <2>2, <2>3 DEF Distinct, Founding
<1>10. \A s \in Transactions : Armed(s)' /\ Prepared(s)'
  <2> SUFFICES ASSUME NEW s \in Transactions, s # t PROVE Armed(s)' /\ Prepared(s)'
    BY <1>7
  <2>1. tx'[s] = tx[s] /\ Armed(s) /\ Prepared(s)
    BY <1>7 DEF IInv
  <2>2. tx[s].at = "checked" => tx[s].address # address
    BY <1>1 DEF IInv, LocksExclude
  <2>3. /\ tx[s].at = "checked" /\ Taken(tx[s].address)' => Taken(tx[s].address)
        /\ tx[s].at = "checked" /\ Invited(tx[s].address)' => Invited(tx[s].address)
    BY <1>2, <1>5, <1>6, <2>1, <2>2, EmailsAssumption DEF Taken, Invited, Armed
  <2>4. tx[s].op \in OnInvitation => InvitationStands(s)
    BY <1>2, <1>5, <2>1, <2>2 DEF InvitationStands, Armed, Prepared
  <2>5. tx[s].op = "complete" => ChangeStands(s)
    BY <1>1 DEF ChangeStands
  <2>6. tx[s].at = "checked" /\ tx[s].op \in OnAccount =>
          account'[tx[s].user].status = account[tx[s].user].status
    BY <1>6, <2>1 DEF Armed, Prepared, Exists
  <2> QED
    BY <1>3, <1>4, <2>1, <2>3, <2>4, <2>5, <2>6, OthersStand
<1>11. \A v \in Users : ChangeKnown(v)'
  <2>1. change[u].id = 0
    BY <1>6, EmailsAssumption DEF IInv, ChangeKnown, Types, Change, Code
  <2>2. ChangeKnown(u)'
    BY <1>1, <2>1 DEF IInv, ChangeKnown
  <2> QED
    BY <1>1, <1>2, <1>3, <1>6, <2>2, ServeSparesOthers, EmailsAssumption
<1>12. (\A j \in Invitations : LinkKnown(j)') /\ TokenKnown'
  <2>1. LinkKnown(i)'
    BY <1>5 DEF LinkKnown
  <2> QED
    BY <1>1, <1>2, <1>3, <1>5, <2>1, ServeSparesOthers, EmailsAssumption
<1> QED
  BY <1>4, <1>7, <1>8, <1>9, <1>10, <1>11, <1>12 DEF IInv

LEMMA CommitInviteKeeps ==
  ASSUME IInv, NEW t \in Transactions, CommitInvite(t)
  PROVE  IInv'
<1> SUFFICES ASSUME NEW n, n = NewCode, NEW address, address = tx[t].address
             PROVE  IInv'
  OBVIOUS
<1> DEFINE row == [status |-> "pending", email |-> address, link |-> n, expired |-> FALSE]
<1>0. PICK i \in Invitations :
        /\ invitation[i] = NotInvited
        /\ invitation' = [invitation EXCEPT ![i] = row]
        /\ Issue(address, i, NoAddress)
  BY DEF CommitInvite, Linked
<1>1. /\ tx[t].at = "checked" /\ tx[t].op = "invite" /\ ~Invited(address)
      /\ tx' = [tx EXCEPT ![t] = Idle]
      /\ UNCHANGED <<setup, account, change>>
  BY DEF CommitInvite, Ready
<1>2. address \in Addresses /\ ~Taken(address) /\ setup.complete
  BY <1>1 DEF IInv, Armed, Prepared, Founding
<1>4. /\ issued' \in Seq(Letter) /\ Len(issued') = n /\ n \in 1..MaxCodes
      /\ issued'[n] = [to |-> address, by |-> i, from |-> NoAddress, misses |-> 0, serves |-> 0]
      /\ Last(n, i)'
      /\ Guessed' /\ CodesWearOut'
  BY <1>0, <1>2, IssueMakesOne
<1>5. /\ invitation' \in [Invitations -> Invitation] /\ invitation'[i] = row
      /\ \A j \in Invitations : j # i => invitation'[j] = invitation[j]
  <2>1. row \in Invitation
    BY <1>2, <1>4 DEF Invitation, Code
  <2> QED
    BY <1>0, <2>1 DEF IInv, Types
<1>7. /\ tx' \in [Transactions -> Transaction] /\ LocksExclude' /\ Armed(t)' /\ Prepared(t)'
      /\ tx'[t].op = "none"
      /\ \A s \in Transactions : s # t => tx'[s] = tx[s]
  BY <1>1, EndsKeepLocks DEF Idle, Operation
<1>8. Types'
  BY <1>1, <1>2, <1>4, <1>5, <1>7, EmailsAssumption DEF IInv, Types, Exists
<1>9. Distinct' /\ Founding'
  <2>1. Distinct
    BY DEF IInv
  <2> QED
    BY <1>1, <1>2, <1>5, <2>1 DEF Distinct, Founding, Taken, Invited
<1>10. \A s \in Transactions : Armed(s)' /\ Prepared(s)'
  <2> SUFFICES ASSUME NEW s \in Transactions, s # t PROVE Armed(s)' /\ Prepared(s)'
    BY <1>7
  <2>1. tx'[s] = tx[s] /\ Armed(s)
    BY <1>7 DEF IInv
  <2>2. Len(issued) \in Nat /\ Len(issued) <= Len(issued') /\ Len(issued') \in Nat
    BY <1>4 DEF NewCode, IInv, Types
  <2>3. /\ Taken(tx[s].address)' => Taken(tx[s].address)
        /\ tx[s].at = "checked" /\ Invited(tx[s].address)' => Invited(tx[s].address)
    BY <1>1, <1>5, <1>7 DEF Taken, Invited, IInv, LocksExclude
  <2>4. tx[s].op \in OnInvitation => InvitationStands(s)
    BY <1>0, <1>5, <2>1 DEF InvitationStands, Armed, NotInvited
  <2>5. ChangeStands(s)
    BY <1>1 DEF ChangeStands
  <2>6. account'[tx[s].user].status = account[tx[s].user].status
    BY <1>1
  <2> QED
    BY <2>1, <2>2, <2>3, <2>4, <2>5, <2>6, OthersStand
<1>11. (\A u \in Users : ChangeKnown(u)') /\ TokenKnown'
  BY <1>0, <1>1, <1>2, IssueSparesOthers, EmailsAssumption
<1>12. \A j \in Invitations : LinkKnown(j)'
  <2>1. LinkKnown(i)'
    <3>1. row.status = "pending" /\ row.link = n /\ row.email = address
      OBVIOUS
    <3>2. \A k : k = invitation'[i].link => Last(n, i)' /\ k = n
      BY <1>4, <1>5, <3>1
    <3>3. Last(invitation[i].link, i)'
      BY <1>4, <1>5, <3>1 DEF Last
    <3> QED
      BY <1>4, <1>5, <3>1, <3>3 DEF LinkKnown
  <2> QED
    BY <1>0, <1>2, <1>5, <2>1, IssueSparesOthers
<1> QED
  BY <1>4, <1>7, <1>8, <1>9, <1>10, <1>11, <1>12 DEF IInv

LEMMA CommitResendKeeps ==
  ASSUME IInv, NEW t \in Transactions, CommitResend(t)
  PROVE  IInv'
<1> SUFFICES ASSUME NEW i, i = tx[t].invitation, NEW n, n = NewCode,
                    NEW address, address = tx[t].address
             PROVE  IInv'
  OBVIOUS
<1> DEFINE row == [status |-> "pending", email |-> invitation[i].email, link |-> n, expired |-> FALSE]
<1>1. /\ tx[t].at = "checked" /\ tx[t].op = "resend"
      /\ invitation' = [invitation EXCEPT ![i] = row]
      /\ Issue(address, i, NoAddress)
      /\ tx' = [tx EXCEPT ![t] = Idle]
      /\ UNCHANGED <<setup, account, change>>
  BY DEF CommitResend, Ready, Linked
<1>2. /\ i \in Invitations /\ invitation[i].status = "pending" /\ invitation[i].email = address
      /\ address \in Addresses
  BY <1>1 DEF IInv, Armed, Prepared, OnInvitation
<1>4. /\ issued' \in Seq(Letter) /\ Len(issued') = n /\ n \in 1..MaxCodes
      /\ issued'[n] = [to |-> address, by |-> i, from |-> NoAddress, misses |-> 0, serves |-> 0]
      /\ Last(n, i)'
      /\ Guessed' /\ CodesWearOut'
  BY <1>1, <1>2, IssueMakesOne
<1>5. /\ invitation' \in [Invitations -> Invitation]
      /\ invitation'[i].status = "pending" /\ invitation'[i].link = n /\ invitation'[i].email = address
      /\ \A j \in Invitations : j # i => invitation'[j] = invitation[j]
  <2>1. row \in Invitation
    BY <1>2, <1>4 DEF Invitation, Code
  <2> QED
    BY <1>1, <1>2, <2>1 DEF IInv, Types
<1>7. /\ tx' \in [Transactions -> Transaction] /\ LocksExclude' /\ Armed(t)' /\ Prepared(t)'
      /\ tx'[t].op = "none"
      /\ \A s \in Transactions : s # t => tx'[s] = tx[s]
  BY <1>1, EndsKeepLocks DEF Idle, Operation
<1>6. \A j \in Invitations : invitation'[j].email = invitation[j].email
                             /\ invitation'[j].status = invitation[j].status
  BY <1>2, <1>5
<1>8. Types'
  BY <1>1, <1>4, <1>5, <1>6, <1>7 DEF IInv, Types, Exists
<1>9. Distinct' /\ Founding'
  BY <1>1, <1>6, <1>7 DEF IInv, Distinct, Founding
<1>10. \A s \in Transactions : Armed(s)' /\ Prepared(s)'
  <2> SUFFICES ASSUME NEW s \in Transactions, s # t PROVE Armed(s)' /\ Prepared(s)'
    BY <1>7
  <2>1. tx'[s] = tx[s] /\ Armed(s) /\ Prepared(s)
    BY <1>7 DEF IInv
  <2>2. Len(issued) \in Nat /\ Len(issued) <= Len(issued') /\ Len(issued') \in Nat
    BY <1>4 DEF NewCode, IInv, Types
  <2>3. (Taken(tx[s].address)' => Taken(tx[s].address))
        /\ (Invited(tx[s].address)' => Invited(tx[s].address))
    BY <1>1, <1>6, <2>1 DEF Taken, Invited
  <2>4. tx[s].op \in OnInvitation => InvitationStands(s)
    <3>1. tx[s].at = "checked" => tx[s].address # address
      BY <1>1 DEF IInv, LocksExclude
    <3>2. tx[s].op \in OnInvitation /\ tx[s].invitation = i => tx[s].at # "checked"
      BY <1>2, <2>1, <3>1 DEF Armed
    <3> QED
      BY <1>2, <1>5, <1>6, <2>1, <3>2 DEF InvitationStands, Armed
  <2>5. ChangeStands(s)
    BY <1>1 DEF ChangeStands
  <2>6. account'[tx[s].user].status = account[tx[s].user].status
    BY <1>1
  <2> QED
    BY <2>1, <2>2, <2>3, <2>4, <2>5, <2>6, OthersStand
<1>11. (\A u \in Users : ChangeKnown(u)') /\ TokenKnown'
  BY <1>1, <1>2, IssueSparesOthers, EmailsAssumption
<1>12. \A j \in Invitations : LinkKnown(j)'
  <2>1. LinkKnown(i)'
    <3>1. Last(invitation[i].link, i)'
      BY <1>4, <1>5 DEF Last
    <3> QED
      BY <1>4, <1>5, <3>1 DEF LinkKnown
  <2> QED
    BY <1>1, <1>2, <1>5, <2>1, IssueSparesOthers
<1> QED
  BY <1>4, <1>7, <1>8, <1>9, <1>10, <1>11, <1>12 DEF IInv

-----------------------------------------------------------------------------
(* Steps that make no code and use none *)

LEMMA QuietSparesOthers ==
  ASSUME IInv, UNCHANGED issued
  PROVE  /\ Guessed' /\ CodesWearOut' /\ issued' \in Seq(Letter) /\ Len(issued') <= MaxCodes
         /\ Len(issued) <= Len(issued') /\ Len(issued') \in Nat
         /\ \A u \in Users :
              change'[u] = change[u] /\ account'[u].email = account[u].email /\ (Exists(u) => Exists(u)')
                => ChangeKnown(u)'
         /\ \A i \in Invitations : invitation'[i] = invitation[i] => LinkKnown(i)'
         /\ setup' = setup => TokenKnown'
<1>1. /\ Guessed' /\ CodesWearOut' /\ issued' \in Seq(Letter) /\ Len(issued') <= MaxCodes
      /\ Len(issued) <= Len(issued') /\ Len(issued') \in Nat
  BY DEF IInv, Guessed, CodesWearOut, Types
<1>2. \A n, by : Last(n, by) => Last(n, by)'
  BY DEF Last
<1>3. ASSUME NEW u \in Users, change'[u] = change[u], account'[u].email = account[u].email,
             Exists(u) => Exists(u)'
      PROVE  ChangeKnown(u)'
  <2>1. ChangeKnown(u)
    BY DEF IInv
  <2>2. change[u].id > 0 => Last(change[u].code, u)'
    BY <1>3, <2>1 DEF ChangeKnown, Last
  <2> QED
    BY <1>3, <2>1, <2>2 DEF ChangeKnown
<1>4. ASSUME NEW i \in Invitations, invitation'[i] = invitation[i] PROVE LinkKnown(i)'
  BY <1>4 DEF IInv, LinkKnown, Last
<1>5. ASSUME setup' = setup PROVE TokenKnown'
  BY <1>5 DEF IInv, TokenKnown, Last
<1> QED
  BY <1>1, <1>3, <1>4, <1>5

LEMMA CommitRevokeKeeps ==
  ASSUME IInv, NEW t \in Transactions, CommitRevoke(t)
  PROVE  IInv'
<1> SUFFICES ASSUME NEW i, i = tx[t].invitation, NEW address, address = tx[t].address
             PROVE  IInv'
  OBVIOUS
<1>1. /\ tx[t].at = "checked" /\ tx[t].op = "revoke"
      /\ invitation' = [invitation EXCEPT ![i] = Over]
      /\ tx' = [tx EXCEPT ![t] = Idle]
      /\ UNCHANGED <<setup, account, change, issued>>
  BY DEF CommitRevoke, Ready
<1>2. /\ i \in Invitations /\ invitation[i].status = "pending" /\ invitation[i].email = address
      /\ address \in Addresses
  BY <1>1 DEF IInv, Armed, Prepared, OnInvitation
<1>5. /\ invitation' \in [Invitations -> Invitation] /\ invitation'[i].status = "over"
      /\ invitation'[i].email = NoAddress
      /\ \A j \in Invitations : j # i => invitation'[j] = invitation[j]
  BY <1>1, <1>2, EmailsAssumption DEF IInv, Types, Over, Invitation, Code
<1>7. /\ tx' \in [Transactions -> Transaction] /\ LocksExclude' /\ Armed(t)' /\ Prepared(t)'
      /\ tx'[t].op = "none"
      /\ \A s \in Transactions : s # t => tx'[s] = tx[s]
  BY <1>1, EndsKeepLocks DEF Idle, Operation
<1>8. Types'
  BY <1>1, <1>5, <1>7, QuietSparesOthers DEF IInv, Types, Exists
<1>9. Distinct' /\ Founding'
  BY <1>1, <1>5, <1>7, EmailsAssumption DEF IInv, Distinct, Founding
<1>10. \A s \in Transactions : Armed(s)' /\ Prepared(s)'
  <2> SUFFICES ASSUME NEW s \in Transactions, s # t PROVE Armed(s)' /\ Prepared(s)'
    BY <1>7
  <2>1. tx'[s] = tx[s] /\ Armed(s)
    BY <1>7 DEF IInv
  <2>2. tx[s].at = "checked" => tx[s].address # address
    BY <1>1 DEF IInv, LocksExclude
  <2>3. /\ Taken(tx[s].address)' => Taken(tx[s].address)
        /\ tx[s].at = "checked" /\ Invited(tx[s].address)' => Invited(tx[s].address)
    BY <1>1, <1>5, <2>1, EmailsAssumption DEF Taken, Invited, Armed
  <2>4. tx[s].op \in OnInvitation => InvitationStands(s)
    <3>1. tx[s].op \in OnInvitation /\ tx[s].invitation = i => tx[s].at # "checked"
      BY <1>2, <2>1, <2>2 DEF Armed
    <3> QED
      BY <1>5, <2>1, <3>1 DEF InvitationStands, Armed
  <2>5. ChangeStands(s)
    BY <1>1 DEF ChangeStands
  <2>6. account'[tx[s].user].status = account[tx[s].user].status
    BY <1>1
  <2> QED
    BY <1>1, <2>1, <2>3, <2>4, <2>5, <2>6, OthersStand, QuietSparesOthers
<1>11. (\A u \in Users : ChangeKnown(u)') /\ TokenKnown' /\ Guessed' /\ CodesWearOut'
  BY <1>1, QuietSparesOthers DEF Exists
<1>12. \A j \in Invitations : LinkKnown(j)'
  <2>1. LinkKnown(i)'
    BY <1>5 DEF LinkKnown
  <2> QED
    BY <1>1, <1>5, <2>1, QuietSparesOthers
<1> QED
  BY <1>7, <1>8, <1>9, <1>10, <1>11, <1>12 DEF IInv

(* Deactivated or activated again, an account keeps its address.           *)
LEMMA SwitchKeeps ==
  ASSUME IInv, NEW u \in Users, Deactivate(u) \/ Reactivate(u)
  PROVE  IInv'
<1>1. PICK status \in {"enabled", "disabled"} :
        /\ account' = [account EXCEPT ![u].status = status]
        /\ Exists(u) /\ UserFree(u)
        /\ UNCHANGED <<setup, invitation, change, tx, issued>>
  BY DEF Deactivate, Reactivate, Exists
<1>2. /\ account' \in [Users -> Account] /\ \A v \in Users : v # u => account'[v] = account[v]
      /\ account'[u].status = status
      /\ \A v \in Users : account'[v].email = account[v].email /\ (Exists(v) <=> Exists(v)')
  BY <1>1 DEF IInv, Types, Account, Exists
<1>3. Types' /\ Distinct' /\ Founding' /\ LocksExclude'
  BY <1>1, <1>2 DEF IInv, Types, Distinct, Founding, LocksExclude
<1>4. \A s \in Transactions : Armed(s)' /\ Prepared(s)'
  <2> SUFFICES ASSUME NEW s \in Transactions PROVE Armed(s)' /\ Prepared(s)'
    OBVIOUS
  <2>1. tx'[s] = tx[s] /\ Armed(s)
    BY <1>1 DEF IInv
  <2>2. (Taken(tx[s].address)' => Taken(tx[s].address))
        /\ (Invited(tx[s].address)' => Invited(tx[s].address))
    BY <1>1, <1>2 DEF Taken, Invited
  <2>3. InvitationStands(s) /\ ChangeStands(s)
    BY <1>1 DEF InvitationStands, ChangeStands
  <2>4. tx[s].at = "checked" /\ tx[s].op \in OnAccount =>
          account'[tx[s].user].status = account[tx[s].user].status
    BY <1>1, <1>2, <2>1 DEF Armed, UserFree
  <2> QED
    BY <1>1, <2>1, <2>2, <2>3, <2>4, OthersStand, QuietSparesOthers
<1> QED
  BY <1>1, <1>2, <1>3, <1>4, QuietSparesOthers DEF IInv

LEMMA DeleteUserKeeps ==
  ASSUME IInv, NEW u \in Users, DeleteUser(u)
  PROVE  IInv'
<1>1. /\ account' = [account EXCEPT ![u] = [status |-> "deleted", email |-> NoAddress]]
      /\ change' = [change EXCEPT ![u] = NoChange]
      /\ UserFree(u) /\ UNCHANGED <<setup, invitation, tx, issued>>
  BY DEF DeleteUser
<1>2. /\ account' \in [Users -> Account] /\ \A v \in Users : v # u => account'[v] = account[v]
      /\ account'[u].status = "deleted" /\ account'[u].email = NoAddress
  BY <1>1 DEF IInv, Types, Account
<1>3. /\ change' \in [Users -> Change] /\ change'[u] = NoChange
      /\ \A v \in Users : v # u => change'[v] = change[v]
  BY <1>1, NoChangeIsTyped DEF IInv, Types
<1>4. Types' /\ Distinct' /\ Founding' /\ LocksExclude'
  BY <1>1, <1>2, <1>3 DEF IInv, Types, Exists, Distinct, Founding, LocksExclude
<1>5. \A s \in Transactions : Armed(s)' /\ Prepared(s)'
  <2> SUFFICES ASSUME NEW s \in Transactions PROVE Armed(s)' /\ Prepared(s)'
    OBVIOUS
  <2>1. tx'[s] = tx[s] /\ Armed(s) /\ (tx[s].user = u => tx[s].at # "checked")
    BY <1>1 DEF IInv, UserFree
  <2>2. (tx[s].at = "checked" /\ Taken(tx[s].address)' => Taken(tx[s].address))
        /\ (Invited(tx[s].address)' => Invited(tx[s].address))
    BY <1>1, <1>2, <2>1, EmailsAssumption DEF Taken, Invited, Armed
  <2>3. InvitationStands(s)
    BY <1>1 DEF InvitationStands
  <2>4. tx[s].op = "complete" => ChangeStands(s)
    BY <1>3, <2>1, NoChangeIsTyped DEF ChangeStands, Armed, OnAccount
  <2>5. tx[s].at = "checked" /\ tx[s].op \in OnAccount =>
          account'[tx[s].user].status = account[tx[s].user].status
    BY <1>2, <2>1 DEF Armed
  <2> QED
    BY <1>1, <2>1, <2>2, <2>3, <2>4, <2>5, OthersStand, QuietSparesOthers
<1>6. \A v \in Users : ChangeKnown(v)'
  <2>1. ChangeKnown(u)'
    BY <1>3, NoChangeIsTyped DEF ChangeKnown
  <2> QED
    BY <1>1, <1>2, <1>3, <2>1, QuietSparesOthers DEF Exists
<1> QED
  BY <1>1, <1>4, <1>5, <1>6, QuietSparesOthers DEF IInv

(* The cooldown and the expiry of a request say nothing about its code; a  *)
(* request is swept under the lock of its account.                         *)
LEMMA ChangeLapseKeeps ==
  ASSUME IInv, NEW u \in Users, CooldownPasses(u) \/ CodeLapses(u) \/ SweepChanges(u)
  PROVE  IInv'
<1>1. UNCHANGED <<setup, account, invitation, tx, issued>>
  BY DEF CooldownPasses, CodeLapses, SweepChanges
<1>2. /\ change' \in [Users -> Change] /\ \A v \in Users : v # u => change'[v] = change[v]
      /\ \/ /\ change'[u].id = change[u].id /\ change'[u].old = change[u].old
            /\ change'[u].new = change[u].new /\ change'[u].code = change[u].code
            /\ change'[u].attempts = change[u].attempts /\ change[u].id > 0
         \/ change'[u] = NoChange /\ UserFree(u)
  <2>1. CASE CooldownPasses(u)
    <3>1. change' = [change EXCEPT ![u].cooling = FALSE] /\ change[u].cooling
      BY <2>1 DEF CooldownPasses
    <3>2. change[u] \in Change /\ change[u].id # 0
      BY <3>1 DEF IInv, Types, ChangeKnown, NoChange
    <3>3. change' \in [Users -> Change] /\ \A v \in Users : v # u => change'[v] = change[v]
      BY <3>1, <3>2 DEF IInv, Types, Change
    <3>4. /\ change'[u].id = change[u].id /\ change'[u].old = change[u].old
          /\ change'[u].new = change[u].new /\ change'[u].code = change[u].code
          /\ change'[u].attempts = change[u].attempts
      BY <3>1, <3>2 DEF IInv, Types, Change
    <3>5. change[u].id > 0
      BY <3>2, EmailsAssumption DEF Change, Code
    <3> QED
      BY <3>3, <3>4, <3>5
  <2>2. CASE CodeLapses(u)
    <3>1. change' = [change EXCEPT ![u].expired = TRUE] /\ change[u] # NoChange
      BY <2>2 DEF CodeLapses
    <3>2. change[u] \in Change /\ change[u].id # 0
      BY <3>1 DEF IInv, Types, ChangeKnown
    <3>3. change' \in [Users -> Change] /\ \A v \in Users : v # u => change'[v] = change[v]
      BY <3>1, <3>2 DEF IInv, Types, Change
    <3>4. /\ change'[u].id = change[u].id /\ change'[u].old = change[u].old
          /\ change'[u].new = change[u].new /\ change'[u].code = change[u].code
          /\ change'[u].attempts = change[u].attempts
      BY <3>1, <3>2 DEF IInv, Types, Change
    <3>5. change[u].id > 0
      BY <3>2, EmailsAssumption DEF Change, Code
    <3> QED
      BY <3>3, <3>4, <3>5
  <2>3. CASE SweepChanges(u)
    BY <2>3, NoChangeIsTyped DEF SweepChanges, IInv, Types
  <2> QED
    BY <2>1, <2>2, <2>3
<1>3. Types' /\ Distinct' /\ Founding' /\ LocksExclude'
  BY <1>1, <1>2 DEF IInv, Types, Exists, Distinct, Founding, LocksExclude
<1>4. ASSUME NEW s \in Transactions PROVE Armed(s)' /\ Prepared(s)'
  <2>1. tx'[s] = tx[s] /\ Armed(s) /\ Prepared(s)
    BY <1>1 DEF IInv
  <2>2. /\ Taken(tx[s].address)' <=> Taken(tx[s].address)
        /\ Invited(tx[s].address)' <=> Invited(tx[s].address)
    BY <1>1 DEF Taken, Invited
  <2>3. CASE change'[u] = NoChange /\ UserFree(u)
    <3>1. change'[u].id \notin 1..Len(issued)
      BY <2>3, NoChangeIsTyped DEF IInv, Types
    <3>2. tx[s].user = u => tx[s].at # "checked"
      BY <2>3 DEF UserFree
    <3> QED
      BY <1>1, <1>2, <2>1, <3>1, <3>2, ChangesStand, QuietSparesOthers
  <2>4. CASE \A v \in Users :
               /\ change'[v].id = change[v].id /\ change'[v].new = change[v].new
               /\ change'[v].code = change[v].code /\ change'[v].attempts = change[v].attempts
    <3>1. Armed(s)'
      BY <1>1, <2>1, <2>4 DEF Armed, OnAccount
    <3>2. Prepared(s)'
      BY <1>1, <2>1, <2>2, <2>4 DEF Armed, Prepared, OnAccount
    <3> QED
      BY <3>1, <3>2
  <2> QED
    BY <1>2, <2>3, <2>4
<1>5. \A v \in Users : ChangeKnown(v)'
  <2>1. ASSUME change'[u] = NoChange PROVE ChangeKnown(u)'
    BY <2>1, NoChangeIsTyped DEF ChangeKnown
  <2>2. ASSUME change'[u] # NoChange PROVE ChangeKnown(u)'
    <3>1. ChangeKnown(u) /\ change'[u].id = change[u].id /\ change[u].id > 0
          /\ change'[u].old = change[u].old /\ change'[u].new = change[u].new
          /\ change'[u].code = change[u].code /\ change'[u].attempts = change[u].attempts
          /\ change[u].id \in Nat
      BY <1>2, <2>2, EmailsAssumption DEF IInv, Types, Change, Code
    <3>2. Last(change[u].code, u)'
      BY <1>1, <3>1 DEF ChangeKnown, Last
    <3> QED
      BY <1>1, <3>1, <3>2 DEF ChangeKnown, Exists
  <2>3. \A v \in Users : v # u => ChangeKnown(v)'
    BY <1>1, <1>2, QuietSparesOthers DEF Exists
  <2> QED
    BY <2>1, <2>2, <2>3
<1> QED
  BY <1>1, <1>3, <1>4, <1>5, QuietSparesOthers DEF IInv

LEMMA LinkLapsesKeeps ==
  ASSUME IInv, NEW i \in Invitations, LinkLapses(i)
  PROVE  IInv'
<1>1. /\ invitation' = [invitation EXCEPT ![i].expired = TRUE]
      /\ UNCHANGED <<setup, account, change, tx, issued>>
  BY DEF LinkLapses
<1>2. /\ invitation' \in [Invitations -> Invitation]
      /\ \A j \in Invitations :
           /\ invitation'[j].status = invitation[j].status /\ invitation'[j].email = invitation[j].email
           /\ invitation'[j].link = invitation[j].link
  BY <1>1 DEF IInv, Types, Invitation
<1>3. Types' /\ Distinct' /\ Founding' /\ LocksExclude'
  BY <1>1, <1>2 DEF IInv, Types, Exists, Distinct, Founding, LocksExclude
<1>4. ASSUME NEW s \in Transactions PROVE Armed(s)' /\ Prepared(s)'
  <2>1. tx'[s] = tx[s] /\ Armed(s) /\ Prepared(s)
    BY <1>1 DEF IInv
  <2>2. (Taken(tx[s].address)' <=> Taken(tx[s].address))
        /\ (Invited(tx[s].address)' <=> Invited(tx[s].address))
    BY <1>1, <1>2 DEF Taken, Invited
  <2>3. Armed(s)'
    BY <1>1, <1>2, <2>1 DEF Armed
  <2>4. Prepared(s)'
    BY <1>1, <1>2, <2>1, <2>2 DEF Armed, Prepared, OnInvitation
  <2> QED
    BY <2>3, <2>4
<1>5. \A j \in Invitations : LinkKnown(j)'
  BY <1>1, <1>2 DEF IInv, LinkKnown, Last
<1> QED
  BY <1>1, <1>3, <1>4, <1>5, QuietSparesOthers DEF IInv, Exists

LEMMA TokenLapsesKeeps ==
  ASSUME IInv, TokenLapses
  PROVE  IInv'
<1>1. /\ setup' = [setup EXCEPT !.expired = TRUE]
      /\ UNCHANGED <<account, invitation, change, tx, issued>>
  BY DEF TokenLapses
<1>2. setup' \in Setup /\ setup'.complete = setup.complete /\ setup'.token = setup.token
  BY <1>1 DEF IInv, Types, Setup
<1>3. Types' /\ Distinct' /\ Founding' /\ LocksExclude'
  BY <1>1, <1>2 DEF IInv, Types, Exists, Distinct, Founding, LocksExclude
<1>4. \A s \in Transactions : Armed(s)' /\ Prepared(s)'
  BY <1>1 DEF IInv, Armed, Prepared, Taken, Invited
<1>5. TokenKnown'
  BY <1>1, <1>2 DEF IInv, TokenKnown, Last
<1> QED
  BY <1>1, <1>3, <1>4, <1>5, QuietSparesOthers DEF IInv, Exists

LEMMA NextIInv == IInv /\ [Next]_vars => IInv'
<1> SUFFICES ASSUME IInv, [Next]_vars PROVE IInv'
  OBVIOUS
<1>1. CASE IssueStartupToken \/ TokenLapses
  BY <1>1, IssueStartupTokenKeeps, TokenLapsesKeeps
<1>2. ASSUME NEW t \in Transactions,
             \/ Abandon(t)
             \/ CommitSetup(t) \/ \E a \in Addresses : BeginSetup(t, a)
             \/ EmailChange(t)
             \/ Invite(t)
      PROVE  IInv'
  BY <1>2, AbandonKeeps, CommitSetupKeeps, BeginsKeep, ChecksKeep, CommitRequestKeeps, MissCodeKeeps,
     CommitCompleteKeeps, CommitInviteKeeps, CommitResendKeeps, CommitRevokeKeeps, CommitAcceptKeeps
  DEF EmailChange, Invite
<1>3. ASSUME NEW u \in Users,
             \/ ResendEmailChange(u) \/ Deactivate(u) \/ Reactivate(u) \/ DeleteUser(u)
             \/ CooldownPasses(u) \/ CodeLapses(u) \/ SweepChanges(u)
      PROVE  IInv'
  BY <1>3, ResendEmailChangeKeeps, SwitchKeeps, DeleteUserKeeps, ChangeLapseKeeps
<1>4. ASSUME NEW i \in Invitations, LinkLapses(i) PROVE IInv'
  BY <1>4, LinkLapsesKeeps
<1>5. CASE UNCHANGED vars
  <2>1. Types' /\ Distinct' /\ Founding' /\ LocksExclude'
    BY <1>5 DEF vars, IInv, Types, Exists, Distinct, Founding, LocksExclude
  <2>2. \A s \in Transactions : Armed(s)' /\ Prepared(s)'
    BY <1>5 DEF vars, IInv, Armed, Prepared, Taken, Invited
  <2> QED
    BY <1>5, <2>1, <2>2, QuietSparesOthers DEF vars, IInv, Exists
<1> QED
  BY <1>1, <1>2, <1>3, <1>4, <1>5 DEF Next

-----------------------------------------------------------------------------
(* Theorems *)

(* Whatever transactions run, start over or are abandoned: an address is   *)
(* in at most one row, locks exclude each other, and what was checked      *)
(* under them still holds at the commit.                                   *)
THEOREM InvariantHolds == Spec => []IInv
BY InitIInv, NextIInv, PTL DEF Spec

(* The tables are well-formed and rows refer to rows that exist.           *)
THEOREM TypeCorrect == Spec => []TypeOK
<1>1. IInv => TypeOK
  <2> SUFFICES ASSUME IInv PROVE TypeOK
    OBVIOUS
  <2>1. \A u \in Users : change[u] # NoChange => Exists(u)
    BY EmailsAssumption DEF IInv, Types, Change, Code, ChangeKnown
  <2>2. \A t \in Transactions : tx[t].at \in {"idle", "hashing", "begun", "checked"}
    BY DEF IInv, Types, Transaction
  <2> QED
    BY <2>1, <2>2 DEF IInv, Types, TypeOK
<1> QED
  BY <1>1, InvariantHolds, PTL

(* No code is guessed at more often than MaxAttempts, through resends, new *)
(* requests and concurrent guesses, and one that wore out never serves.    *)
THEOREM GuessesAreBounded == Spec => []CodesWearOut
<1>1. IInv => CodesWearOut
  BY DEF IInv
<1> QED
  BY <1>1, InvariantHolds, PTL

-----------------------------------------------------------------------------
(* Refinement *)

(* Whoever's row an address is in holds it.                                *)
HoldersKnown ==
  \A a \in Addresses :
    /\ \A u \in Users : account[u].email = a => Holder(a) = u
    /\ \A i \in Invitations : invitation[i].email = a => Holder(a) = i
    /\ ~Taken(a) /\ ~Invited(a) => Holder(a) = Nobody

LEMMA HoldersAreKnown == IInv => HoldersKnown
<1> SUFFICES ASSUME IInv, NEW a \in Addresses
             PROVE  /\ \A u \in Users : account[u].email = a => Holder(a) = u
                    /\ \A i \in Invitations : invitation[i].email = a => Holder(a) = i
                    /\ ~Taken(a) /\ ~Invited(a) => Holder(a) = Nobody
  BY DEF HoldersKnown
<1>1. ASSUME NEW p, Holders(a) = {p} PROVE Holder(a) = p
  <2>1. Cardinality({p}) = 1
    BY FS_Singleton
  <2> QED
    BY <1>1, <2>1 DEF Holder
<1>2. ASSUME NEW u \in Users, account[u].email = a PROVE Holder(a) = u
  <2>1. Holders(a) = {u}
    BY <1>2, EmailsAssumption DEF IInv, Distinct, Holders
  <2> QED
    BY <1>1, <2>1
<1>3. ASSUME NEW i \in Invitations, invitation[i].email = a PROVE Holder(a) = i
  <2>1. Holders(a) = {i}
    BY <1>3, EmailsAssumption DEF IInv, Distinct, Holders
  <2> QED
    BY <1>1, <2>1
<1>4. ASSUME ~Taken(a), ~Invited(a) PROVE Holder(a) = Nobody
  <2>1. Holders(a) = {}
    BY <1>4 DEF Taken, Invited, Holders
  <2> QED
    BY <2>1 DEF Holder
<1> QED
  BY <1>2, <1>3, <1>4

LEMMA HolderStays ==
  ASSUME NEW a \in Addresses,
         \A u \in Users : account'[u].email = a <=> account[u].email = a,
         \A i \in Invitations : invitation'[i].email = a <=> invitation[i].email = a
  PROVE  Holder(a)' = Holder(a)
<1>1. Holders(a)' = Holders(a)
  BY DEF Holders
<1> QED
  BY <1>1 DEF Holder

LEMMA HoldersAreKnownNext == IInv' => HoldersKnown'
BY HoldersAreKnown, PTL

(* The four ways an address changes hands; everything else stutters.       *)
HolderMap == [a \in Addresses |-> Holder(a)]

LEMMA Stutters ==
  ASSUME \A u \in Users : account'[u].email = account[u].email,
         \A i \in Invitations : invitation'[i].email = invitation[i].email,
         setup'.complete = setup.complete
  PROVE  UNCHANGED AddressSpace!book
<1>1. \A a \in Addresses : Holder(a)' = Holder(a)
  BY HolderStays
<1>2. HolderMap' = HolderMap
  BY <1>1 DEF HolderMap
<1> QED
  BY <1>2 DEF HolderMap, AddressSpace!book

(* What a step on one address does to the book.                            *)
LEMMA OneAddressChanges ==
  ASSUME NEW a \in Addresses, NEW to, Holder(a)' = to,
         \A b \in Addresses : b # a => Holder(b)' = Holder(b)
  PROVE  HolderMap' = [HolderMap EXCEPT ![a] = to]
<1>1. \A b \in Addresses : Holder(b)' = IF b = a THEN to ELSE Holder(b)
  OBVIOUS
<1> QED
  BY <1>1 DEF HolderMap

LEMMA SetupTakes ==
  ASSUME IInv, IInv', NEW t \in Transactions, CommitSetup(t)
  PROVE  AddressSpace!BookNext
<1> SUFFICES ASSUME NEW a, a = tx[t].address PROVE AddressSpace!BookNext
  OBVIOUS
<1>1. PICK u \in Users :
        /\ account[u] = Unborn /\ ~Taken(a)
        /\ account' = [account EXCEPT ![u] = [status |-> "enabled", email |-> a]]
  BY DEF CommitSetup
<1>2. /\ tx[t].at = "hashing" /\ ~setup.complete /\ setup'.complete /\ UNCHANGED invitation
  BY DEF CommitSetup, MaySetup
<1>3. a \in Addresses /\ ~Invited(a)
  BY <1>2, EmailsAssumption DEF IInv, Armed, Founding, Invited
<1>4. /\ account'[u].email = a /\ account[u].email = NoAddress
      /\ \A v \in Users : v # u => account'[v] = account[v]
  BY <1>1 DEF IInv, Types, Unborn
<1>5. Holder(a) = Nobody /\ Holder(a)' = u
  BY <1>1, <1>3, <1>4, HoldersAreKnown, HoldersAreKnownNext DEF HoldersKnown
<1>6. ASSUME NEW b \in Addresses, b # a PROVE Holder(b)' = Holder(b)
  BY <1>2, <1>4, <1>6, HolderStays, EmailsAssumption
<1>7. HolderMap' = [HolderMap EXCEPT ![a] = u]
  BY <1>3, <1>5, <1>6, OneAddressChanges
<1>8. AddressSpace!Take(a)
  BY <1>2, <1>3, <1>5, <1>7 DEF AddressSpace!Take, AddressSpace!Nobody, Nobody, HolderMap, IInv, Types, Setup
<1> QED
  BY <1>3, <1>8 DEF AddressSpace!BookNext

LEMMA InviteTakes ==
  ASSUME IInv, IInv', NEW t \in Transactions, CommitInvite(t)
  PROVE  AddressSpace!BookNext
<1> SUFFICES ASSUME NEW a, a = tx[t].address PROVE AddressSpace!BookNext
  OBVIOUS
<1>1. PICK i \in Invitations :
        /\ invitation[i] = NotInvited
        /\ invitation' = [invitation EXCEPT ![i] = Linked(a)]
  BY DEF CommitInvite
<1>2. /\ tx[t].at = "checked" /\ tx[t].op = "invite" /\ ~Invited(a) /\ UNCHANGED <<setup, account>>
  BY DEF CommitInvite, Ready
<1>3. a \in Addresses /\ ~Taken(a) /\ setup.complete
  BY <1>2 DEF IInv, Armed, Prepared, Founding
<1>4. /\ invitation'[i].email = a /\ invitation[i].email = NoAddress
      /\ \A j \in Invitations : j # i => invitation'[j] = invitation[j]
  BY <1>1 DEF IInv, Types, NotInvited, Linked
<1>5. Holder(a) = Nobody /\ Holder(a)' = i
  BY <1>2, <1>3, <1>4, HoldersAreKnown, HoldersAreKnownNext DEF HoldersKnown
<1>6. ASSUME NEW b \in Addresses, b # a PROVE Holder(b)' = Holder(b)
  BY <1>2, <1>4, <1>6, HolderStays, EmailsAssumption
<1>7. HolderMap' = [HolderMap EXCEPT ![a] = i]
  BY <1>3, <1>5, <1>6, OneAddressChanges
<1>8. AddressSpace!Take(a)
  BY <1>2, <1>3, <1>5, <1>7 DEF AddressSpace!Take, AddressSpace!Nobody, Nobody, HolderMap, IInv, Types, Setup
<1> QED
  BY <1>3, <1>8 DEF AddressSpace!BookNext

LEMMA RevokeReleases ==
  ASSUME IInv, IInv', NEW t \in Transactions, CommitRevoke(t)
  PROVE  AddressSpace!BookNext
<1> SUFFICES ASSUME NEW i, i = tx[t].invitation, NEW a, a = tx[t].address
             PROVE  AddressSpace!BookNext
  OBVIOUS
<1>1. /\ tx[t].at = "checked" /\ tx[t].op = "revoke"
      /\ invitation' = [invitation EXCEPT ![i] = Over] /\ UNCHANGED <<setup, account>>
  BY DEF CommitRevoke, Ready
<1>2. /\ i \in Invitations /\ invitation[i].email = a /\ a \in Addresses
  BY <1>1 DEF IInv, Armed, Prepared, OnInvitation
<1>3. /\ invitation'[i].email = NoAddress
      /\ \A j \in Invitations : j # i => invitation'[j] = invitation[j]
  BY <1>1, <1>2 DEF IInv, Types, Over
<1>4. ~Taken(a)' /\ ~Invited(a)'
  BY <1>1, <1>2, <1>3, EmailsAssumption DEF IInv, Distinct, Taken, Invited
<1>5. Holder(a) = i /\ Holder(a)' = Nobody
  BY <1>2, <1>4, HoldersAreKnown, HoldersAreKnownNext DEF HoldersKnown
<1>6. ASSUME NEW b \in Addresses, b # a PROVE Holder(b)' = Holder(b)
  BY <1>1, <1>2, <1>3, <1>6, HolderStays, EmailsAssumption
<1>7. HolderMap' = [HolderMap EXCEPT ![a] = Nobody]
  BY <1>2, <1>5, <1>6, OneAddressChanges
<1>8. AddressSpace!Release(a)
  BY <1>1, <1>2, <1>5, <1>7, EmailsAssumption
  DEF AddressSpace!Release, AddressSpace!Nobody, Nobody, HolderMap
<1> QED
  BY <1>2, <1>8 DEF AddressSpace!BookNext

LEMMA DeleteReleases ==
  ASSUME IInv, IInv', NEW u \in Users, DeleteUser(u)
  PROVE  AddressSpace!BookNext
<1> SUFFICES ASSUME NEW a, a = account[u].email PROVE AddressSpace!BookNext
  OBVIOUS
<1>1. /\ account' = [account EXCEPT ![u] = [status |-> "deleted", email |-> NoAddress]]
      /\ Exists(u) /\ UNCHANGED <<setup, invitation>>
  BY DEF DeleteUser
<1>2. a \in Addresses
  BY <1>1 DEF IInv, Types, Account
<1>3. /\ account'[u].email = NoAddress /\ \A v \in Users : v # u => account'[v] = account[v]
  BY <1>1 DEF IInv, Types
<1>4. ~Taken(a)' /\ ~Invited(a)'
  BY <1>1, <1>2, <1>3, EmailsAssumption DEF IInv, Distinct, Taken, Invited
<1>5. Holder(a) = u /\ Holder(a)' = Nobody
  BY <1>2, <1>4, HoldersAreKnown, HoldersAreKnownNext DEF HoldersKnown
<1>6. ASSUME NEW b \in Addresses, b # a PROVE Holder(b)' = Holder(b)
  BY <1>1, <1>3, <1>6, HolderStays, EmailsAssumption
<1>7. HolderMap' = [HolderMap EXCEPT ![a] = Nobody]
  BY <1>2, <1>5, <1>6, OneAddressChanges
<1>8. AddressSpace!Release(a)
  BY <1>1, <1>2, <1>5, <1>7, EmailsAssumption
  DEF AddressSpace!Release, AddressSpace!Nobody, Nobody, HolderMap
<1> QED
  BY <1>2, <1>8 DEF AddressSpace!BookNext

LEMMA AcceptActivates ==
  ASSUME IInv, IInv', NEW t \in Transactions, CommitAccept(t)
  PROVE  AddressSpace!BookNext
<1> SUFFICES ASSUME NEW i, i = tx[t].invitation, NEW a, a = tx[t].address
             PROVE  AddressSpace!BookNext
  OBVIOUS
<1>1. /\ tx[t].at = "checked" /\ tx[t].op = "accept"
      /\ invitation' = [invitation EXCEPT ![i] = Over] /\ UNCHANGED setup
  BY DEF CommitAccept, Ready
<1>2. PICK u \in Users :
        /\ account[u] = Unborn
        /\ account' = [account EXCEPT ![u] = [status |-> "enabled", email |-> a]]
  BY DEF CommitAccept
<1>3. /\ i \in Invitations /\ invitation[i].email = a /\ a \in Addresses
  BY <1>1 DEF IInv, Armed, Prepared, OnInvitation
<1>4. /\ invitation'[i].email = NoAddress
      /\ \A j \in Invitations : j # i => invitation'[j] = invitation[j]
      /\ account[u].email = NoAddress /\ account'[u].email = a
      /\ \A v \in Users : v # u => account'[v] = account[v]
  BY <1>1, <1>2, <1>3 DEF IInv, Types, Over, Unborn
<1>5. Holder(a) = i /\ Holder(a)' = u
  BY <1>3, <1>4, HoldersAreKnown, HoldersAreKnownNext DEF HoldersKnown
<1>6. ASSUME NEW b \in Addresses, b # a PROVE Holder(b)' = Holder(b)
  BY <1>3, <1>4, <1>6, HolderStays, EmailsAssumption
<1>7. HolderMap' = [HolderMap EXCEPT ![a] = u]
  BY <1>3, <1>5, <1>6, OneAddressChanges
<1>8. AddressSpace!Activate(a)
  BY <1>1, <1>3, <1>5, <1>7 DEF AddressSpace!Activate, HolderMap
<1> QED
  BY <1>3, <1>8 DEF AddressSpace!BookNext

LEMMA CompleteMoves ==
  ASSUME IInv, IInv', NEW t \in Transactions, CommitComplete(t)
  PROVE  [AddressSpace!BookNext]_AddressSpace!book
<1> SUFFICES ASSUME NEW u, u = tx[t].user, NEW a, a = account[u].email, NEW b, b = tx[t].address
             PROVE  [AddressSpace!BookNext]_AddressSpace!book
  OBVIOUS
<1>1. /\ tx[t].at = "checked" /\ tx[t].op = "complete"
      /\ \A v \in Users \ {u} : account[v].email # b
      /\ account' = [account EXCEPT ![u].email = b] /\ UNCHANGED <<setup, invitation>>
  BY DEF CommitComplete, Ready
<1>2. /\ u \in Users /\ account[u].status = "enabled" /\ b \in Addresses /\ ~Invited(b)
  BY <1>1 DEF IInv, Armed, Prepared, OnAccount
<1>3. /\ a \in Addresses
  BY <1>2 DEF IInv, Types, Account, Exists
<1>4. /\ account'[u].email = b /\ \A v \in Users : v # u => account'[v] = account[v]
  BY <1>1, <1>2 DEF IInv, Types, Account
<1>5. CASE a = b
  BY <1>1, <1>4, <1>5, Stutters
<1>6. CASE a # b
  <2>1. ~Taken(b)
    BY <1>1, <1>6 DEF Taken
  <2>2. ~Taken(a)' /\ ~Invited(a)'
    BY <1>1, <1>2, <1>3, <1>4, <1>6, EmailsAssumption DEF IInv, Distinct, Taken, Invited
  <2>3. Holder(a) = u /\ Holder(b) = Nobody /\ Holder(a)' = Nobody /\ Holder(b)' = u
    BY <1>2, <1>3, <1>4, <2>1, <2>2, HoldersAreKnown, HoldersAreKnownNext DEF HoldersKnown
  <2>4. ASSUME NEW c \in Addresses, c # a, c # b PROVE Holder(c)' = Holder(c)
    BY <1>1, <1>4, <2>4, HolderStays
  <2>5. HolderMap' = [HolderMap EXCEPT ![a] = Nobody, ![b] = HolderMap[a]]
    <3>1. \A c \in Addresses :
            Holder(c)' = IF c = b THEN u ELSE IF c = a THEN Nobody ELSE Holder(c)
      BY <1>6, <2>3, <2>4
    <3>2. HolderMap[a] = u
      BY <1>3, <2>3 DEF HolderMap
    <3> QED
      BY <1>2, <1>3, <3>1, <3>2 DEF HolderMap
  <2>6. AddressSpace!MoveTo(a, b)
    BY <1>1, <1>2, <1>3, <2>3, <2>5
    DEF AddressSpace!MoveTo, AddressSpace!Nobody, Nobody, HolderMap
  <2> QED
    BY <1>2, <1>3, <2>6 DEF AddressSpace!BookNext
<1> QED
  BY <1>5, <1>6

LEMMA OthersMoveNobody ==
  ASSUME IInv, [Next]_vars,
         \A t \in Transactions : ~CommitSetup(t) /\ ~CommitInvite(t) /\ ~CommitRevoke(t)
                                 /\ ~CommitAccept(t) /\ ~CommitComplete(t),
         \A u \in Users : ~DeleteUser(u)
  PROVE  /\ \A u \in Users : account'[u].email = account[u].email
         /\ \A i \in Invitations : invitation'[i].email = invitation[i].email
         /\ setup'.complete = setup.complete
<1> DEFINE Same ==
      /\ \A u \in Users : account'[u].email = account[u].email
      /\ \A i \in Invitations : invitation'[i].email = invitation[i].email
      /\ setup'.complete = setup.complete
<1>1. ASSUME UNCHANGED <<account, invitation>>, setup'.complete = setup.complete PROVE Same
  BY <1>1
<1>2. ASSUME IssueStartupToken \/ TokenLapses PROVE Same
  <2>1. CASE IssueStartupToken
    <3>1. /\ setup' = [complete |-> FALSE, token |-> NewCode, expired |-> FALSE]
          /\ ~setup.complete /\ UNCHANGED <<account, invitation>>
      BY <2>1 DEF IssueStartupToken
    <3>2. setup'.complete = FALSE /\ setup.complete = FALSE
      BY <3>1 DEF IInv, Types, Setup
    <3> QED
      BY <3>1, <3>2
  <2>2. CASE TokenLapses
    <3>1. setup' = [setup EXCEPT !.expired = TRUE] /\ UNCHANGED <<account, invitation>>
      BY <2>2 DEF TokenLapses
    <3> QED
      BY <3>1 DEF IInv, Types, Setup
  <2> QED
    BY <1>2, <2>1, <2>2
<1>3. ASSUME NEW t \in Transactions,
             Abandon(t) \/ (\E a \in Addresses : BeginSetup(t, a)) \/ EmailChange(t) \/ Invite(t)
      PROVE  Same
  <2>1. CASE CommitResend(t)
    <3>1. invitation' = [invitation EXCEPT ![tx[t].invitation] =
                            Linked(invitation[tx[t].invitation].email)]
          /\ UNCHANGED <<setup, account>>
      BY <2>1 DEF CommitResend
    <3> QED
      BY <3>1 DEF Linked, IInv, Types
  <2>2. CASE ~CommitResend(t)
    <3>1. UNCHANGED <<account, invitation, setup>>
      BY <1>3, <2>2
      DEF Abandon, BeginSetup, Start, EmailChange, Invite, BeginRequest, BeginComplete, BeginInvite,
          BeginManage, BeginAccept, MayRequest, MayComplete, MayInvite, MayManage, MayAccept, Checked,
          CommitRequest, MissCode
    <3> QED
      BY <3>1
  <2> QED
    BY <2>1, <2>2
<1>4. ASSUME NEW u \in Users,
             \/ ResendEmailChange(u) \/ Deactivate(u) \/ Reactivate(u)
             \/ CooldownPasses(u) \/ CodeLapses(u) \/ SweepChanges(u)
      PROVE  Same
  <2>1. CASE Deactivate(u) \/ Reactivate(u)
    <3>1. PICK status \in {"enabled", "disabled"} :
            account' = [account EXCEPT ![u].status = status] /\ UNCHANGED <<setup, invitation>>
      BY <2>1 DEF Deactivate, Reactivate
    <3>2. \A v \in Users : account'[v].email = account[v].email
      BY <3>1 DEF IInv, Types, Account
    <3> QED
      BY <3>1, <3>2
  <2>2. CASE ~(Deactivate(u) \/ Reactivate(u))
    BY <1>4, <2>2 DEF ResendEmailChange, CooldownPasses, CodeLapses, SweepChanges
  <2> QED
    BY <2>1, <2>2
<1>5. ASSUME NEW i \in Invitations, LinkLapses(i) PROVE Same
  <2>1. /\ invitation' = [invitation EXCEPT ![i].expired = TRUE]
        /\ UNCHANGED <<setup, account>>
    BY <1>5 DEF LinkLapses
  <2>2. \A j \in Invitations : invitation'[j].email = invitation[j].email
    BY <2>1 DEF IInv, Types, Invitation
  <2> QED
    BY <2>1, <2>2
<1>6. ASSUME UNCHANGED vars PROVE Same
  BY <1>6 DEF vars
<1>7. Same
  BY <1>2, <1>3, <1>4, <1>5, <1>6 DEF Next, EmailChange, Invite
<1> QED
  BY <1>7

LEMMA NextImplements ==
  ASSUME IInv, IInv', [Next]_vars
  PROVE  [AddressSpace!BookNext]_AddressSpace!book
BY SetupTakes, InviteTakes, RevokeReleases, DeleteReleases, AcceptActivates, CompleteMoves,
   OthersMoveNobody, Stutters

LEMMA InitImplements == Init => AddressSpace!BookInit
<1> SUFFICES ASSUME Init PROVE AddressSpace!BookInit
  OBVIOUS
<1>1. ASSUME NEW a \in Addresses PROVE Holder(a) = Nobody
  <2>1. ~Taken(a) /\ ~Invited(a)
    BY EmailsAssumption DEF Init, Taken, Invited, Unborn, NotInvited
  <2> QED
    BY <2>1, InitIInv, HoldersAreKnown DEF HoldersKnown
<1> QED
  BY <1>1 DEF Init, AddressSpace!BookInit, AddressSpace!Nobody, Nobody

(* Accounts and invitations, in two tables with an index each, share one   *)
(* space of addresses as AddressBook says: an address has at most one      *)
(* holder, an invitation becomes an account in one step, and one account   *)
(* only is founded without an invitation.                                  *)
THEOREM AddressesAreShared == Spec => ImplementsAddressBook
<1>1. IInv /\ IInv' /\ [Next]_vars => [AddressSpace!BookNext]_AddressSpace!book
  BY NextImplements
<1> QED
  BY <1>1, InitImplements, InvariantHolds, PTL DEF Spec, ImplementsAddressBook, AddressSpace!BookSpec

-----------------------------------------------------------------------------
(* Who comes to an address has confirmed it *)

LEMMA SetupConfirms ==
  ASSUME IInv, NEW t \in Transactions, CommitSetup(t),
         NEW u \in Users, account'[u].email \notin {account[u].email, NoAddress}
  PROVE  \E n \in DOMAIN issued : Confirms(n, u)
<1> SUFFICES ASSUME NEW n, n = tx[t].digest PROVE \E k \in DOMAIN issued : Confirms(k, u)
  OBVIOUS
<1>1. /\ account[u] = Unborn /\ tx[t].at = "hashing"
      /\ ~setup.complete /\ setup.token = n /\ Serve(n)
  BY DEF CommitSetup, MaySetup, IInv, Types
<1>2. n \in Nat /\ n > 0
  BY <1>1 DEF IInv, Armed, Types, Transaction, Code
<1>3. /\ Last(n, Console) /\ issued[n].to = Console /\ issued[n].from = NoAddress
      /\ n \in 1..Len(issued) /\ issued[n].misses = 0
  BY <1>1, <1>2, EmailsAssumption DEF IInv, TokenKnown, Last, Guessed
<1>4. issued'[n].serves = 1
  BY <1>1, <1>3, ServeUsesOne, EmailsAssumption DEF Last
<1>5. Confirms(n, u)
  BY <1>1, <1>3, <1>4 DEF Confirms, Last, Unborn
<1> QED
  BY <1>3, <1>5 DEF IInv, Types

LEMMA CompleteConfirms ==
  ASSUME IInv, NEW t \in Transactions, CommitComplete(t),
         NEW u \in Users, account'[u].email \notin {account[u].email, NoAddress}
  PROVE  \E n \in DOMAIN issued : Confirms(n, u)
<1> SUFFICES ASSUME NEW n, n = tx[t].digest, NEW who, who = tx[t].user,
                    NEW address, address = tx[t].address
             PROVE  \E k \in DOMAIN issued : Confirms(k, u)
  OBVIOUS
<1>1. /\ tx[t].at = "checked" /\ tx[t].op = "complete" /\ Serve(n)
      /\ account' = [account EXCEPT ![who].email = address]
  BY DEF CommitComplete, Ready
<1>2. who \in Users /\ who = u
  BY <1>1 DEF IInv, Armed, OnAccount, Types
<1>3. /\ account'[u].email = address
      /\ change[u].code = n /\ change[u].id > 0 /\ change[u].new = address
      /\ change[u].attempts > 0
  <2>1. account'[u].email = address
    BY <1>1, <1>2 DEF IInv, Types, Account
  <2>2. /\ change[u].id = tx[t].id /\ change[u].code = n /\ change[u].attempts > 0
        /\ change[u].new = address
    <3>1. Armed(t) /\ Prepared(t) /\ tx[t].user = u
      BY <1>2 DEF IInv
    <3> QED
      BY <1>1, <3>1 DEF Armed, Prepared
  <2>3. tx[t].id > 0
    BY <1>1 DEF IInv, Armed, Types
  <2> QED
    BY <2>1, <2>2, <2>3
<1>4. /\ Last(n, u) /\ issued[n].to = address /\ issued[n].from = account[u].email
      /\ n \in 1..Len(issued) /\ issued[n].misses + change[u].attempts = MaxAttempts
  BY <1>2, <1>3 DEF IInv, ChangeKnown, Last
<1>5. issued[n].misses < MaxAttempts
  <2>1. issued[n] \in Letter /\ change[u].attempts \in Nat
    BY <1>4, EmailsAssumption DEF IInv, Types, Change
  <2> QED
    BY <1>3, <1>4, <2>1, EmailsAssumption DEF Letter
<1>6. issued'[n].serves = 1
  BY <1>1, <1>4, <1>5, ServeUsesOne DEF Last
<1>7. Confirms(n, u)
  BY <1>3, <1>4, <1>6 DEF Confirms, Last
<1> QED
  BY <1>4, <1>7 DEF IInv, Types

LEMMA AcceptConfirms ==
  ASSUME IInv, NEW t \in Transactions, CommitAccept(t),
         NEW u \in Users, account'[u].email \notin {account[u].email, NoAddress}
  PROVE  \E n \in DOMAIN issued : Confirms(n, u)
<1> SUFFICES ASSUME NEW n, n = tx[t].digest, NEW i, i = tx[t].invitation,
                    NEW address, address = tx[t].address
             PROVE  \E k \in DOMAIN issued : Confirms(k, u)
  OBVIOUS
<1>1. /\ tx[t].at = "checked" /\ tx[t].op = "accept" /\ Serve(n)
      /\ invitation' = [invitation EXCEPT ![i] = Over]
  BY DEF CommitAccept, Ready
<1>2. account[u] = Unborn /\ account'[u].email = address
  BY DEF CommitAccept, IInv, Types
<1>3. /\ i \in Invitations /\ invitation[i].status = "pending" /\ invitation[i].email = address
      /\ invitation[i].link = n
  BY <1>1 DEF IInv, Armed, Prepared, OnInvitation
<1>4. /\ Last(n, i) /\ issued[n].to = address /\ issued[n].from = NoAddress
      /\ n \in 1..Len(issued) /\ issued[n].misses = 0
  BY <1>3, EmailsAssumption DEF IInv, LinkKnown, Last, Guessed
<1>5. issued'[n].serves = 1
  BY <1>1, <1>4, ServeUsesOne, EmailsAssumption DEF Last
<1>6. invitation'[i] = Over
  BY <1>1, <1>3 DEF IInv, Types
<1>7. Confirms(n, u)
  BY <1>2, <1>3, <1>4, <1>5, <1>6 DEF Confirms, Last, Unborn
<1> QED
  BY <1>4, <1>7 DEF IInv, Types

LEMMA NextConfirms ==
  ASSUME IInv, [Next]_vars,
         NEW u \in Users, account'[u].email \notin {account[u].email, NoAddress}
  PROVE  \E n \in DOMAIN issued : Confirms(n, u)
<1>1. ASSUME NEW t \in Transactions, CommitInvite(t) \/ CommitRevoke(t) PROVE FALSE
  BY <1>1 DEF CommitInvite, CommitRevoke
<1>2. ASSUME NEW v \in Users, DeleteUser(v) PROVE FALSE
  BY <1>2 DEF DeleteUser, IInv, Types
<1> QED
  BY <1>1, <1>2, SetupConfirms, CompleteConfirms, AcceptConfirms, OthersMoveNobody

(* An account comes to an address only by the last, unused code that was   *)
(* sent there (or printed, for the first account), for its own change from *)
(* the address it has now or for an invitation that ends with it.          *)
THEOREM AddressesConfirmed == Spec => AddressesAreConfirmed
<1>1. IInv /\ [Next]_vars =>
        [\A u \in Users :
           account'[u].email \notin {account[u].email, NoAddress}
             => \E n \in DOMAIN issued : Confirms(n, u)]_vars
  BY NextConfirms
<1> QED
  BY <1>1, InvariantHolds, PTL DEF Spec, AddressesAreConfirmed
=============================================================================
