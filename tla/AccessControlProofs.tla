------------------------ MODULE AccessControlProofs ------------------------
(***************************************************************************)
(* Proofs about AccessControl, for any ids, permissions and transactions.  *)
(*                                                                         *)
(* The argument: every operation of an administrator locks the row of the  *)
(* built-in role, so that two of them are never past their decision at     *)
(* once (ActorsExclude).  What may still come between the decision and     *)
(* the writes of one is the completion of an invitation, which adds an     *)
(* account and takes nothing away, and changes of own accounts, kept out   *)
(* by the lock on the target.  Completions exclude one another and the     *)
(* revocation of their invitation by the lock on its row.                  *)
(***************************************************************************)
EXTENDS AccessControl, FiniteSetTheorems, TLAPS

(* The arguments an operation of its kind has, and the locks it wants.     *)
Armed(op, wants) ==
  /\ op.kind # "completeInvitation" => op.actor \in Users /\ <<1, SuperAdmin>> \in wants
  /\ op.kind \in {"createRole", "replaceRole", "deleteRole"} => op.role \in Roles
  /\ op.kind \in {"replaceRole", "deleteRole"} => <<1, op.role>> \in wants
  /\ op.kind \in {"replaceUserRoles", "revokeSessions", "completeInvitation"} \cup Lifecycle
       => op.target \in Users
  /\ op.kind \in {"replaceUserRoles"} \cup Lifecycle => <<2, op.target>> \in wants
  /\ op.kind \in {"replaceUserRoles", "createInvitation"}
       => op.roles # {} /\ \A r \in op.roles : <<1, r>> \in wants
  /\ op.kind \in {"createInvitation", "revokeInvitation", "completeInvitation"}
       => op.invitation \in Invitations
  /\ op.kind \in {"revokeInvitation", "completeInvitation"} => <<3, op.invitation>> \in wants

WellArmed(c) ==
  /\ tx[c].holds \subseteq tx[c].wants
  /\ tx[c].at = "decided" => tx[c].wants \subseteq tx[c].holds
  /\ tx[c].at # "idle" => Armed(tx[c].op, tx[c].wants)
  /\ tx[c].at = "idle" => tx[c] = Idle

(* A locked role is not deleted under its lock.                            *)
LockedRolesStay ==
  \A c \in Clients : \A r \in Roles : <<1, r>> \in tx[c].holds => role[r].status = "there"

(* CompleteInvitationWithLocale draws the id of its account.               *)
NewIdsDiffer ==
  \A c, d \in Clients :
    c # d /\ tx[c].op.kind = "completeInvitation" /\ tx[d].op.kind = "completeInvitation"
      => tx[c].op.target # tx[d].op.target

Locking ==
  /\ tx \in [Clients -> Transaction]
  /\ \A c, d \in Clients : c # d => tx[c].holds \cap tx[d].holds = {}
  /\ \A c \in Clients : WellArmed(c)
  /\ NewIdsDiffer

Tables ==
  /\ role \in [Roles -> Role]
  /\ user \in [Users -> User]
  /\ invitation \in [Invitations -> Invitation]
  /\ \A u \in Users : user[u].roles # {} => Exists(u)
  /\ role[SuperAdmin].status = "there"
  /\ AssignmentsHold
  /\ AdministratorRemains

IInv == Locking /\ Tables /\ LockedRolesStay /\ DecisionsStand

-----------------------------------------------------------------------------

LEMMA IdleIsTyped == Idle \in Transaction
  BY IdsAssumption DEF Idle, Transaction, Blank, Operation, Kinds

LEMMA InitIInv == Init => IInv
<1> SUFFICES ASSUME Init PROVE IInv
  OBVIOUS
<1>1. Locking
  BY IdleIsTyped DEF Init, Locking, WellArmed, NewIdsDiffer, Idle, Blank
<1>2. Tables
  <2>1. /\ role \in [Roles -> Role] /\ user \in [Users -> User]
        /\ invitation \in [Invitations -> Invitation]
    BY IdsAssumption, StartAssumption DEF Init, Role, User, Invitation
  <2>2. \A u \in Users : user[u].roles # {} => Exists(u)
    BY DEF Init, Exists
  <2>3. role[SuperAdmin].status = "there" /\ AssignmentsHold
    BY IdsAssumption, StartAssumption DEF Init, AssignmentsHold, There, Exists
  <2>4. AdministratorRemains
    BY StartAssumption DEF Init, AdministratorRemains, Enabled, IsSuper
  <2> QED
    BY <2>1, <2>2, <2>3, <2>4 DEF Tables
<1>3. LockedRolesStay /\ DecisionsStand
  BY DEF Init, Idle, LockedRolesStay, DecisionsStand
<1> QED
  BY <1>1, <1>2, <1>3 DEF IInv

-----------------------------------------------------------------------------
(* Steps that only move a transaction *)

Assigned(r) ==
  \/ \E u \in Users : r \in user[u].roles
  \/ \E i \in Invitations : invitation[i].status = "pending" /\ r \in invitation[i].roles

(* The tables stay in order as long as accounts keep status and roles, and *)
(* roles somebody has their status.                                        *)
LEMMA TablesFollow ==
  ASSUME Tables, role' \in [Roles -> Role], user' \in [Users -> User], invitation' = invitation,
         \A u \in Users : user'[u].status = user[u].status /\ user'[u].roles = user[u].roles,
         \A r \in Roles : r = SuperAdmin \/ Assigned(r) => role'[r].status = role[r].status
  PROVE  Tables'
<1>1. \A u \in Users : /\ (Exists(u)' <=> Exists(u)) /\ (Enabled(u)' <=> Enabled(u))
                       /\ (IsSuper(u)' <=> IsSuper(u))
  BY DEF Exists, Enabled, IsSuper
<1>2. AdministratorRemains'
  BY <1>1 DEF Tables, AdministratorRemains
<1>3. \A u \in Users : \A r \in user[u].roles : role'[r].status = role[r].status
  BY DEF Tables, User, Assigned
<1>4. \A i \in Invitations : invitation[i].status = "pending" => \A r \in invitation[i].roles : role'[r].status = role[r].status
  BY DEF Tables, Invitation, Assigned
<1>5. AssignmentsHold'
  <2>1. (\A u \in Users : Exists(u) => user[u].roles # {} /\ There(user[u].roles))'
    BY <1>1, <1>3 DEF Tables, AssignmentsHold, There
  <2>2. (\A i \in Invitations : invitation[i].status = "pending" =>
           invitation[i].roles # {} /\ There(invitation[i].roles))'
    BY <1>4 DEF Tables, AssignmentsHold, There
  <2> QED
    BY <2>1, <2>2 DEF AssignmentsHold
<1>6. role'[SuperAdmin].status = "there"
  BY IdsAssumption DEF Tables
<1>7. \A u \in Users : user'[u].roles # {} => Exists(u)'
  BY <1>1 DEF Tables
<1> QED
  BY <1>2, <1>5, <1>6, <1>7 DEF Tables

(* What is decided, and the tables, do not depend on other transactions.   *)
LEMMA TablesRest ==
  ASSUME IInv, UNCHANGED tables, NEW c \in Clients, NEW t \in Transaction,
         tx' = [tx EXCEPT ![c] = t], t.at = "decided" => Permitted(t.op)
  PROVE  Tables' /\ DecisionsStand'
<1>1. Tables'
  BY TablesFollow DEF IInv, tables, Tables
<1>2. \A op : Permitted(op)' <=> Permitted(op)
  BY DEF tables, Permitted, MayCreateRole, MayReplaceRole, MayDeleteRole, MayReplaceUserRoles,
     MayChangeLifecycle, MayRevokeSessions, MayInvite, Authorized, InScope, Assignable,
     Unreferenced, NotLast, Exists, Enabled, IsSuper, Granted
<1>3. \A d \in Clients : tx'[d].at = "decided" => Permitted(tx'[d].op)
  BY DEF IInv, Locking, DecisionsStand
<1> QED
  BY <1>1, <1>2, <1>3 DEF DecisionsStand

LEMMA BeginKeeps ==
  ASSUME IInv, NEW c \in Clients, NEW op \in Operation, NEW wants \in SUBSET Locks,
         Begin(c, op, wants), Armed(op, wants),
         op.kind = "completeInvitation" => \A d \in Clients : tx[d].op.target # op.target
  PROVE  IInv'
<1> DEFINE t == [at |-> "locking", op |-> op, wants |-> wants, holds |-> {}]
<1>1. t \in Transaction /\ tx' = [tx EXCEPT ![c] = t] /\ UNCHANGED tables
  BY DEF Begin, Transaction
<1>2. Tables' /\ DecisionsStand'
  BY <1>1, TablesRest
<1>3. tx' \in [Clients -> Transaction] /\ tx'[c] = t /\ \A d \in Clients \ {c} : tx'[d] = tx[d]
  BY <1>1 DEF IInv, Locking
<1> HIDE DEF t
<1>4. t.at = "locking" /\ t.op = op /\ t.wants = wants /\ t.holds = {}
  BY DEF t
<1>5. \A d, e \in Clients : d # e => tx'[d].holds \cap tx'[e].holds = {}
  BY <1>3, <1>4 DEF IInv, Locking
<1>6. \A d \in Clients : WellArmed(d)'
  BY <1>3, <1>4 DEF IInv, Locking, WellArmed
<1>7. NewIdsDiffer'
  BY <1>3, <1>4 DEF IInv, Locking, NewIdsDiffer
<1>8. LockedRolesStay'
  BY <1>1, <1>3, <1>4 DEF IInv, LockedRolesStay, tables
<1> QED
  BY <1>2, <1>3, <1>5, <1>6, <1>7, <1>8 DEF IInv, Locking

LEMMA LockKeeps ==
  ASSUME IInv, NEW c \in Clients, Lock(c) PROVE IInv'
<1>1. PICK l \in tx[c].wants : /\ Holder(l) = {} /\ RowExists(l)
                               /\ tx' = [tx EXCEPT ![c].holds = @ \cup {l}]
  BY DEF Lock
<1>2. tx[c].at = "locking" /\ UNCHANGED tables
  BY DEF Lock
<1>3. tx[c] \in Transaction /\ tx \in [Clients -> Transaction]
  BY DEF IInv, Locking
<1> DEFINE t == [tx[c] EXCEPT !.holds = @ \cup {l}]
<1>4. /\ t \in Transaction /\ t.at = "locking" /\ t.op = tx[c].op
      /\ t.wants = tx[c].wants /\ t.holds = tx[c].holds \cup {l}
  BY <1>1, <1>2, <1>3 DEF Transaction
<1>5. tx' = [tx EXCEPT ![c] = t]
  BY <1>1
<1> HIDE DEF t
<1>6. tx' \in [Clients -> Transaction] /\ tx'[c] = t /\ \A d \in Clients \ {c} : tx'[d] = tx[d]
  BY <1>3, <1>4, <1>5
<1>7. Tables' /\ DecisionsStand'
  BY <1>2, <1>4, <1>5, TablesRest
<1>8. \A d \in Clients : l \notin tx[d].holds
  BY <1>1 DEF Holder
<1>9. \A d, e \in Clients : d # e => tx'[d].holds \cap tx'[e].holds = {}
  BY <1>4, <1>6, <1>8 DEF IInv, Locking
<1>10. \A d \in Clients : WellArmed(d)'
  BY <1>1, <1>2, <1>4, <1>6 DEF IInv, Locking, WellArmed
<1>11. NewIdsDiffer'
  BY <1>4, <1>6 DEF IInv, Locking, NewIdsDiffer
<1>12. LockedRolesStay'
  BY <1>1, <1>2, <1>4, <1>6 DEF IInv, LockedRolesStay, RowExists, tables
<1> QED
  BY <1>6, <1>7, <1>9, <1>10, <1>11, <1>12 DEF IInv, Locking

LEMMA PassOverKeeps ==
  ASSUME IInv, NEW c \in Clients, PassOver(c) PROVE IInv'
<1>1. PICK l \in tx[c].wants : /\ NextLock(c, l) /\ ~RowExists(l) /\ l[1] = 1
                               /\ tx' = [tx EXCEPT ![c].wants = @ \ {l}]
  BY DEF PassOver
<1>2. tx[c].at = "locking" /\ tx[c].op.kind \in Lifecycle /\ UNCHANGED tables
  BY DEF PassOver
<1>3. tx[c] \in Transaction /\ tx \in [Clients -> Transaction]
  BY DEF IInv, Locking
<1> DEFINE t == [tx[c] EXCEPT !.wants = @ \ {l}]
<1>4. /\ t \in Transaction /\ t.at = "locking" /\ t.op = tx[c].op
      /\ t.wants = tx[c].wants \ {l} /\ t.holds = tx[c].holds
  BY <1>1, <1>2, <1>3 DEF Transaction
<1>5. tx' = [tx EXCEPT ![c] = t]
  BY <1>1
<1> HIDE DEF t
<1>6. tx' \in [Clients -> Transaction] /\ tx'[c] = t /\ \A d \in Clients \ {c} : tx'[d] = tx[d]
  BY <1>3, <1>4, <1>5
<1>7. Tables' /\ DecisionsStand'
  BY <1>2, <1>4, <1>5, TablesRest
<1>8. l # <<1, SuperAdmin>> /\ l \notin tx[c].holds /\ \A u : l # <<2, u>>
  BY <1>1 DEF IInv, Tables, RowExists, NextLock
<1>9. Armed(tx[c].op, t.wants)
  BY <1>2, <1>4, <1>8 DEF IInv, Locking, WellArmed, Armed, Lifecycle
<1>10. \A d \in Clients : WellArmed(d)'
  BY <1>2, <1>4, <1>6, <1>8, <1>9, ZenonT(40) DEF IInv, Locking, WellArmed
<1>11. NewIdsDiffer' /\ LockedRolesStay' /\ \A d, e \in Clients : d # e => tx'[d].holds \cap tx'[e].holds = {}
  BY <1>2, <1>4, <1>6 DEF IInv, Locking, NewIdsDiffer, LockedRolesStay, tables
<1> QED
  BY <1>6, <1>7, <1>10, <1>11 DEF IInv, Locking

LEMMA DecideKeeps ==
  ASSUME IInv, NEW c \in Clients, Decide(c) PROVE IInv'
<1>1. /\ tx[c].at = "locking" /\ tx[c].wants = tx[c].holds /\ Permitted(tx[c].op)
      /\ tx' = [tx EXCEPT ![c].at = "decided"] /\ UNCHANGED tables
  BY DEF Decide
<1>3. tx[c] \in Transaction /\ tx \in [Clients -> Transaction]
  BY DEF IInv, Locking
<1> DEFINE t == [tx[c] EXCEPT !.at = "decided"]
<1>4. /\ t \in Transaction /\ t.at = "decided" /\ t.op = tx[c].op
      /\ t.wants = tx[c].wants /\ t.holds = tx[c].holds
  BY <1>3 DEF Transaction
<1>5. tx' = [tx EXCEPT ![c] = t]
  BY <1>1
<1> HIDE DEF t
<1>6. tx' \in [Clients -> Transaction] /\ tx'[c] = t /\ \A d \in Clients \ {c} : tx'[d] = tx[d]
  BY <1>3, <1>4, <1>5
<1>7. Tables' /\ DecisionsStand'
  BY <1>1, <1>4, <1>5, TablesRest
<1>10. \A d \in Clients : WellArmed(d)'
  BY <1>1, <1>4, <1>6 DEF IInv, Locking, WellArmed
<1>11. NewIdsDiffer' /\ LockedRolesStay' /\ \A d, e \in Clients : d # e => tx'[d].holds \cap tx'[e].holds = {}
  BY <1>1, <1>4, <1>6 DEF IInv, Locking, NewIdsDiffer, LockedRolesStay, tables
<1> QED
  BY <1>6, <1>7, <1>10, <1>11 DEF IInv, Locking

(* The end of a transaction, with or without its writes.                   *)
LEMMA EndsKeepLocking ==
  ASSUME IInv, NEW c \in Clients, tx' = [tx EXCEPT ![c] = Idle]
  PROVE  /\ Locking' /\ tx'[c] = Idle /\ \A d \in Clients \ {c} : tx'[d] = tx[d]
         /\ tx'[c].holds = {} /\ tx'[c].at = "idle"
<1>1. tx' \in [Clients -> Transaction] /\ tx'[c] = Idle /\ \A d \in Clients \ {c} : tx'[d] = tx[d]
  BY IdleIsTyped DEF IInv, Locking
<1>2. Idle.at = "idle" /\ Idle.op.kind = "createRole" /\ Idle.holds = {} /\ Idle.wants = {}
  BY DEF Idle, Blank
<1>3. \A d, e \in Clients : d # e => tx'[d].holds \cap tx'[e].holds = {}
  BY <1>1, <1>2 DEF IInv, Locking
<1>4. \A d \in Clients : WellArmed(d)'
  BY <1>1, <1>2 DEF IInv, Locking, WellArmed
<1>5. NewIdsDiffer'
  BY <1>1, <1>2 DEF IInv, Locking, NewIdsDiffer
<1> QED
  BY <1>1, <1>2, <1>3, <1>4, <1>5 DEF Locking

LEMMA AbandonKeeps ==
  ASSUME IInv, NEW c \in Clients, Abandon(c) PROVE IInv'
<1>1. tx' = [tx EXCEPT ![c] = Idle] /\ UNCHANGED tables
  BY DEF Abandon
<1>2. Locking' /\ tx'[c].holds = {} /\ \A d \in Clients \ {c} : tx'[d] = tx[d]
  BY <1>1, EndsKeepLocking
<1>3. Tables' /\ DecisionsStand'
  BY <1>1, IdleIsTyped, TablesRest DEF Idle
<1>4. LockedRolesStay'
  BY <1>1, <1>2 DEF IInv, LockedRolesStay, tables
<1> QED
  BY <1>2, <1>3, <1>4 DEF IInv

-----------------------------------------------------------------------------
(* What keeps decisions as they were *)

Actors == Kinds \ {"completeInvitation"}

(* The lock on the built-in role.                                          *)
LEMMA ActorsExclude ==
  ASSUME IInv, NEW c \in Clients, NEW d \in Clients, c # d,
         tx[c].at = "decided", tx[d].at = "decided", tx[c].op.kind # "completeInvitation"
  PROVE  tx[d].op.kind = "completeInvitation"
<1>1. <<1, SuperAdmin>> \in tx[c].holds
  BY DEF IInv, Locking, WellArmed, Armed
<1>2. tx[d].op.kind # "completeInvitation" => <<1, SuperAdmin>> \in tx[d].holds
  BY DEF IInv, Locking, WellArmed, Armed
<1> QED
  BY <1>1, <1>2 DEF IInv, Locking

(* What IInv says of one decided transaction.                              *)
LEMMA Decided ==
  ASSUME IInv, NEW c \in Clients, tx[c].at = "decided"
  PROVE  /\ Permitted(tx[c].op) /\ Armed(tx[c].op, tx[c].holds) /\ tx[c].op \in Operation
         /\ \A d \in Clients \ {c} : \A l \in tx[c].holds : l \notin tx[d].holds
  BY DEF IInv, Locking, WellArmed, DecisionsStand, Transaction

(* A completion needs its invitation and its unused id, and nothing else.  *)
LEMMA CompletionsStand ==
  \A op : /\ op.kind = "completeInvitation" /\ Permitted(op)
          /\ invitation'[op.invitation].status = invitation[op.invitation].status
          /\ user'[op.target].status = user[op.target].status
          => Permitted(op)'
  BY DEF Permitted, Lifecycle

(* While an administrator's transaction writes, only completions wait.     *)
LEMMA ActorWrites ==
  ASSUME IInv, NEW c \in Clients, tx[c].at = "decided", tx[c].op.kind # "completeInvitation",
         tx' = [tx EXCEPT ![c] = Idle],
         \A d \in Clients \ {c} :
           tx[d].at = "decided" /\ tx[d].op.kind = "completeInvitation" =>
             /\ invitation'[tx[d].op.invitation].status = invitation[tx[d].op.invitation].status
             /\ user'[tx[d].op.target].status = user[tx[d].op.target].status
  PROVE  DecisionsStand'
<1> SUFFICES ASSUME NEW d \in Clients, tx'[d].at = "decided" PROVE Permitted(tx[d].op)'
  BY DEF DecisionsStand
<1>1. d # c /\ tx'[d] = tx[d] /\ tx[d].at = "decided"
  BY EndsKeepLocking
<1>2. tx[d].op.kind = "completeInvitation" /\ Permitted(tx[d].op)
  BY <1>1, ActorsExclude, Decided
<1> QED
  BY <1>1, <1>2, CompletionsStand

(* An account that comes into being, with what its invitation carried,     *)
(* leaves every administrator's decision as it is.                         *)
LEMMA AdmissionsStand ==
  ASSUME IInv, NEW u \in Users, NEW i \in Invitations, user[u].status = "none",
         invitation[i].status = "pending",
         user' = [user EXCEPT ![u].status = "enabled", ![u].roles = invitation[i].roles],
         invitation' = [invitation EXCEPT ![i] = [status |-> "gone", roles |-> {}]],
         role' = role
  PROVE  \A op \in Operation :
           /\ op.kind # "completeInvitation" /\ Permitted(op) /\ Armed(op, Locks)
           /\ op.kind = "revokeInvitation" => op.invitation # i
           => Permitted(op)'
<1> SUFFICES ASSUME NEW op \in Operation, op.kind # "completeInvitation", Permitted(op),
                    Armed(op, Locks), op.kind = "revokeInvitation" => op.invitation # i
             PROVE  Permitted(op)'
  OBVIOUS
<1>1. /\ user \in [Users -> User] /\ invitation \in [Invitations -> Invitation]
      /\ \A v \in Users \ {u} : user'[v] = user[v]
      /\ user'[u].status = "enabled" /\ user'[u].roles = invitation[i].roles
      /\ \A j \in Invitations \ {i} : invitation'[j] = invitation[j]
      /\ invitation'[i].roles = {} /\ invitation'[i].status = "gone"
  BY DEF IInv, Tables, User, Invitation
<1>2. \A v \in Users : Enabled(v) => Enabled(v)' /\ Exists(v)' /\ v # u
  BY <1>1 DEF Enabled, Exists
<1>3. ASSUME NEW a \in Users, a # u
      PROVE  /\ \A needs : Authorized(a, needs)' <=> Authorized(a, needs)
             /\ \A ps : InScope(a, ps)' <=> InScope(a, ps)
             /\ \A r : Assignable(a, r)' <=> Assignable(a, r)
             /\ (Exists(a)' <=> Exists(a)) /\ user'[a] = user[a]
  BY <1>1, <1>3 DEF Authorized, InScope, Assignable, Enabled, Exists, IsSuper, Granted
<1>4. ASSUME NEW v \in Users, v # u, NotLast(v) PROVE NotLast(v)'
  <2> DEFINE Available == {w \in Users : Enabled(w) /\ IsSuper(w)}
             Then == {w \in Users : Enabled(w)' /\ IsSuper(w)'}
  <2>1. Available \subseteq Then
    BY <1>1, <1>2 DEF IsSuper
  <2>2. IsFiniteSet(Then) /\ IsFiniteSet(Available)
    BY IdsAssumption, FS_Subset
  <2>3. Cardinality(Available) <= Cardinality(Then)
    BY <2>1, <2>2, FS_Subset
  <2>4. Cardinality(Available) \in Nat /\ Cardinality(Then) \in Nat
    BY <2>2, FS_CardinalityType
  <2>5. Enabled(v) /\ IsSuper(v) <=> Enabled(v)' /\ IsSuper(v)'
    BY <1>1, <1>4 DEF Enabled, IsSuper
  <2> QED
    BY <1>4, <2>3, <2>4, <2>5 DEF NotLast
<1>5. ASSUME NEW r, Unreferenced(r) PROVE Unreferenced(r)'
  BY <1>1, <1>5 DEF Unreferenced
<1>6. op.actor \in Users /\ op.actor # u
  BY DEF Armed, Permitted, MayCreateRole, MayReplaceRole, MayDeleteRole, MayReplaceUserRoles,
     MayChangeLifecycle, MayRevokeSessions, MayInvite, Authorized, Enabled
<1>7. CASE op.kind \in {"createRole", "replaceRole", "deleteRole"}
  BY <1>3, <1>5, <1>6, <1>7 DEF Permitted, MayCreateRole, MayReplaceRole, MayDeleteRole, Lifecycle
<1>8. CASE op.kind \in {"replaceUserRoles", "revokeSessions"}
  <2>1. op.target \in Users /\ op.target # u
    BY <1>8 DEF Armed, Permitted, MayReplaceUserRoles, MayRevokeSessions, Exists, Lifecycle
  <2> QED
    BY <1>3, <1>4, <1>6, <1>8, <2>1 DEF Permitted, MayReplaceUserRoles, MayRevokeSessions, Lifecycle
<1>9. CASE op.kind \in Lifecycle
  <2>1. op.target \in Users /\ op.target # u
    BY <1>9 DEF Armed, Permitted, MayChangeLifecycle, Exists, Enabled, Lifecycle
  <2>2. Enabled(op.target)' <=> Enabled(op.target)
    BY <1>3, <2>1 DEF Enabled
  <2> QED
    BY <1>3, <1>4, <1>6, <1>9, <2>1, <2>2 DEF Permitted, MayChangeLifecycle, Lifecycle
<1>10. CASE op.kind \in {"createInvitation", "revokeInvitation"}
  <2>1. op.invitation \in Invitations /\ op.invitation # i
    BY <1>10 DEF Armed, Permitted, Lifecycle
  <2> QED
    BY <1>1, <1>3, <1>6, <1>10, <2>1 DEF Permitted, MayInvite, Lifecycle
<1> QED
  BY <1>7, <1>8, <1>9, <1>10 DEF Operation, Kinds, Lifecycle

(* So do new versions of accounts whose roles and status stay, if nobody   *)
(* holds them; and a completion does not look at versions.                 *)
LEMMA NewVersionsStand ==
  ASSUME IInv, UNCHANGED <<role, invitation>>, user' \in [Users -> User],
         \A v \in Users : user'[v].status = user[v].status /\ user'[v].roles = user[v].roles
  PROVE  \A op \in Operation :
           /\ Permitted(op) /\ Armed(op, Locks)
           /\ op.kind \in {"replaceUserRoles"} \cup Lifecycle => user'[op.target] = user[op.target]
           => Permitted(op)'
<1> SUFFICES ASSUME NEW op \in Operation, Permitted(op), Armed(op, Locks),
                    op.kind \in {"replaceUserRoles"} \cup Lifecycle
                      => user'[op.target] = user[op.target]
             PROVE  Permitted(op)'
  OBVIOUS
<1>1. ASSUME NEW a \in Users
      PROVE  /\ \A needs : Authorized(a, needs)' <=> Authorized(a, needs)
             /\ \A ps : InScope(a, ps)' <=> InScope(a, ps)
             /\ \A r : Assignable(a, r)' <=> Assignable(a, r)
             /\ (Exists(a)' <=> Exists(a)) /\ (Enabled(a)' <=> Enabled(a))
             /\ (IsSuper(a)' <=> IsSuper(a))
  BY DEF Authorized, InScope, Assignable, Enabled, Exists, IsSuper, Granted
<1>2. \A v \in Users : NotLast(v)' <=> NotLast(v)
  <2>1. {w \in Users : Enabled(w)' /\ IsSuper(w)'} = {w \in Users : Enabled(w) /\ IsSuper(w)}
    BY <1>1
  <2> QED
    BY <1>1, <2>1 DEF NotLast
<1>3. \A r : Unreferenced(r)' <=> Unreferenced(r)
  BY DEF Unreferenced
<1>4. CASE op.kind \in {"createRole", "replaceRole", "deleteRole"}
  BY <1>1, <1>3, <1>4 DEF Armed, Permitted, MayCreateRole, MayReplaceRole, MayDeleteRole, Lifecycle
<1>5. CASE op.kind \in {"replaceUserRoles", "revokeSessions"}
  BY <1>1, <1>2, <1>5 DEF Armed, Permitted, MayReplaceUserRoles, MayRevokeSessions, Lifecycle
<1>6. CASE op.kind \in Lifecycle
  BY <1>1, <1>2, <1>6 DEF Armed, Permitted, MayChangeLifecycle, Lifecycle
<1>7. CASE op.kind \in {"createInvitation", "revokeInvitation", "completeInvitation"}
  BY <1>1, <1>7 DEF Armed, Permitted, MayInvite, Lifecycle
<1> QED
  BY <1>4, <1>5, <1>6, <1>7 DEF Operation, Kinds, Lifecycle

-----------------------------------------------------------------------------
(* The writes *)

LEMMA CommitKeeps ==
  ASSUME IInv, NEW c \in Clients, tx' = [tx EXCEPT ![c] = Idle], Tables', DecisionsStand',
         \A d \in Clients \ {c} : \A r \in Roles :
           <<1, r>> \in tx[d].holds => role'[r].status = "there"
  PROVE  IInv'
<1>1. Locking' /\ tx'[c].holds = {} /\ \A d \in Clients \ {c} : tx'[d] = tx[d]
  BY EndsKeepLocking
<1>2. LockedRolesStay'
  BY <1>1 DEF LockedRolesStay
<1> QED
  BY <1>1, <1>2 DEF IInv

LEMMA CommitCreateRoleKeeps ==
  ASSUME IInv, NEW c \in Clients, CommitCreateRole(c) PROVE IInv'
<1> DEFINE op == tx[c].op
<1>1. /\ tx[c].at = "decided" /\ op.kind = "createRole" /\ tx' = [tx EXCEPT ![c] = Idle]
      /\ role' = [role EXCEPT ![op.role].status = "there", ![op.role].permissions = op.permissions]
      /\ UNCHANGED <<user, invitation>>
  BY DEF CommitCreateRole, Commit
<1>2. op.role \in Roles /\ role[op.role].status = "none" /\ op.permissions \in SUBSET Permissions
  BY <1>1, Decided DEF Armed, Permitted, MayCreateRole, Operation, Lifecycle
<1>3. /\ role' \in [Roles -> Role]
      /\ \A r \in Roles \ {op.role} : role'[r] = role[r]
  <2>1. role[op.role] \in Role
    BY <1>2 DEF IInv, Tables
  <2>2. PICK new : new = [role[op.role] EXCEPT !.status = "there", !.permissions = op.permissions]
    OBVIOUS
  <2>3. new \in Role
    BY <1>2, <2>1, <2>2 DEF Role
  <2>4. role' = [role EXCEPT ![op.role] = new]
    BY <1>1, <1>2, <2>2 DEF IInv, Tables
  <2> HIDE DEF op
  <2> QED
    BY <1>2, <2>3, <2>4 DEF IInv, Tables
<1>4. Tables'
  <2>1. op.role # SuperAdmin
    BY <1>2 DEF IInv, Tables
  <2>2. ~Assigned(op.role)
    <3>1. \A u \in Users : op.role \notin user[u].roles
      BY <1>2 DEF IInv, Tables, AssignmentsHold, There
    <3>2. \A i \in Invitations : invitation[i].status = "pending" => op.role \notin invitation[i].roles
      BY <1>2 DEF IInv, Tables, AssignmentsHold, There
    <3> QED
      BY <3>1, <3>2 DEF Assigned
  <2> QED
    BY <1>1, <1>3, <2>1, <2>2, TablesFollow DEF IInv, Tables
<1>5. DecisionsStand'
  BY <1>1, ActorWrites
<1>6. \A r \in Roles : role[r].status = "there" => role'[r].status = "there"
  BY <1>2, <1>3
<1> QED
  BY <1>1, <1>4, <1>5, <1>6, CommitKeeps DEF IInv, LockedRolesStay

LEMMA CommitReplaceRoleKeeps ==
  ASSUME IInv, NEW c \in Clients, CommitReplaceRole(c) PROVE IInv'
<1> DEFINE op == tx[c].op
<1>1. /\ tx[c].at = "decided" /\ op.kind = "replaceRole" /\ tx' = [tx EXCEPT ![c] = Idle]
      /\ role[op.role].revision < MaxVersion
      /\ \A u \in SignedOut(op) : user[u].version < MaxVersion
      /\ role' = [role EXCEPT ![op.role].permissions = op.permissions, ![op.role].revision = @ + 1]
      /\ user' = [u \in Users |-> IF u \in SignedOut(op) THEN Bumped(u) ELSE user[u]]
      /\ UNCHANGED invitation
  BY DEF CommitReplaceRole, Commit
<1>2. op.role \in Roles /\ op.permissions \in SUBSET Permissions
  BY <1>1, Decided DEF Armed, Operation
<1>3. /\ role' \in [Roles -> Role]
      /\ \A r \in Roles : role'[r].status = role[r].status
  <2>1. role[op.role] \in Role
    BY <1>2 DEF IInv, Tables
  <2>2. PICK new : new = [role[op.role] EXCEPT !.permissions = op.permissions, !.revision = @ + 1]
    OBVIOUS
  <2>5. role[op.role].revision \in 0..MaxVersion /\ role[op.role].revision + 1 \in 0..MaxVersion
    BY <1>1, <2>1, IdsAssumption DEF Role
  <2>3. new \in Role /\ new.status = role[op.role].status
    BY <1>2, <2>1, <2>2, <2>5 DEF Role
  <2>4. role' = [role EXCEPT ![op.role] = new]
    BY <1>1, <1>2, <2>2 DEF IInv, Tables
  <2> HIDE DEF op
  <2> QED
    BY <1>2, <2>3, <2>4 DEF IInv, Tables
<1>4. /\ user' \in [Users -> User]
      /\ \A u \in Users : user'[u].status = user[u].status /\ user'[u].roles = user[u].roles
  BY <1>1, IdsAssumption DEF IInv, Tables, User, Bumped
<1>5. Tables'
  BY <1>1, <1>3, <1>4, TablesFollow DEF IInv
<1>6. \A d \in Clients : tx[d].at = "decided" /\ tx[d].op.kind = "completeInvitation"
        => tx[d].op.target \in Users
  BY Decided DEF Armed
<1>7. DecisionsStand'
  BY <1>1, <1>4, <1>6, ActorWrites
<1> QED
  BY <1>1, <1>3, <1>5, <1>7, CommitKeeps DEF IInv, LockedRolesStay

LEMMA CommitDeleteRoleKeeps ==
  ASSUME IInv, NEW c \in Clients, CommitDeleteRole(c) PROVE IInv'
<1> DEFINE op == tx[c].op
<1>1. /\ tx[c].at = "decided" /\ op.kind = "deleteRole" /\ tx' = [tx EXCEPT ![c] = Idle]
      /\ role' = [role EXCEPT ![op.role].status = "deleted", ![op.role].permissions = {}]
      /\ UNCHANGED <<user, invitation>>
  BY DEF CommitDeleteRole, Commit
<1>2. /\ op.role \in Roles /\ op.role # SuperAdmin /\ Unreferenced(op.role)
      /\ <<1, op.role>> \in tx[c].holds
  BY <1>1, Decided DEF Armed, Permitted, MayDeleteRole, Operation, Lifecycle
<1>3. /\ role' \in [Roles -> Role]
      /\ \A r \in Roles \ {op.role} : role'[r] = role[r]
  BY <1>1, <1>2 DEF IInv, Tables, Role
<1>4. ~Assigned(op.role)
  BY <1>2 DEF Assigned, Unreferenced
<1>5. Tables'
  BY <1>1, <1>2, <1>3, <1>4, TablesFollow DEF IInv, Tables
<1>6. DecisionsStand'
  BY <1>1, ActorWrites
<1>7. \A d \in Clients \ {c} : <<1, op.role>> \notin tx[d].holds
  BY <1>1, <1>2, Decided
<1>8. ASSUME NEW d \in Clients \ {c}, NEW r \in Roles, <<1, r>> \in tx[d].holds
      PROVE  role'[r].status = "there"
  <2>1. r # op.role /\ role[r].status = "there"
    BY <1>7, <1>8 DEF IInv, LockedRolesStay
  <2> QED
    BY <1>3, <2>1
<1> QED
  BY <1>1, <1>5, <1>6, <1>8, CommitKeeps

(* The next version of a row, with its status or its roles changed.        *)
LEMMA NextVersion ==
  ASSUME NEW u \in Users, user[u] \in User, user[u].version < MaxVersion
  PROVE  /\ Bumped(u) \in User
         /\ Bumped(u).status = user[u].status /\ Bumped(u).roles = user[u].roles
         /\ \A s \in {"none", "enabled", "disabled", "deleted"} :
              LET new == [Bumped(u) EXCEPT !.status = s] IN
              new \in User /\ new.status = s /\ new.roles = user[u].roles
         /\ \A rs \in SUBSET Roles :
              LET new == [Bumped(u) EXCEPT !.roles = rs] IN
              new \in User /\ new.status = user[u].status /\ new.roles = rs
<1>1. user[u].version \in 0..MaxVersion /\ user[u].version + 1 \in 0..MaxVersion
  BY IdsAssumption DEF User
<1>2. Bumped(u) = [status |-> user[u].status, roles |-> user[u].roles, version |-> user[u].version + 1]
  BY DEF Bumped, User
<1> QED
  BY <1>1, <1>2 DEF User

(* If u may stop being an available super admin, somebody else is one.     *)
LEMMA AnotherRemains ==
  ASSUME IInv, NEW u \in Users, NotLast(u)
  PROVE  \E v \in Users \ {u} : Enabled(v) /\ IsSuper(v)
<1> DEFINE Available == {v \in Users : Enabled(v) /\ IsSuper(v)}
<1>1. PICK w \in Users : Enabled(w) /\ IsSuper(w)
  BY DEF IInv, Tables, AdministratorRemains
<1>2. CASE w # u
  BY <1>1, <1>2
<1>3. CASE w = u
  <2>1. Cardinality(Available) > 1
    BY <1>1, <1>3 DEF NotLast
  <2>2. Cardinality({u}) = 1
    BY FS_Singleton
  <2>3. Available # {u}
    BY <2>1, <2>2
  <2> QED
    BY <1>1, <1>3, <2>3
<1> QED
  BY <1>2, <1>3

(* Writes of an administrator to one account that exists.                  *)
LEMMA AccountWrites ==
  ASSUME IInv, NEW c \in Clients, tx[c].at = "decided", tx' = [tx EXCEPT ![c] = Idle],
         tx[c].op.kind \in {"replaceUserRoles", "revokeSessions"} \cup Lifecycle,
         NEW u \in Users, u = tx[c].op.target, Exists(u), NEW new \in User,
         user' = [user EXCEPT ![u] = new], UNCHANGED <<role, invitation>>,
         \/ new.status \in {"enabled", "disabled"} /\ new.roles # {} /\ There(new.roles)
         \/ new.status = "deleted" /\ new.roles = {},
         \/ Enabled(u) /\ IsSuper(u) => new.status = "enabled" /\ SuperAdmin \in new.roles
         \/ NotLast(u)
  PROVE  IInv'
<1>1. /\ user' \in [Users -> User] /\ user'[u] = new
      /\ \A v \in Users \ {u} : user'[v] = user[v]
  BY DEF IInv, Tables
<1>2. AdministratorRemains'
  BY <1>1, AnotherRemains DEF IInv, Tables, AdministratorRemains, Enabled, IsSuper
<1>3. Tables'
  BY <1>1, <1>2 DEF IInv, Tables, AssignmentsHold, There, Exists
<1>4. \A d \in Clients : tx[d].at = "decided" /\ tx[d].op.kind = "completeInvitation"
        => tx[d].op.target \in Users \ {u}
  BY Decided DEF Armed, Permitted, Exists, Lifecycle
<1>5. tx[c].op.kind # "completeInvitation"
  BY DEF Lifecycle
<1>6. DecisionsStand'
  BY <1>1, <1>4, <1>5, ActorWrites
<1> QED
  BY <1>3, <1>6, CommitKeeps DEF IInv, LockedRolesStay

LEMMA CommitReplaceUserRolesKeeps ==
  ASSUME IInv, NEW c \in Clients, CommitReplaceUserRoles(c) PROVE IInv'
<1> DEFINE op == tx[c].op
           u == tx[c].op.target
           new == IF user[u].roles = op.roles THEN user[u] ELSE [Bumped(u) EXCEPT !.roles = op.roles]
<1>1. /\ tx[c].at = "decided" /\ op.kind = "replaceUserRoles" /\ tx' = [tx EXCEPT ![c] = Idle]
      /\ user[u].version < MaxVersion /\ user' = [user EXCEPT ![u] = new]
      /\ UNCHANGED <<role, invitation>>
  BY DEF CommitReplaceUserRoles, Commit
<1>2. /\ u \in Users /\ op.roles # {} /\ op.roles \subseteq Roles
      /\ \A r \in op.roles : <<1, r>> \in tx[c].holds
  BY <1>1, Decided DEF Armed, Operation
<1>3. Exists(u) /\ (SuperAdmin \notin op.roles => NotLast(u))
  BY <1>1, Decided DEF Permitted, MayReplaceUserRoles, Lifecycle
<1>4. There(op.roles)
  BY <1>2 DEF There, IInv, LockedRolesStay
<1>5. new \in User /\ new.status = user[u].status /\ new.roles = op.roles
  <2>1. user[u] \in User
    BY <1>2 DEF IInv, Tables
  <2>2. CASE user[u].roles = op.roles
    BY <2>1, <2>2
  <2>3. CASE user[u].roles # op.roles
    <3>1. new = [Bumped(u) EXCEPT !.roles = op.roles]
      BY <2>3
    <3>2. user[u].version < MaxVersion /\ op.roles \in SUBSET Roles
      BY <1>1, <1>2
    <3> HIDE DEF new, u, op
    <3> QED
      BY <1>2, <2>1, <3>1, <3>2, NextVersion
  <2> QED
    BY <2>2, <2>3
<1> HIDE DEF new
<1>6. new.status \in {"enabled", "disabled"}
  BY <1>3, <1>5 DEF Exists
<1> QED
  BY <1>1, <1>2, <1>3, <1>4, <1>5, <1>6, AccountWrites DEF Enabled

LEMMA LifecycleCommitsKeep ==
  ASSUME IInv, NEW c \in Clients,
         CommitDeactivate(c) \/ CommitReactivate(c) \/ CommitDelete(c) \/ CommitRevokeSessions(c)
  PROVE  IInv'
<1> DEFINE op == tx[c].op
           u == tx[c].op.target
<1>1. /\ tx[c].at = "decided" /\ tx' = [tx EXCEPT ![c] = Idle]
      /\ op.kind \in {"deactivate", "reactivate", "delete", "revokeSessions"}
      /\ UNCHANGED <<role, invitation>>
  BY DEF CommitDeactivate, CommitReactivate, CommitDelete, CommitRevokeSessions, Commit
<1>2. u \in Users /\ user[u] \in User /\ user \in [Users -> User]
  BY <1>1, Decided DEF Armed, Lifecycle, IInv, Tables
<1>3. Exists(u)
  BY <1>1, Decided DEF Permitted, MayChangeLifecycle, MayRevokeSessions, Lifecycle, Exists, Enabled
<1>4. user[u].roles # {} /\ There(user[u].roles)
  BY <1>2, <1>3 DEF IInv, Tables, AssignmentsHold
<1>5. CASE CommitDeactivate(c)
  <2>1. user' = [user EXCEPT ![u] = [Bumped(u) EXCEPT !.status = "disabled"]] /\ NotLast(u)
        /\ user[u].version < MaxVersion
    BY <1>5, Decided DEF CommitDeactivate, Commit, Permitted, MayChangeLifecycle, Lifecycle
  <2>2. PICK new : new = [Bumped(u) EXCEPT !.status = "disabled"]
    OBVIOUS
  <2>3. new \in User /\ new.status = "disabled" /\ new.roles = user[u].roles
    BY <1>2, <2>1, <2>2, NextVersion
  <2> QED
    BY <1>1, <1>2, <1>3, <1>4, <2>1, <2>2, <2>3, AccountWrites DEF Lifecycle
<1>6. CASE CommitReactivate(c)
  <2>1. user' = [user EXCEPT ![u] = [Bumped(u) EXCEPT !.status = "enabled"]]
        /\ user[u].version < MaxVersion
    BY <1>6 DEF CommitReactivate
  <2>2. PICK new : new = [Bumped(u) EXCEPT !.status = "enabled"]
    OBVIOUS
  <2>3. new \in User /\ new.status = "enabled" /\ new.roles = user[u].roles
    BY <1>2, <2>1, <2>2, NextVersion
  <2> QED
    BY <1>1, <1>2, <1>3, <1>4, <2>1, <2>2, <2>3, AccountWrites DEF Lifecycle, IsSuper
<1>7. CASE CommitDelete(c)
  <2>1. user' = [user EXCEPT ![u].status = "deleted", ![u].roles = {}] /\ NotLast(u)
    BY <1>7, Decided DEF CommitDelete, Commit, Permitted, MayChangeLifecycle, Lifecycle
  <2>2. PICK new : new = [user[u] EXCEPT !.status = "deleted", !.roles = {}]
    OBVIOUS
  <2>3. new \in User /\ new.status = "deleted" /\ new.roles = {}
    BY <1>2, <2>2 DEF User
  <2>4. user' = [user EXCEPT ![u] = new]
    BY <1>2, <2>1, <2>2
  <2> QED
    BY <1>1, <1>2, <1>3, <2>1, <2>3, <2>4, AccountWrites, ZenonT(40) DEF Lifecycle
<1>8. CASE CommitRevokeSessions(c)
  <2>1. user' = [user EXCEPT ![u] = Bumped(u)] /\ user[u].version < MaxVersion
    BY <1>8 DEF CommitRevokeSessions
  <2>2. PICK new : new = Bumped(u)
    OBVIOUS
  <2>3. new \in User /\ new.status = user[u].status /\ new.roles = user[u].roles
    BY <1>2, <2>1, <2>2, NextVersion
  <2> QED
    BY <1>1, <1>2, <1>3, <1>4, <2>1, <2>2, <2>3, AccountWrites DEF Lifecycle, IsSuper, Enabled, Exists
<1> QED
  BY <1>5, <1>6, <1>7, <1>8

LEMMA CommitCreateInvitationKeeps ==
  ASSUME IInv, NEW c \in Clients, CommitCreateInvitation(c) PROVE IInv'
<1> DEFINE op == tx[c].op
           new == [status |-> "pending", roles |-> op.roles]
<1>1. /\ tx[c].at = "decided" /\ op.kind = "createInvitation" /\ tx' = [tx EXCEPT ![c] = Idle]
      /\ invitation' = [invitation EXCEPT ![op.invitation] = new]
      /\ UNCHANGED <<role, user>>
  BY DEF CommitCreateInvitation, Commit
<1>2. /\ op.invitation \in Invitations /\ op.roles # {} /\ op.roles \subseteq Roles
      /\ \A r \in op.roles : <<1, r>> \in tx[c].holds
      /\ invitation[op.invitation].status = "none"
  BY <1>1, Decided DEF Armed, Operation, Permitted, Lifecycle
<1>3. There(op.roles)
  BY <1>2 DEF There, IInv, LockedRolesStay
<1>4. /\ invitation' \in [Invitations -> Invitation]
      /\ invitation'[op.invitation].roles = op.roles
      /\ \A j \in Invitations \ {op.invitation} : invitation'[j] = invitation[j]
  BY <1>1, <1>2 DEF IInv, Tables, Invitation
<1>5. Tables'
  BY <1>1, <1>2, <1>3, <1>4
  DEF IInv, Tables, AssignmentsHold, There, Exists, AdministratorRemains, Enabled, IsSuper
<1>6. \A d \in Clients : tx[d].at = "decided" /\ tx[d].op.kind = "completeInvitation"
        => tx[d].op.invitation \in Invitations \ {op.invitation}
  BY <1>2, Decided DEF Armed, Permitted, Lifecycle
<1>7. DecisionsStand'
  BY <1>1, <1>4, <1>6, ActorWrites
<1> QED
  BY <1>1, <1>5, <1>7, CommitKeeps DEF IInv, LockedRolesStay

LEMMA CommitRevokeInvitationKeeps ==
  ASSUME IInv, NEW c \in Clients, CommitRevokeInvitation(c) PROVE IInv'
<1> DEFINE op == tx[c].op
           gone == [status |-> "gone", roles |-> {}]
<1>1. /\ tx[c].at = "decided" /\ op.kind = "revokeInvitation" /\ tx' = [tx EXCEPT ![c] = Idle]
      /\ invitation' = [invitation EXCEPT ![op.invitation] = gone]
      /\ UNCHANGED <<role, user>>
  BY DEF CommitRevokeInvitation, Commit
<1>2. op.invitation \in Invitations /\ <<3, op.invitation>> \in tx[c].holds
  BY <1>1, Decided DEF Armed
<1>3. /\ invitation' \in [Invitations -> Invitation] /\ invitation'[op.invitation] = gone
      /\ \A j \in Invitations \ {op.invitation} : invitation'[j] = invitation[j]
  BY <1>1, <1>2 DEF IInv, Tables, Invitation
<1>4. Tables'
  BY <1>1, <1>2, <1>3
  DEF IInv, Tables, AssignmentsHold, There, Exists, AdministratorRemains, Enabled, IsSuper
<1>5. \A d \in Clients \ {c} : tx[d].at = "decided" /\ tx[d].op.kind = "completeInvitation"
        => tx[d].op.invitation \in Invitations \ {op.invitation}
  <2> SUFFICES ASSUME NEW d \in Clients \ {c}, tx[d].at = "decided",
                      tx[d].op.kind = "completeInvitation"
               PROVE  tx[d].op.invitation \in Invitations \ {op.invitation}
    OBVIOUS
  <2>1. tx[d].op.invitation \in Invitations /\ <<3, tx[d].op.invitation>> \in tx[d].holds
    BY Decided DEF Armed
  <2>2. <<3, op.invitation>> \notin tx[d].holds
    BY <1>1, <1>2, Decided
  <2> QED
    BY <2>1, <2>2
<1>6. DecisionsStand'
  BY <1>1, <1>3, <1>5, ActorWrites
<1> QED
  BY <1>1, <1>4, <1>6, CommitKeeps DEF IInv, LockedRolesStay

(* What an operation needs of the locks it has is among all locks.         *)
LEMMA ArmedWithLocks ==
  ASSUME IInv, NEW c \in Clients, tx[c].at = "decided" PROVE Armed(tx[c].op, Locks)
<1>1. Armed(tx[c].op, tx[c].holds)
  BY Decided
<1>2. tx[c].holds \subseteq Locks
  BY DEF IInv, Locking, Transaction
<1> QED
  BY <1>1, <1>2 DEF Armed

LEMMA CommitCompleteInvitationKeeps ==
  ASSUME IInv, NEW c \in Clients, CommitCompleteInvitation(c) PROVE IInv'
<1> DEFINE op == tx[c].op
           u == tx[c].op.target
           i == tx[c].op.invitation
<1>1. /\ tx[c].at = "decided" /\ op.kind = "completeInvitation" /\ tx' = [tx EXCEPT ![c] = Idle]
      /\ user' = [user EXCEPT ![u].status = "enabled", ![u].roles = invitation[i].roles]
      /\ invitation' = [invitation EXCEPT ![i] = [status |-> "gone", roles |-> {}]]
      /\ UNCHANGED role
  BY DEF CommitCompleteInvitation, Commit
<1>2. u \in Users /\ i \in Invitations /\ <<3, i>> \in tx[c].holds
  BY <1>1, Decided DEF Armed
<1>3. user[u].status = "none" /\ invitation[i].status = "pending"
  BY <1>1, Decided DEF Permitted, Lifecycle
<1>4. /\ invitation' \in [Invitations -> Invitation]
      /\ invitation'[i].status = "gone" /\ invitation'[i].roles = {}
      /\ \A j \in Invitations \ {i} : invitation'[j] = invitation[j]
  BY <1>1, <1>2 DEF IInv, Tables, Invitation
<1>5. /\ user' \in [Users -> User]
      /\ user'[u].status = "enabled" /\ user'[u].roles = invitation[i].roles
      /\ \A v \in Users \ {u} : user'[v] = user[v]
  <2>1. user[u] \in User /\ invitation[i].roles \in SUBSET Roles
    BY <1>2 DEF IInv, Tables, Invitation
  <2>2. PICK new : new = [user[u] EXCEPT !.status = "enabled", !.roles = invitation[i].roles]
    OBVIOUS
  <2>3. new \in User /\ new.status = "enabled" /\ new.roles = invitation[i].roles
    BY <2>1, <2>2 DEF User
  <2>4. user' = [user EXCEPT ![u] = new]
    BY <1>1, <1>2, <2>2 DEF IInv, Tables
  <2> HIDE DEF op, u, i
  <2> QED
    BY <1>2, <2>3, <2>4 DEF IInv, Tables
<1>6. Tables'
  <2>1. AssignmentsHold'
    <3>1. invitation[i].roles # {} /\ There(invitation[i].roles)
      BY <1>2, <1>3 DEF IInv, Tables, AssignmentsHold
    <3>2. (\A v \in Users : Exists(v) => user[v].roles # {} /\ There(user[v].roles))'
      BY <1>1, <1>5, <3>1, ZenonT(40) DEF IInv, Tables, AssignmentsHold, There, Exists
    <3>3. (\A j \in Invitations : invitation[j].status = "pending" =>
             invitation[j].roles # {} /\ There(invitation[j].roles))'
      BY <1>1, <1>4 DEF IInv, Tables, AssignmentsHold, There
    <3> QED
      BY <3>2, <3>3 DEF AssignmentsHold
  <2>2. AdministratorRemains'
    BY <1>2, <1>3, <1>5 DEF IInv, Tables, AdministratorRemains, Enabled, IsSuper
  <2> QED
    BY <1>1, <1>4, <1>5, <2>1, <2>2 DEF IInv, Tables, Exists
<1>7. ASSUME NEW d \in Clients \ {c}, tx[d].at = "decided" PROVE Permitted(tx[d].op)'
  <2>1. /\ Permitted(tx[d].op) /\ Armed(tx[d].op, tx[d].holds) /\ Armed(tx[d].op, Locks)
        /\ tx[d].op \in Operation /\ <<3, i>> \notin tx[d].holds /\ tx'[d] = tx[d]
    BY <1>1, <1>2, <1>7, Decided, ArmedWithLocks, EndsKeepLocking
  <2>2. CASE tx[d].op.kind = "completeInvitation"
    <3>1. tx[d].op.invitation \in Invitations /\ <<3, tx[d].op.invitation>> \in tx[d].holds
      BY <2>1, <2>2 DEF Armed
    <3>2. tx[d].op.invitation # i
      BY <2>1, <3>1
    <3>3. tx[d].op.target \in Users
      BY <2>1, <2>2 DEF Armed
    <3>4. tx[d].op.target # u
      BY <1>1, <2>2 DEF IInv, Locking, NewIdsDiffer
    <3> QED
      BY <1>4, <1>5, <2>1, <2>2, <3>1, <3>2, <3>3, <3>4, CompletionsStand
  <2>3. CASE tx[d].op.kind # "completeInvitation"
    <3>1. tx[d].op.kind = "revokeInvitation" => tx[d].op.invitation # i
      BY <2>1 DEF Armed
    <3> HIDE DEF op, u, i
    <3>2. \A o \in Operation :
            /\ o.kind # "completeInvitation" /\ Permitted(o) /\ Armed(o, Locks)
            /\ o.kind = "revokeInvitation" => o.invitation # i
            => Permitted(o)'
      BY <1>1, <1>2, <1>3, AdmissionsStand
    <3> QED
      BY <2>1, <2>3, <3>1, <3>2
  <2> QED
    BY <2>2, <2>3
<1>8. DecisionsStand'
  BY <1>1, <1>7, EndsKeepLocking, ZenonT(40) DEF DecisionsStand
<1> QED
  BY <1>1, <1>6, <1>8, CommitKeeps DEF IInv, LockedRolesStay

LEMMA ChangeOwnAccountKeeps ==
  ASSUME IInv, NEW u \in Users, ChangeOwnAccount(u) PROVE IInv'
<1>1. /\ Enabled(u) /\ Holder(<<2, u>>) = {} /\ user[u].version < MaxVersion
      /\ user' = [user EXCEPT ![u] = Bumped(u)]
      /\ UNCHANGED <<role, invitation, tx>>
  BY DEF ChangeOwnAccount
<1>2. /\ user' \in [Users -> User] /\ \A v \in Users \ {u} : user'[v] = user[v]
      /\ \A v \in Users : user'[v].status = user[v].status /\ user'[v].roles = user[v].roles
  BY <1>1, NextVersion, ZenonT(40) DEF IInv, Tables
<1>3. Tables'
  BY <1>1, <1>2
  DEF IInv, Tables, AssignmentsHold, There, Exists, AdministratorRemains, Enabled, IsSuper
<1>4. ASSUME NEW d \in Clients, tx[d].at = "decided" PROVE Permitted(tx[d].op)'
  <2>1. /\ Permitted(tx[d].op) /\ Armed(tx[d].op, tx[d].holds) /\ Armed(tx[d].op, Locks)
        /\ tx[d].op \in Operation
    BY <1>4, Decided, ArmedWithLocks
  <2>2. tx[d].op.kind \in {"replaceUserRoles"} \cup Lifecycle
          => user'[tx[d].op.target] = user[tx[d].op.target]
    BY <1>1, <1>2, <2>1 DEF Armed, Holder
  <2> QED
    BY <1>1, <1>2, <2>1, <2>2, NewVersionsStand
<1>5. DecisionsStand'
  BY <1>1, <1>4 DEF DecisionsStand
<1> QED
  BY <1>1, <1>3, <1>5 DEF IInv, Locking, WellArmed, NewIdsDiffer, LockedRolesStay
-----------------------------------------------------------------------------
(* Beginnings *)

LEMMA LocksListed ==
  ASSUME IInv, NEW a \in Users
  PROVE  /\ \A rs \in SUBSET Roles : /\ ActorLocks(a, rs) \in SUBSET Locks
                                     /\ <<1, SuperAdmin>> \in ActorLocks(a, rs)
                                     /\ \A r \in rs : <<1, r>> \in ActorLocks(a, rs)
         /\ \A u \in Users : /\ LifecycleLocks(a, u) \in SUBSET Locks
                             /\ <<1, SuperAdmin>> \in LifecycleLocks(a, u)
                             /\ <<2, u>> \in LifecycleLocks(a, u)
         /\ \A u \in Users, rs \in SUBSET Roles :
              /\ AssignmentLocks(a, u, rs) \in SUBSET Locks
              /\ <<1, SuperAdmin>> \in AssignmentLocks(a, u, rs)
              /\ <<2, u>> \in AssignmentLocks(a, u, rs)
              /\ \A r \in rs : <<1, r>> \in AssignmentLocks(a, u, rs)
<1>1. /\ \A u \in Users : user[u].roles \subseteq Roles
      /\ SuperAdmin \in Roles /\ role[SuperAdmin].status = "there"
  BY IdsAssumption DEF IInv, Tables, User
<1>2. \A rs \in SUBSET Roles : /\ ActorLocks(a, rs) \in SUBSET Locks
                               /\ <<1, SuperAdmin>> \in ActorLocks(a, rs)
                               /\ \A r \in rs : <<1, r>> \in ActorLocks(a, rs)
  BY <1>1 DEF ActorLocks, RoleLocks, UserLocks, Locks
<1>3. \A u \in Users : /\ LifecycleLocks(a, u) \in SUBSET Locks
                       /\ <<1, SuperAdmin>> \in LifecycleLocks(a, u)
                       /\ <<2, u>> \in LifecycleLocks(a, u)
  BY <1>1 DEF LifecycleLocks, RoleLocks, UserLocks, Locks
<1>4. \A u \in Users, rs \in SUBSET Roles :
        /\ AssignmentLocks(a, u, rs) \in SUBSET Locks
        /\ <<1, SuperAdmin>> \in AssignmentLocks(a, u, rs)
        /\ <<2, u>> \in AssignmentLocks(a, u, rs)
        /\ \A r \in rs : <<1, r>> \in AssignmentLocks(a, u, rs)
  BY <1>1 DEF AssignmentLocks, RoleLocks, UserLocks, Locks
<1> QED
  BY <1>2, <1>3, <1>4

(* The operations are well-formed and want the locks their kinds need.     *)
LEMMA BeginsKeep ==
  ASSUME IInv, NEW c \in Clients, BeginAny(c) PROVE IInv'
<1> USE DEF Blank, Lifecycle
<1>1. /\ role \in [Roles -> Role] /\ user \in [Users -> User]
      /\ invitation \in [Invitations -> Invitation]
  BY DEF IInv, Tables
<1>2. 0 \in 0..MaxVersion /\ {} \in SUBSET Roles /\ {} \in SUBSET Permissions
  BY IdsAssumption
<1>3. ASSUME NEW a \in Users, BeginRoleOperation(c, a) PROVE IInv'
  <2> PICK r \in Roles : \/ \E p \in Choices : BeginCreateRole(c, a, r, p) \/ BeginReplaceRole(c, a, r, p)
                         \/ BeginDeleteRole(c, a, r)
    BY <1>3 DEF BeginRoleOperation
  <2>0. {r} \in SUBSET Roles /\ role[r].revision \in 0..MaxVersion
    BY <1>1 DEF Role
  <2>1. ASSUME NEW p \in Choices, BeginCreateRole(c, a, r, p) PROVE IInv'
    <3> DEFINE op == [Blank("createRole", a) EXCEPT !.role = r, !.permissions = p]
    <3>1. op \in Operation /\ op.kind = "createRole" /\ op.actor = a /\ op.role = r
      BY <1>2, IdsAssumption DEF Operation, Kinds
    <3>2. Begin(c, op, ActorLocks(a, {}))
      BY <2>1 DEF BeginCreateRole
    <3> HIDE DEF op
    <3>3. Armed(op, ActorLocks(a, {})) /\ ActorLocks(a, {}) \in SUBSET Locks
      BY <1>2, <3>1, LocksListed DEF Armed
    <3> QED
      BY <3>1, <3>2, <3>3, BeginKeeps
  <2>2. ASSUME NEW p \in Choices, BeginReplaceRole(c, a, r, p) PROVE IInv'
    <3> DEFINE op == [Blank("replaceRole", a) EXCEPT !.role = r, !.permissions = p,
                        !.seen = role[r].revision]
    <3>1. op \in Operation /\ op.kind = "replaceRole" /\ op.actor = a /\ op.role = r
      BY <1>2, <2>0, IdsAssumption DEF Operation, Kinds
    <3>2. Begin(c, op, ActorLocks(a, {r}))
      BY <2>2 DEF BeginReplaceRole
    <3> HIDE DEF op
    <3>3. Armed(op, ActorLocks(a, {r})) /\ ActorLocks(a, {r}) \in SUBSET Locks
      BY <2>0, <3>1, LocksListed DEF Armed
    <3> QED
      BY <3>1, <3>2, <3>3, BeginKeeps
  <2>3. ASSUME BeginDeleteRole(c, a, r) PROVE IInv'
    <3> DEFINE op == [Blank("deleteRole", a) EXCEPT !.role = r]
    <3>1. op \in Operation /\ op.kind = "deleteRole" /\ op.actor = a /\ op.role = r
      BY <1>2 DEF Operation, Kinds
    <3>2. Begin(c, op, ActorLocks(a, {r}))
      BY <2>3 DEF BeginDeleteRole
    <3> HIDE DEF op
    <3>3. Armed(op, ActorLocks(a, {r})) /\ ActorLocks(a, {r}) \in SUBSET Locks
      BY <2>0, <3>1, LocksListed DEF Armed
    <3> QED
      BY <3>1, <3>2, <3>3, BeginKeeps
  <2> QED
    BY <2>1, <2>2, <2>3
<1>4. ASSUME NEW a \in Users, BeginUserOperation(c, a) PROVE IInv'
  <2> PICK u \in Users : \/ \E rs \in SUBSET Roles : BeginReplaceUserRoles(c, a, u, rs)
                         \/ \E kind \in Lifecycle : BeginLifecycle(c, a, u, kind)
                         \/ BeginRevokeSessions(c, a, u)
    BY <1>4 DEF BeginUserOperation
  <2>0. user[u].version \in 0..MaxVersion
    BY <1>1 DEF User
  <2>1. ASSUME NEW rs \in SUBSET Roles, BeginReplaceUserRoles(c, a, u, rs) PROVE IInv'
    <3> DEFINE op == [Blank("replaceUserRoles", a) EXCEPT !.target = u, !.roles = rs,
                        !.seen = user[u].version]
    <3>1. /\ op \in Operation /\ op.kind = "replaceUserRoles" /\ op.actor = a /\ op.target = u
          /\ op.roles = rs
      BY <1>2, <2>0 DEF Operation, Kinds
    <3>2. Begin(c, op, AssignmentLocks(a, u, rs)) /\ rs # {}
      BY <2>1 DEF BeginReplaceUserRoles
    <3> HIDE DEF op
    <3>3. Armed(op, AssignmentLocks(a, u, rs)) /\ AssignmentLocks(a, u, rs) \in SUBSET Locks
      BY <3>1, <3>2, LocksListed DEF Armed
    <3> QED
      BY <3>1, <3>2, <3>3, BeginKeeps
  <2>2. ASSUME NEW kind \in Lifecycle, BeginLifecycle(c, a, u, kind) PROVE IInv'
    <3> DEFINE op == [Blank(kind, a) EXCEPT !.target = u, !.seen = user[u].version]
    <3>1. op \in Operation /\ op.kind \in Lifecycle /\ op.actor = a /\ op.target = u
      BY <1>2, <2>0 DEF Operation, Kinds
    <3>2. Begin(c, op, LifecycleLocks(a, u))
      BY <2>2 DEF BeginLifecycle
    <3> HIDE DEF op
    <3>3. Armed(op, LifecycleLocks(a, u)) /\ LifecycleLocks(a, u) \in SUBSET Locks
      BY <3>1, LocksListed DEF Armed
    <3> QED
      BY <3>1, <3>2, <3>3, BeginKeeps
  <2>3. ASSUME BeginRevokeSessions(c, a, u) PROVE IInv'
    <3> DEFINE op == [Blank("revokeSessions", a) EXCEPT !.target = u]
               wants == RoleLocks(user[a].roles \cup {SuperAdmin}) \cup UserLocks({a, u})
    <3>1. op \in Operation /\ op.kind = "revokeSessions" /\ op.actor = a /\ op.target = u
      BY <1>2 DEF Operation, Kinds
    <3>2. Begin(c, op, wants)
      BY <2>3 DEF BeginRevokeSessions
    <3>3. wants \in SUBSET Locks /\ <<1, SuperAdmin>> \in wants
      BY <1>1, IdsAssumption DEF User, RoleLocks, UserLocks, Locks
    <3> HIDE DEF op, wants
    <3>4. Armed(op, wants)
      BY <3>1, <3>3 DEF Armed
    <3> QED
      BY <3>1, <3>2, <3>3, <3>4, BeginKeeps
  <2> QED
    BY <2>1, <2>2, <2>3
<1>5. ASSUME NEW a \in Users, BeginInvitationOperation(c, a) PROVE IInv'
  <2> PICK i \in Invitations : \/ \E rs \in SUBSET Roles : BeginCreateInvitation(c, a, i, rs)
                               \/ BeginRevokeInvitation(c, a, i)
    BY <1>5 DEF BeginInvitationOperation
  <2>1. ASSUME NEW rs \in SUBSET Roles, BeginCreateInvitation(c, a, i, rs) PROVE IInv'
    <3> DEFINE op == [Blank("createInvitation", a) EXCEPT !.invitation = i, !.roles = rs]
    <3>1. /\ op \in Operation /\ op.kind = "createInvitation" /\ op.actor = a
          /\ op.invitation = i /\ op.roles = rs
      BY <1>2 DEF Operation, Kinds
    <3>2. Begin(c, op, ActorLocks(a, rs)) /\ rs # {}
      BY <2>1 DEF BeginCreateInvitation
    <3> HIDE DEF op
    <3>3. Armed(op, ActorLocks(a, rs)) /\ ActorLocks(a, rs) \in SUBSET Locks
      BY <3>1, <3>2, LocksListed DEF Armed
    <3> QED
      BY <3>1, <3>2, <3>3, BeginKeeps
  <2>2. ASSUME BeginRevokeInvitation(c, a, i) PROVE IInv'
    <3> DEFINE op == [Blank("revokeInvitation", a) EXCEPT !.invitation = i]
               wants == ActorLocks(a, invitation[i].roles) \cup InvitationLocks({i})
    <3>1. op \in Operation /\ op.kind = "revokeInvitation" /\ op.actor = a /\ op.invitation = i
      BY <1>2 DEF Operation, Kinds
    <3>2. Begin(c, op, wants)
      BY <2>2 DEF BeginRevokeInvitation
    <3>3. invitation[i].roles \in SUBSET Roles
      BY <1>1 DEF Invitation
    <3>4. /\ ActorLocks(a, invitation[i].roles) \in SUBSET Locks
          /\ <<1, SuperAdmin>> \in ActorLocks(a, invitation[i].roles)
      BY <3>3, LocksListed
    <3>5. wants \in SUBSET Locks /\ <<1, SuperAdmin>> \in wants /\ <<3, i>> \in wants
      BY <3>4 DEF InvitationLocks, Locks
    <3> HIDE DEF op, wants
    <3>6. Armed(op, wants)
      BY <3>1, <3>5 DEF Armed
    <3> QED
      BY <3>1, <3>2, <3>5, <3>6, BeginKeeps
  <2> QED
    BY <2>1, <2>2
<1>6. ASSUME NEW u \in Users, NEW i \in Invitations, BeginCompleteInvitation(c, u, i) PROVE IInv'
  <2> DEFINE op == [Blank("completeInvitation", 0) EXCEPT !.target = u, !.invitation = i]
             wants == RoleLocks(invitation[i].roles) \cup InvitationLocks({i})
  <2>1. op \in Operation /\ op.kind = "completeInvitation" /\ op.target = u /\ op.invitation = i
    BY <1>2 DEF Operation, Kinds
  <2>2. Begin(c, op, wants) /\ \A d \in Clients : tx[d].op.target # u
    BY <1>6 DEF BeginCompleteInvitation
  <2>3. wants \in SUBSET Locks /\ <<3, i>> \in wants
    BY <1>1 DEF Invitation, RoleLocks, InvitationLocks, Locks
  <2> HIDE DEF op, wants
  <2>4. Armed(op, wants)
    BY <2>1, <2>3 DEF Armed
  <2> QED
    BY <2>1, <2>2, <2>3, <2>4, BeginKeeps
<1> QED
  BY <1>3, <1>4, <1>5, <1>6 DEF BeginAny

-----------------------------------------------------------------------------
(* The invariant *)

LEMMA NextIInv == IInv /\ [Next]_vars => IInv'
<1> SUFFICES ASSUME IInv, [Next]_vars PROVE IInv'
  OBVIOUS
<1>1. CASE UNCHANGED vars
  <2>1. UNCHANGED <<role, user, invitation, tx>>
    BY <1>1 DEF vars
  <2>2. \A op : Permitted(op)' <=> Permitted(op)
    BY <2>1 DEF Permitted, MayCreateRole, MayReplaceRole, MayDeleteRole, MayReplaceUserRoles,
       MayChangeLifecycle, MayRevokeSessions, MayInvite, Authorized, InScope, Assignable,
       Unreferenced, NotLast, Exists, Enabled, IsSuper, Granted
  <2>3. DecisionsStand'
    BY <2>1, <2>2 DEF IInv, DecisionsStand
  <2>4. Locking' /\ LockedRolesStay'
    BY <2>1 DEF IInv, Locking, WellArmed, NewIdsDiffer, LockedRolesStay
  <2>5. Tables'
    BY <2>1 DEF IInv, Tables, Exists, AssignmentsHold, There, AdministratorRemains, Enabled, IsSuper
  <2> QED
    BY <2>3, <2>4, <2>5 DEF IInv
<1>2. ASSUME NEW c \in Clients, CommitAny(c) PROVE IInv'
  BY <1>2, CommitCreateRoleKeeps, CommitReplaceRoleKeeps, CommitDeleteRoleKeeps,
     CommitReplaceUserRolesKeeps, LifecycleCommitsKeep, CommitCreateInvitationKeeps,
     CommitRevokeInvitationKeeps, CommitCompleteInvitationKeeps DEF CommitAny
<1>3. ASSUME NEW c \in Clients, BeginAny(c) \/ Lock(c) \/ PassOver(c) \/ Decide(c) \/ Abandon(c)
      PROVE  IInv'
  BY <1>3, BeginsKeep, LockKeeps, PassOverKeeps, DecideKeeps, AbandonKeeps
<1>4. ASSUME NEW u \in Users, ChangeOwnAccount(u) PROVE IInv'
  BY <1>4, ChangeOwnAccountKeeps
<1> QED
  BY <1>1, <1>2, <1>3, <1>4 DEF Next

(* Locks, tables and decisions fit together in every reachable state.      *)
THEOREM InvariantHolds == Spec => []IInv
  BY InitIInv, NextIInv, PTL DEF Spec

(* Every variable of roles, accounts, invitations and transactions holds   *)
(* values of its type, and a row lock has one holder.                      *)
THEOREM TypeCorrect == Spec => []TypeOK
<1>1. IInv => TypeOK
  BY DEF IInv, Locking, Tables, TypeOK
<1> QED
  BY <1>1, InvariantHolds, PTL

(* What a transaction of an administrator or of an invited person was      *)
(* allowed to do when it decided, it is still allowed to do when it writes.*)
THEOREM LocksKeepDecisions == Spec => []DecisionsStand
<1>1. IInv => DecisionsStand
  BY DEF IInv
<1> QED
  BY <1>1, InvariantHolds, PTL

(* Whatever administrators do to each other, and to roles, at the same     *)
(* time, an enabled super admin is left.                                   *)
THEOREM NeverWithoutAdministrator == Spec => []AdministratorRemains
<1>1. IInv => AdministratorRemains
  BY DEF IInv, Tables
<1> QED
  BY <1>1, InvariantHolds, PTL

(* Every account and every open invitation has roles, and they exist.      *)
THEOREM AssignmentsAlwaysHold == Spec => []AssignmentsHold
<1>1. IInv => AssignmentsHold
  BY DEF IInv, Tables
<1> QED
  BY <1>1, InvariantHolds, PTL
-----------------------------------------------------------------------------
(* Nobody is given more than the giver has *)

(* What u, or anybody, gains by a step: permissions, the built-in role.    *)
Gains(u) == (Granted(u)' \ Granted(u) # {}) \/ (IsSuper(u)' /\ ~IsSuper(u))

Giver(c, u) ==
  /\ tx[c].at = "decided" /\ tx'[c].at = "idle" /\ Enabled(tx[c].op.actor)
  /\ \/ IsSuper(tx[c].op.actor)
     \/ Granted(u)' \ Granted(u) \subseteq Granted(tx[c].op.actor) /\ ~(IsSuper(u)' /\ ~IsSuper(u))

(* A step that leaves the roles of u, and what they grant, gives nothing.  *)
LEMMA NothingGained ==
  ASSUME NEW u \in Users, user'[u].roles \subseteq user[u].roles,
         \A r \in user'[u].roles : role'[r].permissions \subseteq role[r].permissions
  PROVE  ~Gains(u)
  BY DEF Gains, Granted, IsSuper

LEMMA ReplacedRoleIsInScope ==
  ASSUME IInv, NEW c \in Clients, CommitReplaceRole(c), NEW u \in Users, Gains(u)
  PROVE  Giver(c, u)
<1> DEFINE op == tx[c].op
<1>1. /\ tx[c].at = "decided" /\ op.kind = "replaceRole" /\ tx' = [tx EXCEPT ![c] = Idle]
      /\ role' = [role EXCEPT ![op.role].permissions = op.permissions, ![op.role].revision = @ + 1]
      /\ user' = [v \in Users |-> IF v \in SignedOut(op) THEN Bumped(v) ELSE user[v]]
  BY DEF CommitReplaceRole, Commit
<1>2. Enabled(op.actor) /\ InScope(op.actor, op.permissions)
  BY <1>1, Decided DEF Permitted, MayReplaceRole, Authorized, Lifecycle
<1>3. user'[u].roles = user[u].roles /\ user[u].roles \subseteq Roles
  BY <1>1 DEF IInv, Tables, User, Bumped
<1>4. \A r \in Roles : \/ role'[r].permissions = op.permissions
                       \/ role'[r].permissions = role[r].permissions
  BY <1>1 DEF IInv, Tables, Role
<1>5. Granted(u)' \ Granted(u) \subseteq op.permissions /\ (IsSuper(u)' => IsSuper(u))
  BY <1>3, <1>4 DEF Granted, IsSuper
<1>6. tx'[c].at = "idle"
  BY <1>1, EndsKeepLocking
<1> QED
  BY <1>1, <1>2, <1>5, <1>6 DEF InScope, Giver

LEMMA NewRolesAreAssignable ==
  ASSUME IInv, NEW c \in Clients, CommitReplaceUserRoles(c), NEW u \in Users, Gains(u)
  PROVE  Giver(c, u)
<1> DEFINE op == tx[c].op
           t == tx[c].op.target
<1>1. /\ tx[c].at = "decided" /\ op.kind = "replaceUserRoles" /\ tx' = [tx EXCEPT ![c] = Idle]
      /\ user' = [user EXCEPT ![t] = IF user[t].roles = op.roles THEN user[t]
                                     ELSE [Bumped(t) EXCEPT !.roles = op.roles]]
      /\ role' = role
  BY DEF CommitReplaceUserRoles, Commit
<1>2. /\ Enabled(op.actor)
      /\ \A r \in op.roles \ user[t].roles : Assignable(op.actor, r)
  BY <1>1, Decided DEF Permitted, MayReplaceUserRoles, Authorized, Lifecycle
<1>3. u = t
  <2>1. u # t => user'[u] = user[u]
    BY <1>1 DEF IInv, Tables
  <2> QED
    BY <1>1, <2>1 DEF Gains, Granted, IsSuper
<1>4. user'[u].roles = op.roles
  BY <1>1, <1>3 DEF IInv, Tables, User, Bumped
<1>5. ~IsSuper(op.actor) => Granted(u)' \ Granted(u) \subseteq Granted(op.actor)
  BY <1>1, <1>2, <1>3, <1>4 DEF Granted, Assignable
<1>6. ~IsSuper(op.actor) /\ IsSuper(u)' => IsSuper(u)
  BY <1>2, <1>3, <1>4 DEF IsSuper, Assignable
<1>7. tx'[c].at = "idle"
  BY <1>1, EndsKeepLocking
<1> QED
  BY <1>1, <1>2, <1>5, <1>6, <1>7 DEF Giver

(* The other steps give no account anything.                               *)
LEMMA OthersGiveNothing ==
  ASSUME IInv, [Next]_vars, \A c \in Clients : ~CommitReplaceRole(c) /\ ~CommitReplaceUserRoles(c),
         NEW u \in Users, Exists(u)
  PROVE  ~Gains(u)
<1>1. CASE UNCHANGED tables
  BY <1>1, NothingGained DEF tables
<1>2. ASSUME NEW c \in Clients, CommitCreateRole(c) PROVE ~Gains(u)
  <2>1. /\ role' = [role EXCEPT ![tx[c].op.role].status = "there",
                                ![tx[c].op.role].permissions = tx[c].op.permissions]
        /\ user' = user /\ tx[c].at = "decided" /\ tx[c].op.kind = "createRole"
    BY <1>2 DEF CommitCreateRole, Commit
  <2>2. tx[c].op.role \in Roles /\ role[tx[c].op.role].status = "none"
    BY <2>1, Decided DEF Armed, Permitted, MayCreateRole, Lifecycle
  <2>3. \A r \in user[u].roles : r \in Roles /\ r # tx[c].op.role
    BY <2>2 DEF IInv, Tables, AssignmentsHold, There, User
  <2>4. \A r \in user[u].roles : role'[r] = role[r]
    BY <2>1, <2>3 DEF IInv, Tables
  <2> QED
    BY <2>1, <2>4, NothingGained
<1>3. ASSUME NEW c \in Clients, CommitDeleteRole(c) PROVE ~Gains(u)
  <2>1. /\ role' = [role EXCEPT ![tx[c].op.role].status = "deleted", ![tx[c].op.role].permissions = {}]
        /\ user' = user
    BY <1>3 DEF CommitDeleteRole
  <2>2. \A r \in Roles : role'[r].permissions \subseteq role[r].permissions
    BY <2>1 DEF IInv, Tables, Role
  <2> QED
    BY <2>1, <2>2, NothingGained DEF IInv, Tables, User
<1>4. ASSUME NEW c \in Clients,
             CommitDeactivate(c) \/ CommitReactivate(c) \/ CommitDelete(c) \/ CommitRevokeSessions(c)
      PROVE  ~Gains(u)
  <2> USE DEF IInv, Tables, User, Bumped
  <2>1. CASE CommitDeactivate(c)
    BY <2>1, NothingGained DEF CommitDeactivate
  <2>2. CASE CommitReactivate(c)
    BY <2>2, NothingGained DEF CommitReactivate
  <2>3. CASE CommitDelete(c)
    BY <2>3, NothingGained DEF CommitDelete
  <2>4. CASE CommitRevokeSessions(c)
    BY <2>4, NothingGained DEF CommitRevokeSessions
  <2> QED
    BY <1>4, <2>1, <2>2, <2>3, <2>4
<1>5. ASSUME NEW c \in Clients, CommitCreateInvitation(c) \/ CommitRevokeInvitation(c)
      PROVE  ~Gains(u)
  BY <1>5, NothingGained DEF CommitCreateInvitation, CommitRevokeInvitation
<1>6. ASSUME NEW c \in Clients, CommitCompleteInvitation(c) PROVE ~Gains(u)
  <2>1. /\ user' = [user EXCEPT ![tx[c].op.target].status = "enabled",
                                ![tx[c].op.target].roles = invitation[tx[c].op.invitation].roles]
        /\ role' = role /\ tx[c].at = "decided" /\ tx[c].op.kind = "completeInvitation"
    BY <1>6 DEF CommitCompleteInvitation, Commit
  <2>2. user[tx[c].op.target].status = "none"
    BY <2>1, Decided DEF Permitted, Lifecycle
  <2>3. user'[u] = user[u]
    BY <2>1, <2>2 DEF IInv, Tables, Exists
  <2> QED
    BY <2>1, <2>3, NothingGained
<1>7. ASSUME NEW v \in Users, ChangeOwnAccount(v) PROVE ~Gains(u)
  <2>1. role' = role /\ user'[u].roles = user[u].roles
    BY <1>7 DEF ChangeOwnAccount, Bumped, IInv, Tables, User
  <2> QED
    BY <2>1, NothingGained
<1>8. ASSUME NEW c \in Clients, BeginAny(c) \/ Lock(c) \/ PassOver(c) \/ Decide(c) \/ Abandon(c)
      PROVE  UNCHANGED tables
  BY <1>8, ZenonT(40) DEF BeginAny, BeginRoleOperation, BeginUserOperation, BeginInvitationOperation,
     BeginCreateRole, BeginReplaceRole, BeginDeleteRole, BeginReplaceUserRoles, BeginLifecycle,
     BeginRevokeSessions, BeginCreateInvitation, BeginRevokeInvitation, BeginCompleteInvitation,
     Begin, Lock, PassOver, Decide, Abandon
<1>9. CASE UNCHANGED vars
  BY <1>1, <1>9 DEF vars, tables
<1> QED
  BY <1>1, <1>2, <1>3, <1>4, <1>5, <1>6, <1>7, <1>8, <1>9 DEF Next, CommitAny

(* When an account gains permissions, or the built-in role, the step is    *)
(* the commit of an enabled actor who has what he gives.                   *)
THEOREM NothingIsEscalated == Spec => NoEscalation
<1>1. ASSUME IInv, [Next]_vars, NEW u \in Users, Exists(u), Gains(u)
      PROVE  \E c \in Clients : Giver(c, u)
  <2>1. PICK c \in Clients : CommitReplaceRole(c) \/ CommitReplaceUserRoles(c)
    BY <1>1, OthersGiveNothing
  <2> QED
    BY <1>1, <2>1, ReplacedRoleIsInScope, NewRolesAreAssignable
<1>2. IInv /\ [Next]_vars =>
        [\A u \in Users : Exists(u) =>
           \A gained \in {Granted(u)' \ Granted(u)} :
             gained # {} \/ (IsSuper(u)' /\ ~IsSuper(u)) =>
               \E c \in Clients :
                 /\ tx[c].at = "decided" /\ tx'[c].at = "idle" /\ Enabled(tx[c].op.actor)
                 /\ \/ IsSuper(tx[c].op.actor)
                    \/ gained \subseteq Granted(tx[c].op.actor) /\ ~(IsSuper(u)' /\ ~IsSuper(u))]_vars
  BY <1>1, Zenon DEF Gains, Giver
<1> QED
  BY <1>2, InvariantHolds, PTL DEF Spec, NoEscalation
-----------------------------------------------------------------------------
(* No deadlock *)

(* Locks are taken in order, and a completion takes none on an account.    *)
LocksInOrder ==
  \A c \in Clients :
    /\ \A k \in tx[c].holds, l \in tx[c].wants \ tx[c].holds : Before(k, l)
    /\ tx[c].op.kind = "completeInvitation" => \A u : <<2, u>> \notin tx[c].wants

LEMMA InitInOrder == Init => LocksInOrder
  BY DEF Init, LocksInOrder, Idle, Blank

LEMMA BeginInOrder ==
  ASSUME IInv, LocksInOrder, NEW c \in Clients, NEW op, NEW wants, Begin(c, op, wants),
         op.kind = "completeInvitation" => \A u : <<2, u>> \notin wants
  PROVE  LocksInOrder'
<1>1. tx'[c] = [at |-> "locking", op |-> op, wants |-> wants, holds |-> {}]
      /\ \A d \in Clients \ {c} : tx'[d] = tx[d]
  BY DEF Begin, IInv, Locking
<1> QED
  BY <1>1 DEF LocksInOrder

LEMMA NextInOrder == IInv /\ LocksInOrder /\ [Next]_vars => LocksInOrder'
<1> SUFFICES ASSUME IInv, LocksInOrder, [Next]_vars PROVE LocksInOrder'
  OBVIOUS
<1>1. tx \in [Clients -> Transaction]
  BY DEF IInv, Locking
<1>2. CASE tx' = tx
  BY <1>2 DEF LocksInOrder
<1>3. ASSUME NEW c \in Clients, tx' = [tx EXCEPT ![c] = Idle] PROVE LocksInOrder'
  <2>1. tx'[c] = Idle /\ \A d \in Clients \ {c} : tx'[d] = tx[d]
    BY <1>1, <1>3
  <2> QED
    BY <2>1 DEF LocksInOrder, Idle, Blank
<1>4. ASSUME NEW c \in Clients, Lock(c) PROVE LocksInOrder'
  <2>1. PICK l \in tx[c].wants : NextLock(c, l) /\ tx' = [tx EXCEPT ![c].holds = @ \cup {l}]
    BY <1>4 DEF Lock
  <2>2. /\ tx'[c].holds = tx[c].holds \cup {l} /\ tx'[c].wants = tx[c].wants
        /\ tx'[c].op = tx[c].op /\ \A d \in Clients \ {c} : tx'[d] = tx[d]
    BY <1>1, <2>1 DEF Transaction
  <2>3. \A k \in tx'[c].holds, m \in tx'[c].wants \ tx'[c].holds : Before(k, m)
    BY <2>1, <2>2 DEF LocksInOrder, NextLock
  <2> QED
    BY <2>2, <2>3 DEF LocksInOrder
<1>5. ASSUME NEW c \in Clients, PassOver(c) PROVE LocksInOrder'
  <2>1. PICK l \in tx[c].wants : tx' = [tx EXCEPT ![c].wants = @ \ {l}]
    BY <1>5 DEF PassOver
  <2>2. /\ tx'[c].holds = tx[c].holds /\ tx'[c].wants = tx[c].wants \ {l}
        /\ tx'[c].op = tx[c].op /\ \A d \in Clients \ {c} : tx'[d] = tx[d]
    BY <1>1, <2>1 DEF Transaction
  <2> QED
    BY <2>2 DEF LocksInOrder
<1>6. ASSUME NEW c \in Clients, Decide(c) PROVE LocksInOrder'
  <2>1. /\ tx'[c].holds = tx[c].holds /\ tx'[c].wants = tx[c].wants
        /\ tx'[c].op = tx[c].op /\ \A d \in Clients \ {c} : tx'[d] = tx[d]
    BY <1>1, <1>6 DEF Decide, Transaction
  <2> QED
    BY <2>1 DEF LocksInOrder
<1>7. ASSUME NEW c \in Clients, BeginAny(c) PROVE LocksInOrder'
  <2>1. ASSUME NEW a \in Users, BeginRoleOperation(c, a) PROVE LocksInOrder'
    BY <2>1, BeginInOrder DEF BeginRoleOperation, BeginCreateRole, BeginReplaceRole, BeginDeleteRole,
       Blank
  <2>2. ASSUME NEW a \in Users, BeginUserOperation(c, a) PROVE LocksInOrder'
    BY <2>2, BeginInOrder DEF BeginUserOperation, BeginReplaceUserRoles, BeginLifecycle,
       BeginRevokeSessions, Blank, Lifecycle
  <2>3. ASSUME NEW a \in Users, BeginInvitationOperation(c, a) PROVE LocksInOrder'
    BY <2>3, BeginInOrder DEF BeginInvitationOperation, BeginCreateInvitation, BeginRevokeInvitation,
       Blank
  <2>4. ASSUME NEW u \in Users, NEW i \in Invitations, BeginCompleteInvitation(c, u, i)
        PROVE  LocksInOrder'
    BY <2>4, BeginInOrder DEF BeginCompleteInvitation, RoleLocks, InvitationLocks
  <2> QED
    BY <1>7, <2>1, <2>2, <2>3, <2>4 DEF BeginAny
<1>8. ASSUME NEW c \in Clients, CommitAny(c) \/ Abandon(c) PROVE tx' = [tx EXCEPT ![c] = Idle]
  BY <1>8 DEF CommitAny, CommitCreateRole, CommitReplaceRole, CommitDeleteRole,
     CommitReplaceUserRoles, CommitDeactivate, CommitReactivate, CommitDelete,
     CommitRevokeSessions, CommitCreateInvitation, CommitRevokeInvitation,
     CommitCompleteInvitation, Commit, Abandon
<1>9. (\E u \in Users : ChangeOwnAccount(u)) \/ UNCHANGED vars => tx' = tx
  BY DEF ChangeOwnAccount, vars
<1> QED
  BY <1>2, <1>3, <1>4, <1>5, <1>6, <1>7, <1>8, <1>9 DEF Next

(* Any set of locks has a last one.                                        *)
LEMMA LastLock ==
  ASSUME NEW W \in SUBSET Locks, W # {} PROVE \E l \in W : \A k \in W : ~Before(l, k)
<1> DEFINE After(l) == {k \in Locks : Before(l, k)}
           Afters == {After(l) : l \in W}
<1>1. IsFiniteSet(Locks)
  <2>1. IsFiniteSet({1}) /\ IsFiniteSet({2}) /\ IsFiniteSet({3})
    BY FS_Singleton
  <2>2. IsFiniteSet({1} \X Roles) /\ IsFiniteSet({2} \X Users) /\ IsFiniteSet({3} \X Invitations)
    BY <2>1, IdsAssumption, FS_Product
  <2>3. IsFiniteSet(({1} \X Roles) \cup ({2} \X Users))
    BY <2>2, FS_Union
  <2> QED
    BY <2>2, <2>3, FS_Union DEF Locks, RoleLocks, UserLocks, InvitationLocks
<1>2. IsWellFoundedOn(StrictSubsetOrdering(Locks), SUBSET Locks)
  BY <1>1, FS_StrictSubsetOrderingWellFounded, FS_FiniteSubsetsOfFinite
<1>3. Afters \subseteq SUBSET Locks /\ Afters # {}
  OBVIOUS
<1>4. PICK x \in Afters : \A y \in Afters : <<y, x>> \notin StrictSubsetOrdering(Locks)
  <2> HIDE DEF Afters
  <2> QED
    BY <1>2, <1>3, WFMin
<1>5. PICK l \in W : x = After(l)
  BY <1>4
<1>6. \A k \in W : Before(l, k) => <<After(k), After(l)>> \in StrictSubsetOrdering(Locks)
  <2> SUFFICES ASSUME NEW k \in W, Before(l, k)
               PROVE  <<After(k), After(l)>> \in StrictSubsetOrdering(Locks)
    OBVIOUS
  <2>1. k \in After(l)
    OBVIOUS
  <2>2. \A m \in Locks : \E i \in Nat, n \in Nat : m = <<i, n>>
    <3>1. \A m \in Locks : \E n \in Roles \cup Users \cup Invitations :
            m = <<1, n>> \/ m = <<2, n>> \/ m = <<3, n>>
      BY DEF Locks, RoleLocks, UserLocks, InvitationLocks
    <3>2. \A n \in Roles \cup Users \cup Invitations : n \in Nat
      BY IdsAssumption
    <3> QED
      BY <3>1, <3>2
  <2>3. k \notin After(k)
    BY <2>2 DEF Before
  <2>4. After(k) \subseteq After(l)
    <3> SUFFICES ASSUME NEW m \in Locks, Before(k, m) PROVE Before(l, m)
      OBVIOUS
    <3>1. \A i, j, h, n, o, p \in Nat :
            Before(<<i, n>>, <<j, o>>) /\ Before(<<j, o>>, <<h, p>>) => Before(<<i, n>>, <<h, p>>)
      BY DEF Before
    <3> QED
      BY <2>2, <3>1
  <2> QED
    BY <2>1, <2>3, <2>4 DEF StrictSubsetOrdering
<1> QED
  BY <1>4, <1>5, <1>6

(* Whoever is past his decision waits for nobody: he who has the lock on a *)
(* holder of the role has the built-in role's as well.                     *)
LEMMA DecidedDoNotWait ==
  ASSUME IInv, LocksInOrder, NEW c \in Clients, NEW d \in Clients, tx[c].at = "decided"
  PROVE  ~WaitsFor(c, d)
<1> SUFFICES ASSUME c # d, NEW u \in SignedOut(tx[c].op), <<2, u>> \in tx[d].holds PROVE FALSE
  BY DEF WaitsFor
<1>1. tx[c].op.kind = "replaceRole"
  BY DEF SignedOut
<1>2. <<1, SuperAdmin>> \in tx[c].holds
  BY <1>1, Decided DEF Armed
<1>3. tx[d].at # "idle" /\ tx[d].holds \subseteq tx[d].wants /\ Armed(tx[d].op, tx[d].wants)
  BY DEF IInv, Locking, WellArmed, Idle
<1>4. <<1, SuperAdmin>> \in tx[d].wants
  BY <1>3 DEF LocksInOrder, Armed
<1>5. ~Before(<<2, u>>, <<1, SuperAdmin>>)
  BY DEF Before
<1>6. <<1, SuperAdmin>> \in tx[d].holds
  BY <1>4, <1>5 DEF LocksInOrder
<1> QED
  BY <1>2, <1>6, Decided

LEMMA NobodyWaitsInACircle == IInv /\ LocksInOrder => NoCircularWait
<1> SUFFICES ASSUME IInv, LocksInOrder, NEW ring \in SUBSET Clients, ring # {},
                    \A c \in ring : \E d \in ring : WaitsFor(c, d)
             PROVE  FALSE
  BY DEF NoCircularWait
<1>1. \A c \in ring : \E d \in ring : \E l \in tx[d].holds : NextLock(c, l)
  BY DecidedDoNotWait DEF WaitsFor
<1> DEFINE W == {l \in Locks : \E c \in ring, d \in ring : l \in tx[d].holds /\ NextLock(c, l)}
<1>2. \A c \in Clients : tx[c].holds \subseteq Locks
  BY DEF IInv, Locking, Transaction
<1>3. W # {}
  BY <1>1, <1>2
<1>4. PICK l \in W : \A k \in W : ~Before(l, k)
  <2> HIDE DEF W
  <2>1. W \subseteq Locks
    BY DEF W
  <2> QED
    BY <1>3, <2>1, LastLock
<1>5. PICK d \in ring : l \in tx[d].holds
  BY <1>4
<1>6. PICK e \in ring : \E m \in tx[e].holds : NextLock(d, m)
  BY <1>1, <1>5
<1>7. PICK k \in tx[e].holds : NextLock(d, k)
  BY <1>6
<1>8. k \in W
  BY <1>2, <1>5, <1>7
<1>9. Before(l, k)
  BY <1>5, <1>7 DEF NextLock, LocksInOrder
<1> QED
  BY <1>4, <1>8, <1>9

(* "One lock order": whatever transactions are in progress, in no set of   *)
(* them does every one wait for a row lock that another of them has.       *)
THEOREM NeverDeadlocked == Spec => []NoCircularWait
<1>1. IInv /\ LocksInOrder => NoCircularWait
  BY NobodyWaitsInACircle
<1> QED
  BY <1>1, InitIInv, NextIInv, InitInOrder, NextInOrder, PTL DEF Spec
=============================================================================
