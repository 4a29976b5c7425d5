---------------------------- MODULE AccessControl ----------------------------
(***************************************************************************)
(* Who may do what: roles, their permissions, their holders, invitations.  *)
(*                                                                         *)
(* Every operation of an administrator is a transaction under READ         *)
(* COMMITTED.  It lists, unlocked, the rows it is going to need (Begin),   *)
(* locks them one after the other - roles in UUID order, then users in     *)
(* UUID order, then the invitation - (Lock), reads everything it decides   *)
(* on (Decide), and writes and commits (Commit).  Other transactions may   *)
(* take any of their steps in between; only row locks keep them apart.     *)
(*                                                                         *)
(* Ids are numbers in UUID order.  The handlers' own check of the actor,   *)
(* before the transaction, only refuses what Decide refuses as well and is *)
(* left out.  So are names, addresses with the advisory lock that comes    *)
(* before all row locks, and expiry.                                       *)
(***************************************************************************)
EXTENDS Naturals, FiniteSets

CONSTANTS
  Users, Roles, Invitations,  \* ids
  SuperAdmin,   \* the built-in role
  StartRoles,   \* the roles accounts have at the start; {} for no account
  StartGrants,  \* the permissions roles have at the start; {} for no role
  StartDisabled,  \* the accounts disabled at the start
  Offered,      \* bound: the operations that clients call
  Permissions,  \* the live catalog
  Choices,      \* role contents ValidateFeatureSet accepts
  Clients,      \* transactions in progress
  MaxVersion    \* bound on auth_version and on the revision of a role

ASSUME IdsAssumption ==
  /\ Users \subseteq Nat \ {0} /\ Roles \subseteq Nat \ {0} /\ Invitations \subseteq Nat \ {0}
  /\ SuperAdmin \in Roles
  /\ IsFiniteSet(Users) /\ IsFiniteSet(Roles) /\ IsFiniteSet(Invitations)
  /\ Choices \subseteq SUBSET Permissions
  /\ MaxVersion \in Nat \ {0}

(* An installation that has been in use: migration 3 made the accounts of  *)
(* the time super admins, the rest is what operations leave behind.        *)
ASSUME StartAssumption ==
  /\ StartGrants \in [Roles -> SUBSET Permissions] /\ StartGrants[SuperAdmin] = {}
  /\ StartRoles \in [Users -> SUBSET ({SuperAdmin} \cup {r \in Roles : StartGrants[r] # {}})]
  /\ \E u \in Users \ StartDisabled : SuperAdmin \in StartRoles[u]

VARIABLES
  role,        \* auth_roles, auth_role_permissions
  user,        \* auth_users, auth_user_roles
  invitation,  \* auth_user_invitations, auth_invitation_roles
  tx           \* what each client is doing

vars == <<role, user, invitation, tx>>
tables == <<role, user, invitation>>

-----------------------------------------------------------------------------
(* State *)

Role == [status : {"none", "there", "deleted"}, permissions : SUBSET Permissions,
         revision : 0..MaxVersion]

User == [status : {"none", "enabled", "disabled", "deleted"}, roles : SUBSET Roles,
         version : 0..MaxVersion]

Invitation == [status : {"none", "pending", "gone"}, roles : SUBSET Roles]

Kinds ==
  {"createRole", "replaceRole", "deleteRole", "replaceUserRoles", "deactivate",
   "reactivate", "delete", "revokeSessions", "createInvitation",
   "revokeInvitation", "completeInvitation"}

(* The arguments of an operation; 0 and {} where it takes none.  `seen` is *)
(* the version or revision the administrator's page shows.                 *)
Operation == [kind : Kinds, actor : Users \cup {0}, target : Users \cup {0},
              role : Roles \cup {0}, invitation : Invitations \cup {0},
              roles : SUBSET Roles, permissions : SUBSET Permissions,
              seen : 0..MaxVersion]

Blank(kind, actor) ==
  [kind |-> kind, actor |-> actor, target |-> 0, role |-> 0, invitation |-> 0,
   roles |-> {}, permissions |-> {}, seen |-> 0]

(* Row locks, in the order in which they are taken. *)
RoleLocks(rs) == {1} \X rs
UserLocks(us) == {2} \X us
InvitationLocks(is) == {3} \X is
Locks == RoleLocks(Roles) \cup UserLocks(Users) \cup InvitationLocks(Invitations)

Before(k, l) == k[1] < l[1] \/ (k[1] = l[1] /\ k[2] < l[2])

Transaction ==
  [at : {"idle", "locking", "decided"}, op : Operation,
   wants : SUBSET Locks, holds : SUBSET Locks]

Idle == [at |-> "idle", op |-> Blank("createRole", 0), wants |-> {}, holds |-> {}]

Exists(u) == user[u].status \in {"enabled", "disabled"}
Enabled(u) == user[u].status = "enabled"
IsSuper(u) == SuperAdmin \in user[u].roles
Granted(u) == UNION {role[r].permissions : r \in user[u].roles}
There(rs) == \A r \in rs : role[r].status = "there"

Init ==
  /\ role = [r \in Roles |->
               [status |-> IF r = SuperAdmin \/ StartGrants[r] # {} THEN "there" ELSE "none",
                permissions |-> StartGrants[r], revision |-> 1]]
  /\ user = [u \in Users |->
               [status |-> IF StartRoles[u] = {} THEN "none"
                           ELSE IF u \in StartDisabled THEN "disabled" ELSE "enabled",
                roles |-> StartRoles[u], version |-> 1]]
  /\ invitation = [i \in Invitations |-> [status |-> "none", roles |-> {}]]
  /\ tx = [c \in Clients |-> Idle]

-----------------------------------------------------------------------------
(* The rows an operation lists for locking *)

(* lockActorForRoleMutation *)
ActorLocks(a, rs) ==
  RoleLocks(user[a].roles \cup rs \cup {SuperAdmin}) \cup UserLocks({a})

(* mutateUserLifecycle locks every role there is. *)
LifecycleLocks(a, u) ==
  RoleLocks({r \in Roles : role[r].status = "there"}) \cup UserLocks({a, u})

AssignmentLocks(a, u, rs) ==
  RoleLocks(user[a].roles \cup user[u].roles \cup rs \cup {SuperAdmin})
    \cup UserLocks({a, u})

Begin(c, op, wants) ==
  /\ op.kind \in Offered
  /\ tx' = [tx EXCEPT ![c] = [at |-> "locking", op |-> op, wants |-> wants, holds |-> {}]]
  /\ UNCHANGED tables

BeginCreateRole(c, a, r, permissions) ==
  /\ role[r].status = "none"
  /\ Begin(c, [Blank("createRole", a) EXCEPT !.role = r, !.permissions = permissions],
           ActorLocks(a, {}))

BeginReplaceRole(c, a, r, permissions) ==
  /\ role[r].status = "there"
  /\ Begin(c, [Blank("replaceRole", a) EXCEPT !.role = r, !.permissions = permissions,
                 !.seen = role[r].revision],
           ActorLocks(a, {r}))

BeginDeleteRole(c, a, r) ==
  /\ role[r].status = "there"
  /\ Begin(c, [Blank("deleteRole", a) EXCEPT !.role = r], ActorLocks(a, {r}))

BeginReplaceUserRoles(c, a, u, rs) ==
  /\ Exists(u) /\ rs # {} /\ There(rs)
  /\ Begin(c, [Blank("replaceUserRoles", a) EXCEPT !.target = u, !.roles = rs,
                 !.seen = user[u].version],
           AssignmentLocks(a, u, rs))

BeginLifecycle(c, a, u, kind) ==
  /\ Exists(u) /\ a # u
  /\ Begin(c, [Blank(kind, a) EXCEPT !.target = u, !.seen = user[u].version],
           LifecycleLocks(a, u))

BeginRevokeSessions(c, a, u) ==
  /\ Exists(u)
  /\ Begin(c, [Blank("revokeSessions", a) EXCEPT !.target = u],
           RoleLocks(user[a].roles \cup {SuperAdmin}) \cup UserLocks({a, u}))

BeginCreateInvitation(c, a, i, rs) ==
  /\ invitation[i].status = "none" /\ rs # {} /\ There(rs)
  /\ Begin(c, [Blank("createInvitation", a) EXCEPT !.invitation = i, !.roles = rs],
           ActorLocks(a, rs))

BeginRevokeInvitation(c, a, i) ==
  /\ invitation[i].status = "pending"
  /\ Begin(c, [Blank("revokeInvitation", a) EXCEPT !.invitation = i],
           ActorLocks(a, invitation[i].roles) \cup InvitationLocks({i}))

(* Mutant: the invitation is read without FOR UPDATE, its roles likewise. *)
BeginCompleteUnlocked(c, u, i) ==
  /\ invitation[i].status = "pending" /\ user[u].status = "none"
  /\ Begin(c, [Blank("completeInvitation", 0) EXCEPT !.target = u, !.invitation = i], {})

(* The invited person; u is the id of the new account, drawn for no other. *)
BeginCompleteInvitation(c, u, i) ==
  /\ invitation[i].status = "pending" /\ user[u].status = "none"
  /\ \A d \in Clients : tx[d].op.target # u
  /\ Begin(c, [Blank("completeInvitation", 0) EXCEPT !.target = u, !.invitation = i],
           RoleLocks(invitation[i].roles) \cup InvitationLocks({i}))

-----------------------------------------------------------------------------
(* Locking *)

RowExists(l) ==
  \/ l[1] = 1 /\ role[l[2]].status = "there"
  \/ l[1] = 2 /\ Exists(l[2])
  \/ l[1] = 3 /\ invitation[l[2]].status = "pending"

Holder(l) == {d \in Clients : l \in tx[d].holds}

(* Mutant: in whatever order the rows were listed. *)
NextLockUnsorted(c, l) == l \in tx[c].wants \ tx[c].holds

NextLock(c, l) ==
  /\ l \in tx[c].wants \ tx[c].holds
  /\ \A k \in tx[c].wants \ tx[c].holds : k # l => Before(l, k)

Lock(c) ==
  /\ tx[c].at = "locking"
  /\ \E l \in tx[c].wants :
       /\ NextLock(c, l) /\ Holder(l) = {} /\ RowExists(l)
       /\ tx' = [tx EXCEPT ![c].holds = @ \cup {l}]
  /\ UNCHANGED tables

Lifecycle == {"deactivate", "reactivate", "delete"}

(* The scan of all roles passes over one deleted meanwhile.  A row that is *)
(* gone makes every other transaction fail (Abandon).                      *)
PassOver(c) ==
  /\ tx[c].at = "locking" /\ tx[c].op.kind \in Lifecycle
  /\ \E l \in tx[c].wants :
       /\ NextLock(c, l) /\ ~RowExists(l) /\ l[1] = 1
       /\ tx' = [tx EXCEPT ![c].wants = @ \ {l}]
  /\ UNCHANGED tables

-----------------------------------------------------------------------------
(* Decisions, on what is committed when they are taken *)

(* effectivePermissionsTx, and what each operation asks of its actor. *)
Authorized(a, needs) == Enabled(a) /\ (IsSuper(a) \/ needs \subseteq Granted(a))

InScope(a, permissions) == IsSuper(a) \/ permissions \subseteq Granted(a)

(* Mutant: the built-in role has no permission rows, so it seems to be in  *)
(* everybody's scope.                                                      *)
AssignableByPermissions(a, r) == InScope(a, role[r].permissions)

Assignable(a, r) ==
  IsSuper(a) \/ (r # SuperAdmin /\ role[r].permissions \subseteq Granted(a))

RoleManagement == {"roles.read", "roles.write"}

(* Mutant: only users count as holders. *)
UnreferencedByUsers(r) == \A u \in Users : r \notin user[u].roles

Unreferenced(r) ==
  /\ \A u \in Users : r \notin user[u].roles
  /\ \A i \in Invitations : r \notin invitation[i].roles

(* Mutant: counts disabled administrators, too. *)
NotLastHolder(u) ==
  Cardinality({v \in Users : Exists(v) /\ IsSuper(v)}) > 1

(* The guard against losing the last available administrator. *)
NotLast(u) ==
  Enabled(u) /\ IsSuper(u) => Cardinality({v \in Users : Enabled(v) /\ IsSuper(v)}) > 1

MayCreateRole(op) ==
  /\ Authorized(op.actor, RoleManagement) /\ InScope(op.actor, op.permissions)
  /\ role[op.role].status = "none"

MayReplaceRole(op) ==
  /\ role[op.role].status = "there" /\ op.role # SuperAdmin
  /\ role[op.role].revision = op.seen
  /\ Authorized(op.actor, RoleManagement)
  /\ InScope(op.actor, role[op.role].permissions) /\ InScope(op.actor, op.permissions)

MayDeleteRole(op) ==
  /\ role[op.role].status = "there" /\ op.role # SuperAdmin
  /\ Authorized(op.actor, RoleManagement)
  /\ InScope(op.actor, role[op.role].permissions)
  /\ Unreferenced(op.role)

MayReplaceUserRoles(op) ==
  LET old == user[op.target].roles IN
  /\ Exists(op.target) /\ user[op.target].version = op.seen
  /\ Authorized(op.actor, {"users.write", "roles.read"})
  /\ \A r \in (old \ op.roles) \cup (op.roles \ old) : Assignable(op.actor, r)
  /\ SuperAdmin \notin op.roles => NotLast(op.target)

MayChangeLifecycle(op) ==
  /\ user[op.target].version = op.seen
  /\ Authorized(op.actor, {"users.write"})
  /\ \/ op.kind = "deactivate" /\ Enabled(op.target) /\ NotLast(op.target)
     \/ op.kind = "reactivate" /\ user[op.target].status = "disabled"
     \/ op.kind = "delete" /\ Exists(op.target) /\ NotLast(op.target)

MayRevokeSessions(op) ==
  Authorized(op.actor, {"online-users.write"}) /\ Exists(op.target)

MayInvite(op, rs) ==
  /\ Authorized(op.actor, {"invitations.write", "roles.read"})
  /\ \A r \in rs : Assignable(op.actor, r)

Permitted(op) ==
  \/ op.kind = "createRole" /\ MayCreateRole(op)
  \/ op.kind = "replaceRole" /\ MayReplaceRole(op)
  \/ op.kind = "deleteRole" /\ MayDeleteRole(op)
  \/ op.kind = "replaceUserRoles" /\ MayReplaceUserRoles(op)
  \/ op.kind \in Lifecycle /\ MayChangeLifecycle(op)
  \/ op.kind = "revokeSessions" /\ MayRevokeSessions(op)
  \/ /\ op.kind = "createInvitation"
     /\ MayInvite(op, op.roles) /\ invitation[op.invitation].status = "none"
  \/ /\ op.kind = "revokeInvitation" /\ invitation[op.invitation].status = "pending"
     /\ MayInvite(op, invitation[op.invitation].roles)
  \/ /\ op.kind = "completeInvitation" /\ invitation[op.invitation].status = "pending"
     /\ user[op.target].status = "none"

Decide(c) ==
  /\ tx[c].at = "locking" /\ tx[c].wants = tx[c].holds
  /\ Permitted(tx[c].op)
  /\ tx' = [tx EXCEPT ![c].at = "decided"]
  /\ UNCHANGED tables

-----------------------------------------------------------------------------
(* Writes; the commit releases the locks *)

Commit(c, kind) ==
  /\ tx[c].at = "decided" /\ tx[c].op.kind = kind
  /\ tx' = [tx EXCEPT ![c] = Idle]

Bumped(u) == [user[u] EXCEPT !.version = @ + 1]

CommitCreateRole(c) ==
  LET op == tx[c].op IN
  /\ Commit(c, "createRole")
  /\ role' = [role EXCEPT ![op.role].status = "there", ![op.role].permissions = op.permissions]
  /\ UNCHANGED <<user, invitation>>

(* The accounts a replacement of a role signs out: its holders, if its     *)
(* permissions change.  The update locks their rows.                       *)
SignedOut(op) ==
  IF op.kind # "replaceRole" \/ role[op.role].permissions = op.permissions THEN {}
  ELSE {u \in Users : op.role \in user[u].roles}

CommitReplaceRole(c) ==
  LET op == tx[c].op IN
  /\ Commit(c, "replaceRole")
  /\ role[op.role].revision < MaxVersion
  /\ \A u \in SignedOut(op) : Holder(<<2, u>>) \subseteq {c} /\ user[u].version < MaxVersion
  /\ role' = [role EXCEPT ![op.role].permissions = op.permissions,
                          ![op.role].revision = @ + 1]
  /\ user' = [u \in Users |-> IF u \in SignedOut(op) THEN Bumped(u) ELSE user[u]]
  /\ UNCHANGED invitation

CommitDeleteRole(c) ==
  LET op == tx[c].op IN
  /\ Commit(c, "deleteRole")
  /\ role' = [role EXCEPT ![op.role].status = "deleted", ![op.role].permissions = {}]
  /\ UNCHANGED <<user, invitation>>

CommitReplaceUserRoles(c) ==
  LET op == tx[c].op  u == tx[c].op.target IN
  /\ Commit(c, "replaceUserRoles")
  /\ user[u].version < MaxVersion
  /\ user' = [user EXCEPT ![u] =
               IF user[u].roles = op.roles THEN user[u]
               ELSE [Bumped(u) EXCEPT !.roles = op.roles]]
  /\ UNCHANGED <<role, invitation>>

CommitDeactivate(c) ==
  LET u == tx[c].op.target IN
  /\ Commit(c, "deactivate")
  /\ user[u].version < MaxVersion
  /\ user' = [user EXCEPT ![u] = [Bumped(u) EXCEPT !.status = "disabled"]]
  /\ UNCHANGED <<role, invitation>>

CommitReactivate(c) ==
  LET u == tx[c].op.target IN
  /\ Commit(c, "reactivate")
  /\ user[u].version < MaxVersion
  /\ user' = [user EXCEPT ![u] = [Bumped(u) EXCEPT !.status = "enabled"]]
  /\ UNCHANGED <<role, invitation>>

(* Mutant: the assignments stay. *)
CommitDeleteKeepingRoles(c) ==
  /\ Commit(c, "delete")
  /\ user' = [user EXCEPT ![tx[c].op.target].status = "deleted"]
  /\ UNCHANGED <<role, invitation>>

CommitDelete(c) ==
  LET u == tx[c].op.target IN
  /\ Commit(c, "delete")
  /\ user' = [user EXCEPT ![u].status = "deleted", ![u].roles = {}]
  /\ UNCHANGED <<role, invitation>>

CommitRevokeSessions(c) ==
  LET u == tx[c].op.target IN
  /\ Commit(c, "revokeSessions")
  /\ user[u].version < MaxVersion
  /\ user' = [user EXCEPT ![u] = Bumped(u)]
  /\ UNCHANGED <<role, invitation>>

CommitCreateInvitation(c) ==
  LET op == tx[c].op IN
  /\ Commit(c, "createInvitation")
  /\ invitation' = [invitation EXCEPT ![op.invitation] = [status |-> "pending", roles |-> op.roles]]
  /\ UNCHANGED <<role, user>>

CommitRevokeInvitation(c) ==
  LET op == tx[c].op IN
  /\ Commit(c, "revokeInvitation")
  /\ invitation' = [invitation EXCEPT ![op.invitation] = [status |-> "gone", roles |-> {}]]
  /\ UNCHANGED <<role, user>>

CommitCompleteInvitation(c) ==
  LET op == tx[c].op IN
  /\ Commit(c, "completeInvitation")
  /\ user' = [user EXCEPT ![op.target].status = "enabled",
                          ![op.target].roles = invitation[op.invitation].roles]
  /\ invitation' = [invitation EXCEPT ![op.invitation] = [status |-> "gone", roles |-> {}]]
  /\ UNCHANGED role

(* Refusals, rows that are gone, errors, a database that gives up waiting. *)
Abandon(c) ==
  /\ tx[c].at # "idle"
  /\ tx' = [tx EXCEPT ![c] = Idle]
  /\ UNCHANGED tables

(* Password and address changes lock their own account only, and move its  *)
(* version, in one transaction.                                            *)
ChangeOwnAccount(u) ==
  /\ "changeOwnAccount" \in Offered
  /\ Enabled(u) /\ Holder(<<2, u>>) = {} /\ user[u].version < MaxVersion
  /\ user' = [user EXCEPT ![u] = Bumped(u)]
  /\ UNCHANGED <<role, invitation, tx>>

-----------------------------------------------------------------------------
BeginRoleOperation(c, a) ==
  \E r \in Roles :
    \/ \E p \in Choices : BeginCreateRole(c, a, r, p) \/ BeginReplaceRole(c, a, r, p)
    \/ BeginDeleteRole(c, a, r)

BeginUserOperation(c, a) ==
  \E u \in Users :
    \/ \E rs \in SUBSET Roles : BeginReplaceUserRoles(c, a, u, rs)
    \/ \E kind \in Lifecycle : BeginLifecycle(c, a, u, kind)
    \/ BeginRevokeSessions(c, a, u)

BeginInvitationOperation(c, a) ==
  \E i \in Invitations :
    \/ \E rs \in SUBSET Roles : BeginCreateInvitation(c, a, i, rs)
    \/ BeginRevokeInvitation(c, a, i)

BeginAny(c) ==
  /\ tx[c].at = "idle"
  /\ \/ \E a \in {u \in Users : Exists(u)} :
          BeginRoleOperation(c, a) \/ BeginUserOperation(c, a) \/ BeginInvitationOperation(c, a)
     \/ \E u \in Users, i \in Invitations : BeginCompleteInvitation(c, u, i)

CommitAny(c) ==
  \/ CommitCreateRole(c) \/ CommitReplaceRole(c) \/ CommitDeleteRole(c)
  \/ CommitReplaceUserRoles(c)
  \/ CommitDeactivate(c) \/ CommitReactivate(c) \/ CommitDelete(c)
  \/ CommitRevokeSessions(c)
  \/ CommitCreateInvitation(c) \/ CommitRevokeInvitation(c) \/ CommitCompleteInvitation(c)

Next ==
  \/ \E c \in Clients : BeginAny(c) \/ Lock(c) \/ PassOver(c) \/ Decide(c) \/ CommitAny(c) \/ Abandon(c)
  \/ \E u \in Users : ChangeOwnAccount(u)

Spec == Init /\ [][Next]_vars

-----------------------------------------------------------------------------
(* Properties *)

(* Every variable holds values of its type; only accounts there are hold   *)
(* roles (the cascade of a deletion), and a lock has one holder.           *)
TypeOK ==
  /\ role \in [Roles -> Role]
  /\ user \in [Users -> User]
  /\ invitation \in [Invitations -> Invitation]
  /\ tx \in [Clients -> Transaction]
  /\ \A u \in Users : user[u].roles # {} => Exists(u)
  /\ \A c, d \in Clients : c # d => tx[c].holds \cap tx[d].holds = {}

(* CONTEXT.md, "Available Super Admin": there is always one who is not     *)
(* disabled, whatever administrators do to one another at the same time.   *)
AdministratorRemains == \E u \in Users : Enabled(u) /\ IsSuper(u)

(* What a transaction was allowed to do it is still allowed to do when it  *)
(* writes: its locks keep authority, scope, versions, references and the   *)
(* count of administrators as they were read.                              *)
DecisionsStand == \A c \in Clients : tx[c].at = "decided" => Permitted(tx[c].op)

(* CONTEXT.md, "Assignable role": nobody hands out, to others or himself,  *)
(* what he has not got.  When an account gains permissions, some committing *)
(* actor is enabled and has them; super admins alone make super admins.    *)
NoEscalation ==
  [][\A u \in Users : Exists(u) =>
       \A gained \in {Granted(u)' \ Granted(u)} :
         gained # {} \/ (IsSuper(u)' /\ ~IsSuper(u)) =>
           \E c \in Clients :
             /\ tx[c].at = "decided" /\ tx'[c].at = "idle" /\ Enabled(tx[c].op.actor)
             /\ \/ IsSuper(tx[c].op.actor)
                \/ gained \subseteq Granted(tx[c].op.actor) /\ ~(IsSuper(u)' /\ ~IsSuper(u))]_vars

(* CONTEXT.md, "Role assignment": a role somebody holds or is invited to   *)
(* exists, and every account and every open invitation has one.            *)
AssignmentsHold ==
  /\ \A u \in Users : Exists(u) => user[u].roles # {} /\ There(user[u].roles)
  /\ \A i \in Invitations : invitation[i].status = "pending" =>
       invitation[i].roles # {} /\ There(invitation[i].roles)

(* access.go on lockRoles: the operations are "on one lock order".  In no  *)
(* set of transactions does everyone wait for a row that one of them has.  *)
WaitsFor(c, d) ==
  \/ tx[c].at = "locking" /\ \E l \in tx[d].holds : NextLock(c, l)
  \/ tx[c].at = "decided" /\ c # d /\ \E u \in SignedOut(tx[c].op) : <<2, u>> \in tx[d].holds

NoCircularWait ==
  \A ring \in SUBSET Clients :
    ring # {} => \E c \in ring : \A d \in ring : ~WaitsFor(c, d)

=============================================================================
