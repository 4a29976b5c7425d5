--------------------------- MODULE MCAccessControl ---------------------------
(* Instances of AccessControl for TLC. *)
EXTENDS AccessControl, TLC

(* Role contents that satisfy the feature combinations of the catalog. *)
UserManagers == {"users.read", "users.write", "roles.read"}
RoleManagers == {"roles.read", "roles.write"}
Catalog == UserManagers \cup RoleManagers

ClientSymmetry == Permutations(Clients)

(* One super admin at the start; role 2, account 2 and the invitation are   *)
(* still to be created.  Two versions leave nothing to follow a             *)
(* deactivation: see AccountOperations.                                     *)
MostOperations == (Kinds \ {"deactivate", "reactivate"}) \cup {"changeOwnAccount"}
Contents == {UserManagers, Catalog}
NoGrants == [r \in Roles |-> {}]
OneAdministrator == [u \in Users |-> IF u = 1 THEN {SuperAdmin} ELSE {}]

(* Two super admins, one of them disabled, and a third account that manages *)
(* users without being one.                                                 *)
AccountOperations == {"replaceUserRoles", "deactivate", "reactivate"}
ManagersGrant == [r \in Roles |-> IF r = SuperAdmin THEN {} ELSE UserManagers]
TwoAdministrators == [u \in Users |-> IF u = 1 THEN {2} ELSE {SuperAdmin}]
=============================================================================
