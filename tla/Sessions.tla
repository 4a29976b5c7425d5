------------------------------- MODULE Sessions -------------------------------
(***************************************************************************)
(* Who is signed in: accounts, session tokens and password reset links.    *)
(*                                                                         *)
(* `account` is auth_users, `session` auth_sessions, `reset` the table     *)
(* auth_password_resets.  auth_version is the revocation authority: a      *)
(* session carries the version its login read, and every operation that    *)
(* ends sessions adds one to it.  Logins, requests, password changes and   *)
(* completions of a reset read, compute and write in separate steps, and   *)
(* everything else may happen between them.  Each action is one SQL        *)
(* statement or transaction.                                               *)
(*                                                                         *)
(* Tokens and selectors are random and never drawn twice.  Argon2 is what  *)
(* it promises: a typed password verifies iff it is the stored one.  Email *)
(* addresses, roles, rate limits and the mail itself are left to other     *)
(* modules.                                                                *)
(***************************************************************************)
EXTENDS Naturals, FiniteSets

CONSTANTS
  Users,       \* account ids
  Passwords,   \* what people type
  Tokens,      \* session tokens
  Links,       \* selectors of password reset links
  Clients,     \* HTTP requests in progress
  MaxVersion,  \* bound on auth_version
  None         \* no user, token, link, session row or reset row

ASSUME VersionAssumption == MaxVersion \in Nat \ {0}

VARIABLES
  account,  \* auth_users
  session,  \* auth_sessions
  reset,    \* auth_password_resets
  op,       \* what each client is doing
  drawn,    \* tokens drawn so far
  cookies,  \* tokens that a login handed to a browser
  letter    \* observer: each link as it was mailed, and how often it worked

vars == <<account, session, reset, op, drawn, cookies, letter>>

-----------------------------------------------------------------------------
(* State *)

Account == [status : {"enabled", "disabled", "deleted"},
            version : 1..MaxVersion, password : Passwords]

(* `password` and `late` are observers: what the login proved to know, and *)
(* whether the account was revoked after the login had read it.            *)
Session == [user : Users, version : 1..MaxVersion,
            fresh : BOOLEAN,    \* before idle_expires_at and absolute_expires_at
            revoked : BOOLEAN,  \* disabled_revoked
            password : Passwords, late : BOOLEAN]

Reset == [link : Links, valid : BOOLEAN]

(* The links mailed, with the password of the account when they were. *)
Letter == [password : Passwords, uses : Nat]

ASSUME NoneAssumption == None \notin Users \cup Session \cup Reset \cup Letter

Places ==
  {"idle", "verified", "created", "resolved", "checked", "serving", "changing",
   "targeted", "hashed"}

(* The local variables of a handler.  `late` is an observer: the session   *)
(* of a request was not live when the request began, or its account was    *)
(* revoked before the request read it; or the account that a login or a    *)
(* password change read has been revoked since.                            *)
Op == [at : Places, user : Users \cup {None}, token : Tokens \cup {None},
       link : Links \cup {None}, version : 0..MaxVersion,
       password : Passwords \cup {None}, late : BOOLEAN]

Idle == [at |-> "idle", user |-> None, token |-> None, link |-> None,
         version |-> 0, password |-> None, late |-> FALSE]

Enabled(u) == account[u].status = "enabled"

(* The conditions of ValidSessions. *)
Live(t) ==
  /\ session[t] # None
  /\ session[t].fresh /\ ~session[t].revoked
  /\ Enabled(session[t].user)
  /\ session[t].version = account[session[t].user].version

Holds(u, l) == reset[u] # None /\ reset[u].link = l

Init ==
  /\ account \in [Users -> {[status |-> "enabled", version |-> 1, password |-> p] : p \in Passwords}]
  /\ session = [t \in Tokens |-> None]
  /\ reset = [u \in Users |-> None]
  /\ op = [c \in Clients |-> Idle]
  /\ drawn = {} /\ cookies = {}
  /\ letter = [l \in Links |-> None]

-----------------------------------------------------------------------------
(* What the operations that revoke access have in common *)

Reads == {"verified", "changing"}

(* What was read is yet to be compared with the account.                   *)
Pending == Reads \cup {"resolved"}

(* auth_version = auth_version + 1: sessions of the old version are dead,  *)
(* and operations that have read the session or the account are late.      *)
Revoke(us) ==
  /\ \A u \in us : account[u].version < MaxVersion
  /\ op' = [c \in Clients |->
             IF op[c].at \in Pending /\ op[c].user \in us
             THEN [op[c] EXCEPT !.late = TRUE] ELSE op[c]]

(* The same, by client c, which answers. *)
RevokeBy(c, u) ==
  /\ account[u].version < MaxVersion
  /\ op' = [d \in Clients |->
             IF d = c THEN Idle
             ELSE IF op[d].at \in Pending /\ op[d].user = u
             THEN [op[d] EXCEPT !.late = TRUE] ELSE op[d]]

Bumped(u) == [account[u] EXCEPT !.version = @ + 1]

Step(c, place) == op' = [op EXCEPT ![c].at = place]

(* A handler returns, for whatever error or refusal, or its process dies.  *)
(* The branches that refuse and change nothing are this action.            *)
Abandon(c) ==
  /\ op[c].at # "idle"
  /\ op' = [op EXCEPT ![c] = Idle]
  /\ UNCHANGED <<account, session, reset, drawn, cookies, letter>>

-----------------------------------------------------------------------------
(* Login *)

(* FindByCanonicalEmail and Verify: the password typed is the stored one. *)
FindByCanonicalEmail(c, u) ==
  /\ op[c].at = "idle"
  /\ Enabled(u)
  /\ op' = [op EXCEPT ![c] = [Idle EXCEPT !.at = "verified", !.user = u,
              !.version = account[u].version, !.password = account[u].password]]
  /\ UNCHANGED <<account, session, reset, drawn, cookies, letter>>

NewSession(c, version) ==
  [user |-> op[c].user, version |-> version, fresh |-> TRUE, revoked |-> FALSE,
   password |-> op[c].password, late |-> op[c].late]

(* Mutant: the row takes the version of the account at the insert. *)
CreateAtCurrentVersion(c, t) ==
  /\ op[c].at = "verified" /\ Enabled(op[c].user)
  /\ t \notin drawn
  /\ session' = [session EXCEPT ![t] = NewSession(c, account[op[c].user].version)]
  /\ drawn' = drawn \cup {t}
  /\ op' = [op EXCEPT ![c].at = "created", ![c].token = t]
  /\ UNCHANGED <<account, reset, cookies, letter>>

(* The row is inserted only while the account is as the login read it. *)
CreateVersioned(c, t) ==
  /\ op[c].at = "verified" /\ Enabled(op[c].user)
  /\ op[c].version = account[op[c].user].version
  /\ t \notin drawn
  /\ session' = [session EXCEPT ![t] = NewSession(c, op[c].version)]
  /\ drawn' = drawn \cup {t}
  /\ op' = [op EXCEPT ![c].at = "created", ![c].token = t]
  /\ UNCHANGED <<account, reset, cookies, letter>>

(* InitializeLocale and FindPrincipalByID found the account enabled. *)
LoginWithPrincipal(c) ==
  /\ op[c].at = "created" /\ Enabled(op[c].user)
  /\ cookies' = cookies \cup {op[c].token}
  /\ op' = [op EXCEPT ![c] = Idle]
  /\ UNCHANGED <<account, session, reset, drawn, letter>>

(* One of them failed; the row is taken back, or, when that fails as well, *)
(* stays behind with a token nobody has (Abandon).                         *)
TakeBack(c) ==
  /\ op[c].at = "created"
  /\ session' = [session EXCEPT ![op[c].token] = None]
  /\ op' = [op EXCEPT ![c] = Idle]
  /\ UNCHANGED <<account, reset, drawn, cookies, letter>>

-----------------------------------------------------------------------------
(* A request that carries a cookie *)

(* The renewal of idle_expires_at only postpones SessionLapses. *)
ResolveAndTouchVersioned(c, t) ==
  /\ op[c].at = "idle"
  /\ t \in cookies /\ session[t] # None
  /\ session[t].fresh /\ ~session[t].revoked /\ Enabled(session[t].user)
  /\ op' = [op EXCEPT ![c] = [Idle EXCEPT !.at = "resolved", !.user = session[t].user,
              !.token = t, !.version = session[t].version, !.late = ~Live(t)]]
  /\ UNCHANGED <<account, session, reset, drawn, cookies, letter>>

(* Mutant: any account that is enabled will do. *)
CurrentAnyVersion(c) ==
  /\ op[c].at = "resolved" /\ Enabled(op[c].user)
  /\ Step(c, "checked")
  /\ UNCHANGED <<account, session, reset, drawn, cookies, letter>>

(* FindPublicAccountByID shows the version of the session. *)
Current(c) ==
  /\ op[c].at = "resolved" /\ Enabled(op[c].user)
  /\ op[c].version = account[op[c].user].version
  /\ Step(c, "checked")
  /\ UNCHANGED <<account, session, reset, drawn, cookies, letter>>

(* It shows another one: the session is stale and deleted on the way. *)
DeleteStale(c) ==
  /\ op[c].at = "resolved" /\ Enabled(op[c].user)
  /\ op[c].version # account[op[c].user].version
  /\ session' = [session EXCEPT ![op[c].token] = None]
  /\ op' = [op EXCEPT ![c] = Idle]
  /\ UNCHANGED <<account, reset, drawn, cookies, letter>>

(* The handler has its principal and does its work. *)
FindPrincipalByID(c) ==
  /\ op[c].at = "checked" /\ Enabled(op[c].user)
  /\ Step(c, "serving")
  /\ UNCHANGED <<account, session, reset, drawn, cookies, letter>>

(* Needs no principal: whoever has the cookie may drop the session. *)
Logout(t) ==
  /\ t \in cookies /\ session[t] # None
  /\ session' = [session EXCEPT ![t] = None]
  /\ UNCHANGED <<account, reset, op, drawn, cookies, letter>>

-----------------------------------------------------------------------------
(* Personal settings *)

(* PersonalSettings.ChangePassword up to its hash: the account as it is    *)
(* now, and the current password verified against it.                      *)
VerifyCurrentPassword(c) ==
  /\ op[c].at = "serving" /\ Enabled(op[c].user)
  /\ op' = [op EXCEPT ![c] = [Idle EXCEPT !.at = "changing", !.user = op[c].user,
              !.version = account[op[c].user].version,
              !.password = account[op[c].user].password]]
  /\ UNCHANGED <<account, session, reset, drawn, cookies, letter>>

(* Mutant: overwrites whatever happened since the account was read. *)
ChangePasswordUnconditionally(c, p) ==
  LET u == op[c].user IN
  /\ op[c].at = "changing" /\ Enabled(u)
  /\ RevokeBy(c, u)
  /\ account' = [account EXCEPT ![u] = [Bumped(u) EXCEPT !.password = p]]
  /\ reset' = [reset EXCEPT ![u] = None]
  /\ UNCHANGED <<session, drawn, cookies, letter>>

(* Mutant: forgets the outstanding reset link. *)
ChangePasswordKeepingLink(c, p) ==
  LET u == op[c].user IN
  /\ op[c].at = "changing" /\ Enabled(u) /\ account[u].version = op[c].version
  /\ RevokeBy(c, u)
  /\ account' = [account EXCEPT ![u] = [Bumped(u) EXCEPT !.password = p]]
  /\ UNCHANGED <<session, reset, drawn, cookies, letter>>

ChangePassword(c, p) ==
  LET u == op[c].user IN
  /\ op[c].at = "changing" /\ Enabled(u) /\ account[u].version = op[c].version
  /\ RevokeBy(c, u)
  /\ account' = [account EXCEPT ![u] = [Bumped(u) EXCEPT !.password = p]]
  /\ reset' = [reset EXCEPT ![u] = None]
  /\ UNCHANGED <<session, drawn, cookies, letter>>

(* CompleteEmailChange, once its code and addresses are right. *)
CompleteEmailChange(c) ==
  LET u == op[c].user IN
  /\ op[c].at = "serving" /\ Enabled(u)
  /\ RevokeBy(c, u)
  /\ account' = [account EXCEPT ![u] = Bumped(u)]
  /\ reset' = [reset EXCEPT ![u] = None]
  /\ UNCHANGED <<session, drawn, cookies, letter>>

-----------------------------------------------------------------------------
(* Password recovery *)

(* One row per account: a new link replaces the old one. *)
RequestPasswordReset(u, l) ==
  /\ Enabled(u) /\ letter[l] = None
  /\ reset' = [reset EXCEPT ![u] = [link |-> l, valid |-> TRUE]]
  /\ letter' = [letter EXCEPT ![l] = [password |-> account[u].password, uses |-> 0]]
  /\ UNCHANGED <<account, session, op, drawn, cookies>>

FindPasswordResetTarget(c, u, l) ==
  /\ op[c].at = "idle"
  /\ Holds(u, l) /\ reset[u].valid /\ Enabled(u)
  /\ op' = [op EXCEPT ![c] = [Idle EXCEPT !.at = "targeted", !.link = l]]
  /\ UNCHANGED <<account, session, reset, drawn, cookies, letter>>

(* Looks at the row alone, before the new password is hashed. *)
PreflightPasswordReset(c) ==
  /\ op[c].at = "targeted"
  /\ \E u \in Users : Holds(u, op[c].link) /\ reset[u].valid
  /\ Step(c, "hashed")
  /\ UNCHANGED <<account, session, reset, drawn, cookies, letter>>

CompletePasswordReset(c, u, p) ==
  /\ op[c].at = "hashed"
  /\ Holds(u, op[c].link) /\ reset[u].valid /\ Enabled(u)
  /\ RevokeBy(c, u)
  /\ account' = [account EXCEPT ![u] = [Bumped(u) EXCEPT !.password = p]]
  /\ reset' = [reset EXCEPT ![u] = None]
  /\ letter' = [letter EXCEPT ![op[c].link].uses = @ + 1]
  /\ UNCHANGED <<session, drawn, cookies>>

-----------------------------------------------------------------------------
(* Administrators *)

(* RevokeUserSessions of one user, disabled or not; replaceUserRoles; and  *)
(* replaceRole, which revokes every holder of a role whose permissions     *)
(* change.                                                                 *)
RevokeUserSessions(us) ==
  /\ us # {} /\ \A u \in us : account[u].status # "deleted"
  /\ Revoke(us)
  /\ account' = [u \in Users |-> IF u \in us THEN Bumped(u) ELSE account[u]]
  /\ UNCHANGED <<session, reset, drawn, cookies, letter>>

(* Sessions the deactivation ends are marked, so that their holders can be *)
(* told why; sessions already dead are not.                                *)
Marked(u, s) ==
  IF s # None /\ s.user = u /\ s.version = account[u].version /\ s.fresh
  THEN [s EXCEPT !.revoked = TRUE] ELSE s

(* Mutant: leaves the reset link to its own expiry. *)
DeactivateKeepingLink(u) ==
  /\ Enabled(u)
  /\ Revoke({u})
  /\ account' = [account EXCEPT ![u] = [Bumped(u) EXCEPT !.status = "disabled"]]
  /\ session' = [t \in Tokens |-> Marked(u, session[t])]
  /\ UNCHANGED <<reset, drawn, cookies, letter>>

Deactivate(u) ==
  /\ Enabled(u)
  /\ Revoke({u})
  /\ account' = [account EXCEPT ![u] = [Bumped(u) EXCEPT !.status = "disabled"]]
  /\ session' = [t \in Tokens |-> Marked(u, session[t])]
  /\ reset' = [reset EXCEPT ![u] = None]
  /\ UNCHANGED <<drawn, cookies, letter>>

(* Mutant: gives the account back as it was. *)
ReactivateAsBefore(u) ==
  /\ account[u].status = "disabled"
  /\ Revoke({u})
  /\ account' = [account EXCEPT ![u].status = "enabled", ![u].version = @ - 1]
  /\ session' = [t \in Tokens |-> IF session[t] # None /\ session[t].user = u
                                  THEN [session[t] EXCEPT !.revoked = FALSE] ELSE session[t]]
  /\ UNCHANGED <<reset, drawn, cookies, letter>>

Reactivate(u) ==
  /\ account[u].status = "disabled"
  /\ Revoke({u})
  /\ account' = [account EXCEPT ![u] = [Bumped(u) EXCEPT !.status = "enabled"]]
  /\ UNCHANGED <<session, reset, drawn, cookies, letter>>

(* Mutant: deletes the account alone. *)
DeleteUserAlone(u) ==
  /\ account[u].status # "deleted"
  /\ account' = [account EXCEPT ![u].status = "deleted"]
  /\ UNCHANGED <<session, reset, op, drawn, cookies, letter>>

(* ON DELETE CASCADE takes sessions and the reset row along. *)
DeleteUser(u) ==
  /\ account[u].status # "deleted"
  /\ account' = [account EXCEPT ![u].status = "deleted"]
  /\ session' = [t \in Tokens |-> IF session[t] # None /\ session[t].user = u
                                  THEN None ELSE session[t]]
  /\ reset' = [reset EXCEPT ![u] = None]
  /\ UNCHANGED <<op, drawn, cookies, letter>>

-----------------------------------------------------------------------------
(* Time and maintenance *)

SessionLapses(t) ==
  /\ session[t] # None /\ session[t].fresh
  /\ session' = [session EXCEPT ![t].fresh = FALSE]
  /\ UNCHANGED <<account, reset, op, drawn, cookies, letter>>

CleanupExpiredSessions(t) ==
  /\ session[t] # None /\ ~session[t].fresh
  /\ session' = [session EXCEPT ![t] = None]
  /\ UNCHANGED <<account, reset, op, drawn, cookies, letter>>

LinkLapses(u) ==
  /\ reset[u] # None /\ reset[u].valid
  /\ reset' = [reset EXCEPT ![u].valid = FALSE]
  /\ UNCHANGED <<account, session, op, drawn, cookies, letter>>

(* The last statements of SweepMail. *)
SweepResets(u) ==
  /\ reset[u] # None /\ ~reset[u].valid
  /\ reset' = [reset EXCEPT ![u] = None]
  /\ UNCHANGED <<account, session, op, drawn, cookies, letter>>

-----------------------------------------------------------------------------
Login(c) ==
  \/ \E u \in Users : FindByCanonicalEmail(c, u)
  \/ \E t \in Tokens : CreateVersioned(c, t)
  \/ LoginWithPrincipal(c) \/ TakeBack(c)

Request(c) ==
  \/ \E t \in Tokens : ResolveAndTouchVersioned(c, t)
  \/ Current(c) \/ DeleteStale(c) \/ FindPrincipalByID(c)

Settings(c) ==
  \/ VerifyCurrentPassword(c) \/ CompleteEmailChange(c)
  \/ \E p \in Passwords : ChangePassword(c, p)

Recovery(c) ==
  \/ \E u \in Users, l \in Links : FindPasswordResetTarget(c, u, l)
  \/ PreflightPasswordReset(c)
  \/ \E u \in Users, p \in Passwords : CompletePasswordReset(c, u, p)

Administration(u) == Deactivate(u) \/ Reactivate(u) \/ DeleteUser(u)

Maintenance ==
  \/ \E t \in Tokens : Logout(t) \/ SessionLapses(t) \/ CleanupExpiredSessions(t)
  \/ \E u \in Users : LinkLapses(u) \/ SweepResets(u)

Next ==
  \/ \E c \in Clients : Login(c) \/ Request(c) \/ Settings(c) \/ Recovery(c) \/ Abandon(c)
  \/ \E u \in Users, l \in Links : RequestPasswordReset(u, l)
  \/ \E us \in SUBSET Users : RevokeUserSessions(us)
  \/ \E u \in Users : Administration(u)
  \/ Maintenance

Spec == Init /\ [][Next]_vars

-----------------------------------------------------------------------------
(* Properties *)

(* Every variable holds values of its type; an operation has the account   *)
(* its step needs, and no row outlives its account (the foreign keys).     *)
TypeOK ==
  /\ account \in [Users -> Account]
  /\ session \in [Tokens -> Session \cup {None}]
  /\ reset \in [Users -> Reset \cup {None}]
  /\ op \in [Clients -> Op]
  /\ \A c \in Clients : op[c].at \notin {"idle", "targeted", "hashed"} => op[c].user \in Users
  /\ \A t \in Tokens : session[t] # None => account[session[t].user].status # "deleted"
  /\ \A u \in Users : reset[u] # None => account[u].status # "deleted"
  /\ cookies \subseteq drawn /\ drawn \subseteq Tokens
  /\ letter \in [Links -> Letter \cup {None}]

(* Whatever runs while a login is under way, a session that is accepted    *)
(* was obtained with the password the account has now, and by a login that *)
(* read the account after it was last revoked (online.go: "or an in-flight *)
(* login creates an old-version row").                                     *)
LiveSessionsAreCurrent ==
  \A t \in Tokens : Live(t) =>
    session[t].password = account[session[t].user].password /\ ~session[t].late

(* CONTEXT.md, "User reactivation": previous sign-in sessions are not      *)
(* restored.  Nothing - no reactivation, renewal or later login - brings a *)
(* session back that was ended once.                                       *)
SessionsStayDead ==
  [][\A t \in drawn : ~Live(t) => ~Live(t)']_vars

(* No request gets past authentication whose session was dead when it was  *)
(* read, or whose account was revoked between the read of the session and  *)
(* that of the account.                                                    *)
RequestsAreEntitled ==
  \A c \in Clients : op[c].at \in {"checked", "serving"} => ~op[c].late

(* PersonalSettings.ChangePassword: "a concurrent password/email/session   *)
(* revocation therefore cannot be silently overwritten".  A password is    *)
(* replaced by someone who proved to know it and was not revoked since, or *)
(* by a link issued for it; never while the account is disabled.           *)
PasswordsReplacedKnowingly ==
  [][\A u \in Users : account'[u].password # account[u].password =>
       /\ Enabled(u)
       /\ \E c \in Clients :
            \/ /\ op[c].at = "changing" /\ op[c].user = u
               /\ op[c].password = account[u].password /\ ~op[c].late
            \/ /\ op[c].at = "hashed" /\ Holds(u, op[c].link)
               /\ letter[op[c].link].password = account[u].password]_vars

(* CONTEXT.md, "Password reset link": single use, and invalidated by a     *)
(* deactivation.  A link that can still be used was issued for the         *)
(* password the account has, belongs to nobody else, never worked before,  *)
(* and its account is enabled; no link ever works twice.                   *)
LinksServeOnce ==
  /\ \A u \in Users : reset[u] # None =>
       /\ Enabled(u)
       /\ letter[reset[u].link] = [password |-> account[u].password, uses |-> 0]
       /\ \A v \in Users \ {u} : ~Holds(v, reset[u].link)
  /\ \A l \in Links : letter[l] # None => letter[l].uses <= 1

-----------------------------------------------------------------------------
(* The inductive invariant behind the properties above *)

(* No session or operation is ahead of its account, and one of the         *)
(* account's version has seen its present password.                        *)
SessionsBehindAccounts ==
  \A t \in Tokens : session[t] # None =>
    LET s == session[t]  a == account[session[t].user] IN
    /\ t \in drawn
    /\ s.version <= a.version
    /\ s.version = a.version => s.password = a.password /\ ~s.late

ReadsBehindAccounts ==
  \A c \in Clients : op[c].at \in Reads =>
    LET a == account[op[c].user] IN
    /\ op[c].version <= a.version
    /\ op[c].version = a.version => op[c].password = a.password /\ ~op[c].late

TokensDrawn ==
  \A c \in Clients : op[c].at \in {"created", "resolved"} => op[c].token \in drawn

(* A request whose session is dead by now has an older version. *)
LateRequestsAreOld ==
  \A c \in Clients : op[c].at = "resolved" =>
    /\ op[c].version <= account[op[c].user].version
    /\ op[c].late => op[c].version < account[op[c].user].version

IInv ==
  /\ TypeOK
  /\ SessionsBehindAccounts
  /\ ReadsBehindAccounts
  /\ TokensDrawn
  /\ LateRequestsAreOld
  /\ RequestsAreEntitled
  /\ LinksServeOnce

=============================================================================
