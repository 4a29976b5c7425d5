------------------------------ MODULE Settings ------------------------------
(***************************************************************************)
(* The two settings every process shares: how mail is sent, and the name   *)
(* and icon of the system.                                                 *)
(*                                                                         *)
(* Each is one row with a revision.  An administrator loads a form, edits  *)
(* it and saves it through any process.  A save is: take the mutex of the  *)
(* process, read the row, compare revisions, work out what the form left   *)
(* to the server to keep, and write the row if its revision is still that  *)
(* of the form.  A saved row of mail settings also replaces the mailer of  *)
(* the process that saved it.                                              *)
(*                                                                         *)
(* An SMTP server stands for host, port and account: what a password may   *)
(* be sent to.  Security mode, sender and language are left out: no other  *)
(* state depends on them.  The encryption key is the same for all          *)
(* processes and does not change.  The two rows have nothing in common,    *)
(* so a behaviour is about one of them.                                    *)
(***************************************************************************)
EXTENDS Naturals, FiniteSets

CONSTANTS
  Processes, Requests,
  Servers,      \* host, port and account of SMTP servers
  Anonymous,    \* those without an account
  Policies,     \* retry counts and retention periods
  Icons,        \* pictures that are uploaded
  MaxRevision   \* bound on the edits

None == "none"          \* no server
DefaultPolicy == "default"
BuiltIn == "built-in"   \* the icon of a system without one

ASSUME SettingsAssumption ==
  /\ Anonymous \subseteq Servers /\ None \notin Servers
  /\ DefaultPolicy \notin Policies /\ BuiltIn \notin Icons
  /\ MaxRevision \in Nat \ {0}

VARIABLES
  topic,     \* the row this behaviour is about
  email,     \* auth_email_settings
  identity,  \* auth_system_identity
  process,   \* the mailer of each process, by the revision it was made of
  request,   \* what each administrator is doing
  pages,     \* the icon addresses browsers know, by the revision in them
  cached,    \* what browsers and proxies may keep for ever
  published  \* history: the icon of each revision

vars == <<topic, email, identity, process, request, pages, cached, published>>

-----------------------------------------------------------------------------
(* State *)

Revision == 0..MaxRevision

(* A password knows, as history, which server it was entered for and in    *)
(* which edit.                                                             *)
Password == [home : Servers, entered : Revision]
NoSecret == [home |-> None, entered |-> 0]
Secret == Password \cup {NoSecret}

Process == [up : BOOLEAN, made : Revision]

(* Revision 0 is no row.  validSMTPCredentials: a password exactly where   *)
(* there is an account.                                                    *)
EmailRow ==
  {e \in [revision : Revision, server : Servers \cup {None}, secret : Secret,
          policy : Policies \cup {DefaultPolicy}] :
    (e.secret = NoSecret) = (e.server \in Anonymous \cup {None})}

IdentityRow == [revision : Revision, icon : Icons \cup {BuiltIn}]

NoEmail == [revision |-> 0, server |-> None, secret |-> NoSecret, policy |-> DefaultPolicy]

(* The migration that creates the table also fills it.                     *)
FirstIdentity == [revision |-> 1, icon |-> BuiltIn]

(* A form, and the row a save has worked out from it.                      *)
Idle == [at |-> "idle"]

Init ==
  /\ topic \in {"email", "identity"}
  /\ email = NoEmail /\ identity = FirstIdentity
  /\ process = [p \in Processes |-> [up |-> TRUE, made |-> 0]]
  /\ request = [c \in Requests |-> Idle]
  /\ pages = {} /\ cached = {}
  /\ published = [r \in Revision |-> BuiltIn]

-----------------------------------------------------------------------------
(* Forms *)

Row == IF topic = "email" THEN email ELSE identity

(* GetEmailSettings, GetSystemIdentity; the password is not shown.         *)
LoadForm(c) ==
  /\ request[c].at = "idle"
  /\ request' = [request EXCEPT ![c] = [at |-> "form", revision |-> Row.revision]]
  /\ UNCHANGED <<topic, email, identity, process, pages, cached, published>>

(* Mutant: nothing orders the saves of a process.                          *)
MutexAlwaysFree(p) == TRUE

(* saveMu, from the first read to the reload.                              *)
MutexFree(p) ==
  \A c \in Requests : request[c].at \in {"saving", "reloading"} => request[c].process # p

(* Mutant: the saved password is good for every server.                    *)
AnyIdentity(server) == TRUE

(* sameSMTPIdentity *)
SameIdentity(server) == server = email.server

(* resolveSMTPPassword, an empty password being an omitted one.            *)
Resolved(server, password) ==
  CASE password = "clear" -> NoSecret
    [] password = "replace" -> [home |-> server, entered |-> email.revision + 1]
    [] password = "keep" -> IF SameIdentity(server) THEN email.secret ELSE NoSecret

(* An omitted password does not follow the connection elsewhere.           *)
MayKeep(server) == email.secret # NoSecret => SameIdentity(server)

(* Mutant: any combination of account and password is accepted.            *)
PairedAnyway(server, secret) == TRUE

(* validSMTPCredentials *)
Paired(server, secret) == (server \in Anonymous) = (secret = NoSecret)

(* The record a form is turned into, before its statement.                 *)
Worked(p, server, password, policy) ==
  [at |-> "saving", revision |-> email.revision, process |-> p,
   kept |-> (IF password = "keep" THEN {"secret"} ELSE {})
              \cup (IF policy = "keep" THEN {"policy"} ELSE {}),
   row |-> [revision |-> email.revision + 1, server |-> server,
            secret |-> Resolved(server, password),
            policy |-> IF policy = "keep" THEN email.policy ELSE policy]]

(* SaveEmailSettings up to the mailer it has built and not yet installed.  *)
(* The checks of single fields, and a mailer that cannot be built, are     *)
(* GiveUp.                                                                 *)
BeginSaveEmail(c, p) ==
  /\ topic = "email"
  /\ request[c].at = "form" /\ process[p].up /\ MutexFree(p)
  /\ request[c].revision = email.revision /\ email.revision < MaxRevision
  /\ \E server \in Servers, password \in {"keep", "clear", "replace"},
        policy \in Policies \cup {"keep"} :
       /\ password = "keep" => MayKeep(server)
       /\ password = "replace" => server \notin Anonymous
       /\ Paired(server, Resolved(server, password))
       /\ request' = [request EXCEPT ![c] = Worked(p, server, password, policy)]
  /\ UNCHANGED <<topic, email, identity, process, pages, cached, published>>

(* SaveSystemIdentity: the icon is preserved, replaced or set to built-in. *)
BeginSaveIdentity(c, p) ==
  /\ topic = "identity"
  /\ request[c].at = "form" /\ process[p].up /\ MutexFree(p)
  /\ request[c].revision = identity.revision /\ identity.revision < MaxRevision
  /\ \E action \in Icons \cup {"preserve", "default"} :
       request' = [request EXCEPT ![c] =
         [at |-> "saving", revision |-> identity.revision, process |-> p,
          kept |-> IF action = "preserve" THEN {"icon"} ELSE {},
          row |-> [revision |-> identity.revision + 1,
                   icon |-> CASE action = "preserve" -> identity.icon
                              [] action = "default" -> BuiltIn
                              [] OTHER -> action]]]
  /\ UNCHANGED <<topic, email, identity, process, pages, cached, published>>

(* ErrStaleRevision, a field that is not valid, a connection that fails.   *)
GiveUp(c) ==
  /\ request[c].at \in {"form", "saving"}
  /\ request' = [request EXCEPT ![c] = Idle]
  /\ UNCHANGED <<topic, email, identity, process, pages, cached, published>>

(* Mutant: the row is written whatever its revision is by now.             *)
ReplaceableAnyway(c) == request[c].at = "saving"

(* WHERE revision = expected, or INSERT ... ON CONFLICT DO NOTHING.        *)
Replaceable(c) == request[c].at = "saving" /\ Row.revision = request[c].revision

(* The statement commits; its result may be lost on the way back, and then *)
(* the save has failed as far as the process knows.                        *)
CommitEmail(c) ==
  /\ topic = "email" /\ Replaceable(c)
  /\ email' = request[c].row
  /\ \/ request' = [request EXCEPT ![c] =
          [at |-> "reloading", revision |-> email'.revision, process |-> @.process]]
     \/ request' = [request EXCEPT ![c] = Idle]
  /\ UNCHANGED <<topic, identity, process, pages, cached, published>>

CommitIdentity(c) ==
  /\ topic = "identity" /\ Replaceable(c)
  /\ identity' = request[c].row
  /\ published' = [published EXCEPT ![identity'.revision] = identity'.icon]
  /\ request' = [request EXCEPT ![c] = Idle]
  /\ UNCHANGED <<topic, email, process, pages, cached>>

(* The mailer that was built for the saved row is installed.               *)
Reload(c) ==
  /\ request[c].at = "reloading"
  /\ process' = [process EXCEPT ![request[c].process].made = request[c].revision]
  /\ request' = [request EXCEPT ![c] = Idle]
  /\ UNCHANGED <<topic, email, identity, pages, cached, published>>

-----------------------------------------------------------------------------
(* Processes *)

(* A process ends with everything it was doing ...                         *)
Stop(p) ==
  /\ process[p].up
  /\ process' = [process EXCEPT ![p].up = FALSE]
  /\ request' = [c \in Requests |->
       IF request[c].at \in {"saving", "reloading"} /\ request[c].process = p
         THEN Idle ELSE request[c]]
  /\ UNCHANGED <<topic, email, identity, pages, cached, published>>

(* ... and LoadRuntime comes before it serves anything.                    *)
Start(p) ==
  /\ ~process[p].up
  /\ process' = [process EXCEPT ![p] = [up |-> TRUE, made |-> email.revision]]
  /\ UNCHANGED <<topic, email, identity, request, pages, cached, published>>

-----------------------------------------------------------------------------
(* The icon *)

(* systemIdentityResponseBody: the address of an icon has a revision.      *)
ShowPage ==
  /\ topic = "identity" /\ identity.icon # BuiltIn
  /\ pages' = pages \cup {identity.revision}
  /\ UNCHANGED <<topic, email, identity, process, request, cached, published>>

(* Mutant: whatever is asked for may be kept.                              *)
ImmutableAnyway(v) == TRUE

(* Cache-Control: immutable, or else no-store.                             *)
Immutable(v) == v = identity.revision

(* publicSystemIdentityIcon answers with the icon of the moment.           *)
FetchIcon ==
  /\ topic = "identity"
  /\ \E v \in pages : Immutable(v) /\ cached' = cached \cup {<<v, identity.icon>>}
  /\ UNCHANGED <<topic, email, identity, process, request, pages, published>>

-----------------------------------------------------------------------------

Next ==
  \/ \E c \in Requests :
       \/ LoadForm(c) \/ GiveUp(c) \/ CommitEmail(c) \/ CommitIdentity(c) \/ Reload(c)
       \/ \E p \in Processes : BeginSaveEmail(c, p) \/ BeginSaveIdentity(c, p)
  \/ \E p \in Processes : Stop(p) \/ Start(p)
  \/ ShowPage \/ FetchIcon

Spec == Init /\ [][Next]_vars

-----------------------------------------------------------------------------
(* Properties *)

(* Types; in particular an account and a password are stored together or   *)
(* not at all, also when they come from different edits.                   *)
TypeOK ==
  /\ topic \in {"email", "identity"}
  /\ email \in EmailRow /\ identity \in IdentityRow
  /\ process \in [Processes -> Process]
  /\ \A c \in Requests : request[c].at \in {"idle", "form", "saving", "reloading"}
  /\ pages \subseteq Revision
  /\ cached \subseteq Revision \X (Icons \cup {BuiltIn})

(* sameSMTPIdentity: the saved password is only ever paired with the host  *)
(* and the account it was entered for, whoever else was editing.           *)
SecretsStayHome == email.secret # NoSecret => email.secret.home = email.server

(* What a form left as it was is what was there when the save took effect, *)
(* not what was there when the server looked: no save undoes another one.  *)
KeptFieldsSurvive ==
  [][\A c \in Requests :
       /\ topic = "email" /\ email' # email /\ request'[c] # request[c]
            => \A f \in request[c].kept : email.revision > 0 => email'[f] = email[f]
       /\ topic = "identity" /\ identity' # identity /\ request'[c] # request[c]
            => \A f \in request[c].kept : identity'[f] = identity[f]]_vars

(* "Two successful saves could reload their mailers in the opposite order  *)
(* and leave the runtime using an older committed revision": they do not.  *)
RuntimeNeverGoesBack ==
  [][\A p \in Processes :
       process[p].up /\ process'[p].up => process'[p].made >= process[p].made]_vars

(* "Immutable caching is safe because a new revision gets a new URL": what *)
(* is kept under an address is the icon of that revision for ever.         *)
CachedIconIsItsRevision ==
  \A entry \in cached : entry[2] = published[entry[1]]
=============================================================================
