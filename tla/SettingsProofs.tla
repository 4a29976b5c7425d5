--------------------------- MODULE SettingsProofs ---------------------------
(***************************************************************************)
(* Proofs about Settings, for any processes, administrators, servers and   *)
(* icons.                                                                  *)
(*                                                                         *)
(* What a save has worked out it has worked out of the row its revision    *)
(* names (SaveSound); the compare-and-set lets it through only while that  *)
(* is the row.  The mutex keeps the mailer of a process from overtaking    *)
(* the save that will replace it (MutexHeld, SaveSound).                   *)
(***************************************************************************)
EXTENDS Settings, TLAPS

At(c, places) == request[c].at \in places

Busy == {"saving", "reloading"}

(* A save in progress, and the row it would write.                         *)
SaveSound(c) ==
  At(c, {"saving"}) =>
    /\ request[c].process \in Processes
    /\ request[c].revision \in Revision /\ request[c].revision < MaxRevision
    /\ request[c].row.revision = request[c].revision + 1
    /\ topic = "email" =>
         /\ request[c].row \in EmailRow
         /\ request[c].row.secret # NoSecret =>
              request[c].row.secret.home = request[c].row.server
         /\ request[c].kept \subseteq {"secret", "policy"}
         /\ request[c].revision <= email.revision
         /\ request[c].revision = email.revision =>
              \A f \in request[c].kept : request[c].row[f] = email[f]
         /\ process[request[c].process].made <= request[c].revision
    /\ topic = "identity" =>
         /\ request[c].row \in IdentityRow
         /\ request[c].kept \subseteq {"icon"}
         /\ request[c].revision <= identity.revision
         /\ request[c].revision = identity.revision =>
              \A f \in request[c].kept : request[c].row[f] = identity[f]
    /\ process[request[c].process].up

ReloadSound(c) ==
  At(c, {"reloading"}) =>
    /\ request[c].process \in Processes
    /\ request[c].revision \in Revision /\ request[c].revision <= email.revision
    /\ process[request[c].process].up
    /\ process[request[c].process].made <= request[c].revision

(* saveMu *)
MutexHeld ==
  \A c, d \in Requests :
    c # d /\ At(c, Busy) /\ At(d, Busy) => request[c].process # request[d].process

MailersBehindRow == \A p \in Processes : process[p].made <= email.revision

(* Revisions are handed out once, and what was published under one stays.  *)
CachesBehindRow ==
  /\ published \in [Revision -> Icons \cup {BuiltIn}]
  /\ identity.icon = published[identity.revision]
  /\ \A entry \in cached : entry[1] <= identity.revision

IInv ==
  /\ TypeOK /\ request = [c \in Requests |-> request[c]]
  /\ SecretsStayHome
  /\ \A c \in Requests : SaveSound(c) /\ ReloadSound(c)
  /\ MutexHeld /\ MailersBehindRow
  /\ CachesBehindRow /\ CachedIconIsItsRevision

-----------------------------------------------------------------------------

LEMMA InitIInv == Init => IInv
<1> SUFFICES ASSUME Init PROVE IInv
  OBVIOUS
<1>1. TypeOK
  BY SettingsAssumption
  DEF Init, TypeOK, NoEmail, FirstIdentity, NoSecret, EmailRow, IdentityRow, Process, Secret,
      Revision, Idle
<1>2. request = [c \in Requests |-> request[c]]
  BY DEF Init
<1>3. \A c \in Requests : ~At(c, Busy) /\ SaveSound(c) /\ ReloadSound(c)
  BY DEF Init, Idle, At, Busy, SaveSound, ReloadSound
<1>4. SecretsStayHome /\ MutexHeld /\ MailersBehindRow
  BY <1>3 DEF Init, SecretsStayHome, MutexHeld, MailersBehindRow, NoEmail, NoSecret
<1>5. CachesBehindRow /\ CachedIconIsItsRevision
  BY SettingsAssumption DEF Init, CachesBehindRow, CachedIconIsItsRevision, FirstIdentity, Revision
<1> QED
  BY <1>1, <1>2, <1>3, <1>4, <1>5 DEF IInv

(* Requests that end or begin change nothing that the others rely on.      *)
LEMMA RequestsRest ==
  ASSUME IInv, UNCHANGED <<topic, email, identity, process, pages, cached, published>>,
         request' = [c \in Requests |-> request'[c]],
         \A c \in Requests : request'[c] = request[c] \/ request'[c].at \in {"idle", "form"}
  PROVE  IInv'
<1>1. TypeOK' /\ SecretsStayHome' /\ MailersBehindRow'
  BY DEF IInv, TypeOK, SecretsStayHome, MailersBehindRow
<1>2. \A c \in Requests : SaveSound(c)' /\ ReloadSound(c)'
  BY DEF IInv, SaveSound, ReloadSound, At
<1>3. MutexHeld'
  BY DEF IInv, MutexHeld, At, Busy
<1>4. CachesBehindRow' /\ CachedIconIsItsRevision'
  BY DEF IInv, CachesBehindRow, CachedIconIsItsRevision
<1> QED
  BY <1>1, <1>2, <1>3, <1>4 DEF IInv

LEMMA ResolvedIsSound ==
  ASSUME IInv, topic = "email", email.revision < MaxRevision, NEW server \in Servers,
         NEW password \in {"keep", "clear", "replace"},
         password = "keep" => MayKeep(server)
  PROVE  /\ Resolved(server, password) \in Secret
         /\ Resolved(server, password) # NoSecret =>
              Resolved(server, password).home = server
         /\ password = "keep" => Resolved(server, password) = email.secret
  BY SettingsAssumption
  DEF IInv, TypeOK, SecretsStayHome, MayKeep, SameIdentity, Resolved, Secret, Password, NoSecret,
      EmailRow, Revision

LEMMA BeginSaveEmailKeeps ==
  ASSUME IInv, NEW c \in Requests, NEW p \in Processes, BeginSaveEmail(c, p)
  PROVE  IInv'
<1>1. PICK server \in Servers, password \in {"keep", "clear", "replace"},
          policy \in Policies \cup {"keep"} :
        /\ password = "keep" => MayKeep(server)
        /\ Paired(server, Resolved(server, password))
        /\ request' = [request EXCEPT ![c] = Worked(p, server, password, policy)]
  BY DEF BeginSaveEmail
<1>u. topic = "email" /\ email.revision < MaxRevision /\ MutexFree(p) /\ process[p].up
      /\ UNCHANGED <<topic, email, identity, process, pages, cached, published>>
  BY DEF BeginSaveEmail
<1>2. /\ Resolved(server, password) \in Secret
      /\ Resolved(server, password) # NoSecret => Resolved(server, password).home = server
      /\ password = "keep" => Resolved(server, password) = email.secret
  BY <1>1, <1>u, ResolvedIsSound
<1>w. request'[c] = Worked(p, server, password, policy)
  BY <1>1 DEF IInv
<1>r. request' = [d \in Requests |-> request'[d]] /\ \A d \in Requests \ {c} : request'[d] = request[d]
  BY <1>1 DEF IInv
<1>3. TypeOK' /\ SecretsStayHome' /\ MailersBehindRow'
  BY <1>w, <1>u, <1>r DEF Worked, IInv, TypeOK, SecretsStayHome, MailersBehindRow
<1>4. SaveSound(c)'
  <2> DEFINE row == request'[c].row
  <2>1. row \in EmailRow
    BY <1>1, <1>w, <1>u, <1>2, SettingsAssumption DEF Worked, IInv, TypeOK, EmailRow, Paired, Revision
  <2>2. \A f \in request'[c].kept : row[f] = email[f]
    BY <1>w, <1>2 DEF Worked
  <2>3. process[p].made <= email.revision /\ email.revision \in Revision
    BY DEF IInv, MailersBehindRow, TypeOK, EmailRow
  <2> QED
    BY <1>w, <1>u, <1>2, <2>1, <2>2, <2>3 DEF Worked, SaveSound, At, Revision
<1>5. \A d \in Requests : SaveSound(d)' /\ ReloadSound(d)'
  BY <1>w, <1>u, <1>r, <1>4 DEF Worked, IInv, SaveSound, ReloadSound, At
<1>6. MutexHeld'
  BY <1>w, <1>u, <1>r DEF Worked, IInv, MutexHeld, MutexFree, At, Busy
<1>7. CachesBehindRow' /\ CachedIconIsItsRevision'
  BY <1>u DEF IInv, CachesBehindRow, CachedIconIsItsRevision
<1> QED
  BY <1>r, <1>3, <1>5, <1>6, <1>7 DEF IInv

LEMMA BeginSaveIdentityKeeps ==
  ASSUME IInv, NEW c \in Requests, NEW p \in Processes, BeginSaveIdentity(c, p)
  PROVE  IInv'
<1>1. PICK action \in Icons \cup {"preserve", "default"} :
       request' = [request EXCEPT ![c] =
         [at |-> "saving", revision |-> identity.revision, process |-> p,
          kept |-> IF action = "preserve" THEN {"icon"} ELSE {},
          row |-> [revision |-> identity.revision + 1,
                   icon |-> CASE action = "preserve" -> identity.icon
                              [] action = "default" -> BuiltIn
                              [] OTHER -> action]]]
  BY DEF BeginSaveIdentity
<1>u. topic = "identity" /\ identity.revision < MaxRevision /\ MutexFree(p) /\ process[p].up
      /\ UNCHANGED <<topic, email, identity, process, pages, cached, published>>
  BY DEF BeginSaveIdentity
<1>r. request' = [d \in Requests |-> request'[d]] /\ \A d \in Requests \ {c} : request'[d] = request[d]
  BY <1>1 DEF IInv
<1>3. TypeOK' /\ SecretsStayHome' /\ MailersBehindRow'
  BY <1>1, <1>u, <1>r DEF IInv, TypeOK, SecretsStayHome, MailersBehindRow
<1>4. SaveSound(c)'
  <2>1. request'[c].row \in IdentityRow
    BY <1>1, <1>u, SettingsAssumption DEF IInv, TypeOK, IdentityRow, Revision
  <2>2. \A f \in request'[c].kept : request'[c].row[f] = identity[f]
    BY <1>1 DEF IInv
  <2>3. identity.revision \in Revision
    BY DEF IInv, TypeOK, IdentityRow
  <2> QED
    BY <1>1, <1>u, <2>1, <2>2, <2>3 DEF IInv, SaveSound, At, Revision
<1>5. \A d \in Requests : SaveSound(d)' /\ ReloadSound(d)'
  BY <1>1, <1>u, <1>r, <1>4 DEF IInv, SaveSound, ReloadSound, At
<1>6. MutexHeld'
  BY <1>1, <1>u, <1>r DEF IInv, MutexHeld, MutexFree, At, Busy
<1>7. CachesBehindRow' /\ CachedIconIsItsRevision'
  BY <1>u DEF IInv, CachesBehindRow, CachedIconIsItsRevision
<1> QED
  BY <1>r, <1>3, <1>5, <1>6, <1>7 DEF IInv

LEMMA CommitEmailKeeps ==
  ASSUME IInv, NEW c \in Requests, CommitEmail(c)
  PROVE  IInv'
<1>1. /\ topic = "email" /\ At(c, {"saving"}) /\ email.revision = request[c].revision
      /\ email' = request[c].row
      /\ UNCHANGED <<topic, identity, process, pages, cached, published>>
  BY DEF CommitEmail, Replaceable, Row, At
<1>2. /\ request' = [d \in Requests |-> request'[d]]
      /\ \A d \in Requests \ {c} : request'[d] = request[d]
      /\ \/ request'[c] = Idle
         \/ request'[c] = [at |-> "reloading", revision |-> email'.revision,
                           process |-> request[c].process]
  BY DEF CommitEmail, IInv
<1>3. /\ email' \in EmailRow /\ email'.revision = email.revision + 1
      /\ email.revision \in Revision /\ email'.revision \in Revision
      /\ email'.secret # NoSecret => email'.secret.home = email'.server
  BY <1>1 DEF IInv, SaveSound, TypeOK, EmailRow
<1>4. TypeOK' /\ SecretsStayHome'
  BY <1>1, <1>2, <1>3 DEF IInv, TypeOK, SecretsStayHome, Idle
<1>5. MailersBehindRow'
  BY <1>1, <1>3 DEF IInv, TypeOK, Process, Revision, MailersBehindRow
<1>6. \A d \in Requests : SaveSound(d)' /\ ReloadSound(d)'
  <2> TAKE d \in Requests
  <2>1. CASE d = c
    <3>1. process[request[c].process] \in Process
      BY <1>1 DEF IInv, TypeOK, SaveSound
    <3> QED
      BY <1>1, <1>2, <1>3, <2>1, <3>1
      DEF IInv, SaveSound, ReloadSound, At, Idle, Process, Revision
  <2>2. CASE d # c
    <3>1. SaveSound(d)'
      BY <1>1, <1>2, <1>3, <2>2 DEF IInv, SaveSound, At, Revision
    <3>2. ReloadSound(d)'
      BY <1>1, <1>2, <1>3, <2>2 DEF IInv, ReloadSound, At, Revision
    <3> QED
      BY <3>1, <3>2
  <2> QED
    BY <2>1, <2>2
<1>7. MutexHeld'
  BY <1>1, <1>2 DEF IInv, MutexHeld, At, Busy, Idle
<1>8. CachesBehindRow' /\ CachedIconIsItsRevision'
  BY <1>1 DEF IInv, CachesBehindRow, CachedIconIsItsRevision
<1> QED
  BY <1>2, <1>4, <1>5, <1>6, <1>7, <1>8 DEF IInv

LEMMA CommitIdentityKeeps ==
  ASSUME IInv, NEW c \in Requests, CommitIdentity(c)
  PROVE  IInv'
<1>1. /\ topic = "identity" /\ At(c, {"saving"}) /\ identity.revision = request[c].revision
      /\ identity' = request[c].row
      /\ published' = [published EXCEPT ![identity'.revision] = identity'.icon]
      /\ request' = [request EXCEPT ![c] = Idle]
      /\ UNCHANGED <<topic, email, process, pages, cached>>
  BY DEF CommitIdentity, Replaceable, Row, At
<1>2. /\ request' = [d \in Requests |-> request'[d]] /\ request'[c] = Idle
      /\ \A d \in Requests \ {c} : request'[d] = request[d]
  BY <1>1 DEF IInv
<1>3. /\ identity' \in IdentityRow /\ identity'.revision = identity.revision + 1
      /\ identity.revision \in Revision /\ identity'.revision \in Revision
  BY <1>1 DEF IInv, SaveSound, TypeOK, IdentityRow
<1>4. TypeOK' /\ SecretsStayHome' /\ MailersBehindRow'
  BY <1>1, <1>2, <1>3 DEF IInv, TypeOK, SecretsStayHome, MailersBehindRow, Idle
<1>5. \A d \in Requests : SaveSound(d)' /\ ReloadSound(d)'
  BY <1>1, <1>2, <1>3 DEF IInv, SaveSound, ReloadSound, At, Idle, Revision
<1>6. MutexHeld'
  BY <1>1, <1>2 DEF IInv, MutexHeld, At, Busy, Idle
<1>7. CachesBehindRow'
  BY <1>1, <1>3 DEF IInv, CachesBehindRow, IdentityRow, TypeOK, Revision
<1>8. CachedIconIsItsRevision'
  <2> SUFFICES ASSUME NEW entry \in cached
               PROVE  entry[2] = published'[entry[1]]
    BY <1>1 DEF CachedIconIsItsRevision
  <2>1. entry[1] \in Revision /\ entry[1] # identity'.revision
    BY <1>3 DEF IInv, TypeOK, CachesBehindRow, Revision
  <2> QED
    BY <1>1, <2>1 DEF IInv, CachedIconIsItsRevision, CachesBehindRow
<1> QED
  BY <1>2, <1>4, <1>5, <1>6, <1>7, <1>8 DEF IInv

LEMMA ReloadKeeps ==
  ASSUME IInv, NEW c \in Requests, Reload(c)
  PROVE  IInv'
<1> DEFINE p == request[c].process
<1>1. /\ At(c, {"reloading"}) /\ process' = [process EXCEPT ![p].made = request[c].revision]
      /\ request' = [request EXCEPT ![c] = Idle]
      /\ UNCHANGED <<topic, email, identity, pages, cached, published>>
  BY DEF Reload, At
<1>2. /\ request' = [d \in Requests |-> request'[d]] /\ request'[c] = Idle
      /\ \A d \in Requests \ {c} : request'[d] = request[d]
  BY <1>1 DEF IInv
<1>3. p \in Processes /\ request[c].revision \in Revision /\ request[c].revision <= email.revision
  BY <1>1 DEF IInv, ReloadSound
<1>4. /\ process' \in [Processes -> Process] /\ process'[p].made = request[c].revision
      /\ \A q \in Processes : process'[q].up = process[q].up
      /\ \A q \in Processes \ {p} : process'[q] = process[q]
  BY <1>1, <1>3 DEF IInv, TypeOK, Process
<1>5. TypeOK' /\ SecretsStayHome'
  BY <1>1, <1>2, <1>4 DEF IInv, TypeOK, SecretsStayHome, Idle
<1>6. MailersBehindRow'
  BY <1>1, <1>3, <1>4 DEF IInv, MailersBehindRow
<1>7. \A d \in Requests \ {c} : At(d, Busy) => request[d].process # p
  BY <1>1 DEF IInv, MutexHeld, At, Busy
<1>8. \A d \in Requests : SaveSound(d)' /\ ReloadSound(d)'
  BY <1>1, <1>2, <1>4, <1>7 DEF IInv, SaveSound, ReloadSound, At, Busy, Idle
<1>9. MutexHeld' /\ CachesBehindRow' /\ CachedIconIsItsRevision'
  BY <1>1, <1>2 DEF IInv, MutexHeld, At, Busy, Idle, CachesBehindRow, CachedIconIsItsRevision
<1> QED
  BY <1>2, <1>5, <1>6, <1>8, <1>9 DEF IInv

LEMMA StopKeeps ==
  ASSUME IInv, NEW p \in Processes, Stop(p)
  PROVE  IInv'
<1>1. /\ process' = [process EXCEPT ![p].up = FALSE]
      /\ request' = [c \in Requests |->
           IF request[c].at \in {"saving", "reloading"} /\ request[c].process = p
             THEN Idle ELSE request[c]]
      /\ UNCHANGED <<topic, email, identity, pages, cached, published>>
  BY DEF Stop
<1>2. /\ process' \in [Processes -> Process]
      /\ \A q \in Processes : process'[q].made = process[q].made
      /\ \A q \in Processes \ {p} : process'[q] = process[q]
  BY <1>1 DEF IInv, TypeOK, Process
<1>3. /\ request' = [d \in Requests |-> request'[d]]
      /\ \A d \in Requests :
           \/ request'[d] = Idle
           \/ request'[d] = request[d] /\ (At(d, Busy) => request[d].process # p)
  BY <1>1 DEF At, Busy
<1>4. TypeOK' /\ SecretsStayHome' /\ MailersBehindRow'
  BY <1>1, <1>2, <1>3 DEF IInv, TypeOK, SecretsStayHome, MailersBehindRow, Idle
<1>5. \A d \in Requests : SaveSound(d)' /\ ReloadSound(d)'
  BY <1>1, <1>2, <1>3 DEF IInv, SaveSound, ReloadSound, At, Busy, Idle
<1>6. MutexHeld' /\ CachesBehindRow' /\ CachedIconIsItsRevision'
  BY <1>1, <1>3 DEF IInv, MutexHeld, At, Busy, Idle, CachesBehindRow, CachedIconIsItsRevision
<1> QED
  BY <1>3, <1>4, <1>5, <1>6 DEF IInv

LEMMA StartKeeps ==
  ASSUME IInv, NEW p \in Processes, Start(p)
  PROVE  IInv'
<1>1. /\ ~process[p].up
      /\ process' = [process EXCEPT ![p] = [up |-> TRUE, made |-> email.revision]]
      /\ UNCHANGED <<topic, email, identity, request, pages, cached, published>>
  BY DEF Start
<1>2. /\ process' \in [Processes -> Process] /\ process'[p].made = email.revision
      /\ \A q \in Processes \ {p} : process'[q] = process[q]
      /\ email.revision \in Revision
  BY <1>1 DEF IInv, TypeOK, Process, EmailRow
<1>3. TypeOK' /\ SecretsStayHome' /\ MailersBehindRow'
  BY <1>1, <1>2 DEF IInv, TypeOK, SecretsStayHome, MailersBehindRow, Revision
<1>4. \A d \in Requests : SaveSound(d)' /\ ReloadSound(d)'
  BY <1>1, <1>2 DEF IInv, SaveSound, ReloadSound, At
<1>5. MutexHeld' /\ CachesBehindRow' /\ CachedIconIsItsRevision'
  BY <1>1 DEF IInv, MutexHeld, At, CachesBehindRow, CachedIconIsItsRevision
<1> QED
  BY <1>1, <1>3, <1>4, <1>5 DEF IInv

LEMMA BrowsersKeep ==
  ASSUME IInv, ShowPage \/ FetchIcon
  PROVE  IInv'
<1>1. UNCHANGED <<topic, email, identity, process, request, published>>
  BY DEF ShowPage, FetchIcon
<1>2. /\ pages' \subseteq Revision
      /\ cached' = cached \/ cached' = cached \cup {<<identity.revision, identity.icon>>}
  BY DEF ShowPage, FetchIcon, Immutable, IInv, TypeOK, IdentityRow
<1>3. identity.revision \in Revision /\ identity.icon \in Icons \cup {BuiltIn}
  BY DEF IInv, TypeOK, IdentityRow
<1>4. TypeOK' /\ SecretsStayHome' /\ MailersBehindRow'
  BY <1>1, <1>2, <1>3 DEF IInv, TypeOK, SecretsStayHome, MailersBehindRow
<1>5. (\A d \in Requests : SaveSound(d)' /\ ReloadSound(d)') /\ MutexHeld'
  BY <1>1 DEF IInv, SaveSound, ReloadSound, MutexHeld, At
<1>6. CachesBehindRow' /\ CachedIconIsItsRevision'
  BY <1>1, <1>2, <1>3 DEF IInv, CachesBehindRow, CachedIconIsItsRevision, Revision
<1> QED
  BY <1>1, <1>4, <1>5, <1>6 DEF IInv

LEMMA NextIInv == IInv /\ [Next]_vars => IInv'
<1> SUFFICES ASSUME IInv, [Next]_vars PROVE IInv'
  OBVIOUS
<1>1. ASSUME NEW c \in Requests, LoadForm(c) \/ GiveUp(c) PROVE IInv'
  <2>1. /\ UNCHANGED <<topic, email, identity, process, pages, cached, published>>
        /\ request' = [d \in Requests |-> request'[d]]
        /\ \A d \in Requests : request'[d] = request[d] \/ request'[d].at \in {"idle", "form"}
    BY <1>1 DEF LoadForm, GiveUp, IInv, Idle
  <2> QED
    BY <2>1, RequestsRest
<1>2. CASE UNCHANGED vars
  BY <1>2, RequestsRest DEF vars, IInv
<1> QED
  BY <1>1, <1>2, BeginSaveEmailKeeps, BeginSaveIdentityKeeps, CommitEmailKeeps,
     CommitIdentityKeeps, ReloadKeeps, StopKeeps, StartKeeps, BrowsersKeep DEF Next

-----------------------------------------------------------------------------

(* Every reachable state satisfies the inductive invariant.                *)
THEOREM InvariantHolds == Spec => []IInv
  BY InitIInv, NextIInv, PTL DEF Spec

(* The rows, the forms and the running mailers keep their types; password  *)
(* and account are stored together or not at all (validSMTPCredentials).   *)
THEOREM TypeCorrect == Spec => []TypeOK
<1>1. IInv => TypeOK
  BY DEF IInv
<1> QED
  BY <1>1, InvariantHolds, PTL

(* The stored password is only ever paired with the host and account it    *)
(* was entered for (resolveSMTPPassword), however saves interleave.        *)
THEOREM SecretsAreNotMixed == Spec => []SecretsStayHome
<1>1. IInv => SecretsStayHome
  BY DEF IInv
<1> QED
  BY <1>1, InvariantHolds, PTL

(* What publicSystemIdentityIcon lets browsers keep for ever under a       *)
(* revision is the icon of that revision.                                  *)
THEOREM CachesAreSound == Spec => []CachedIconIsItsRevision
<1>1. IInv => CachedIconIsItsRevision
  BY DEF IInv
<1> QED
  BY <1>1, InvariantHolds, PTL

(* SaveEmailSettings and SaveSystemIdentity: what a form left alone is     *)
(* what was there when the statement ran.                                  *)
LEMMA StepKeepsFields ==
  ASSUME IInv, Next, NEW c \in Requests, request'[c] # request[c]
  PROVE  /\ topic = "email" /\ email' # email =>
              \A f \in request[c].kept : email'[f] = email[f]
         /\ topic = "identity" /\ identity' # identity =>
              \A f \in request[c].kept : identity'[f] = identity[f]
<1>1. ASSUME email' # email, topic = "email" PROVE \A f \in request[c].kept : email'[f] = email[f]
  <2>1. PICK d \in Requests : CommitEmail(d)
    BY <1>1 DEF Next, LoadForm, GiveUp, CommitIdentity, Reload, BeginSaveEmail, BeginSaveIdentity,
         Stop, Start, ShowPage, FetchIcon
  <2>2. d = c
    BY <2>1 DEF CommitEmail, IInv
  <2> QED
    BY <1>1, <2>1, <2>2 DEF CommitEmail, Replaceable, Row, IInv, SaveSound, At
<1>2. ASSUME identity' # identity, topic = "identity"
      PROVE \A f \in request[c].kept : identity'[f] = identity[f]
  <2>1. PICK d \in Requests : CommitIdentity(d)
    BY <1>2 DEF Next, LoadForm, GiveUp, CommitEmail, Reload, BeginSaveEmail, BeginSaveIdentity,
         Stop, Start, ShowPage, FetchIcon
  <2>2. d = c
    BY <2>1 DEF CommitIdentity, IInv
  <2> QED
    BY <1>2, <2>1, <2>2 DEF CommitIdentity, Replaceable, Row, IInv, SaveSound, At
<1> QED
  BY <1>1, <1>2

(* No save undoes another one in a field its form left as it was.          *)
THEOREM NoEditIsUndone == Spec => KeptFieldsSurvive
<1> DEFINE Kept ==
      \A c \in Requests :
       /\ topic = "email" /\ email' # email /\ request'[c] # request[c]
            => \A f \in request[c].kept : email.revision > 0 => email'[f] = email[f]
       /\ topic = "identity" /\ identity' # identity /\ request'[c] # request[c]
            => \A f \in request[c].kept : identity'[f] = identity[f]
<1>1. IInv /\ [Next]_vars => [Kept]_vars
  <2> SUFFICES ASSUME IInv, Next PROVE Kept
    BY DEF vars
  <2> QED
    BY StepKeepsFields
<1> QED
  BY <1>1, InvariantHolds, PTL DEF Spec, KeptFieldsSurvive

(* A running process never returns to an older mailer: saveMu orders the   *)
(* reloads as it orders the saves (Reload, LoadRuntime).                   *)
THEOREM MailersOnlyAdvance == Spec => RuntimeNeverGoesBack
<1> DEFINE Advance == \A p \in Processes :
       process[p].up /\ process'[p].up => process'[p].made >= process[p].made
<1>1. IInv /\ [Next]_vars => [Advance]_vars
  <2> SUFFICES ASSUME IInv, Next, NEW p \in Processes, process[p].up, process'[p].up
               PROVE  process'[p].made >= process[p].made
    BY DEF vars
  <2>0. process \in [Processes -> Process]
    BY DEF IInv, TypeOK
  <2>1. CASE \E c \in Requests : Reload(c)
    <3>1. PICK c \in Requests : Reload(c)
      BY <2>1
    <3>2. ReloadSound(c) /\ At(c, {"reloading"})
      BY <3>1 DEF IInv, Reload, At
    <3>3. process' = [process EXCEPT ![request[c].process].made = request[c].revision]
      BY <3>1 DEF Reload
    <3> QED
      BY <2>0, <3>2, <3>3 DEF ReloadSound, Process, Revision
  <2>2. CASE \E q \in Processes : Stop(q) \/ Start(q)
    BY <2>0, <2>2 DEF Stop, Start, Process, Revision
  <2>3. CASE process' = process
    BY <2>0, <2>3 DEF Process, Revision
  <2> QED
    BY <2>1, <2>2, <2>3 DEF Next, LoadForm, GiveUp, CommitEmail, CommitIdentity, BeginSaveEmail,
         BeginSaveIdentity, ShowPage, FetchIcon
<1> QED
  BY <1>1, InvariantHolds, PTL DEF Spec, RuntimeNeverGoesBack
=============================================================================
