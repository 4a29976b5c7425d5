---------------------------- MODULE OperationLog ----------------------------
(***************************************************************************)
(* The history of operations: how the handlers of the API record what      *)
(* they did, and how rows of the history are removed again.                *)
(*                                                                         *)
(* A handler is the sequence of its stages.  What it changes is changed    *)
(* by one transaction (its commit stage; the other modules say what goes   *)
(* on inside); the row of the history is written after it, by a statement  *)
(* of its own, and nothing depends on whether that succeeds.  The model    *)
(* has one object that requests are about, a role, an account, settings    *)
(* and so on: requests about different objects meet nowhere.  Of an object *)
(* only how often each of its parts was changed matters.  What a snapshot  *)
(* says of other objects (the roles of an account) is left out.            *)
(*                                                                         *)
(* Time is counted in days.  Reading the clock and keeping its value is    *)
(* one step.                                                               *)
(***************************************************************************)
EXTENDS Integers, Sequences, FiniteSets

CONSTANTS
  Processes, Requests,
  Days,          \* choices of the retention, in days; 1..3650 in the code
  DefaultDays,   \* 180 in the code
  MaxRevision, MaxNow

ASSUME OperationLogAssumption ==
  /\ Days \subseteq Nat \ {0} /\ DefaultDays \in Days
  /\ MaxRevision \in Nat /\ MaxNow \in Nat

VARIABLES
  object,      \* what the requests are about
  request,     \* requests, each used once
  log,         \* auth_operation_logs
  recorder,    \* OperationLogService.state of each process
  retention,   \* auth_operation_log_settings
  sweep,       \* the days a cleanup of this process has read, 0: none in progress
  now

vars == <<object, request, log, recorder, retention, sweep, now>>

-----------------------------------------------------------------------------
(* Handlers *)

(* Stages before the commit: the Origin header, the session, a permission, *)
(* the body, the id in the path; the revision the client has seen; reading *)
(* the object as it was.  At "self" the account is what the session's      *)
(* statement says of it.  A logout works without a valid session, but not  *)
(* without a cookie.                                                       *)
Checks == {"origin", "principal", "cookie", "permission", "body", "id", "revision"}

(* Commit stages: something new, or a value without a revision; a write or *)
(* deletion guarded by the revision; one that reads the object under its   *)
(* lock first; one that does not look at what was; the name, the avatar    *)
(* and the address of one's own account.                                   *)
Commits == {"write", "replace", "remove", "take", "renew", "end", "bump",
            "rename", "set avatar", "clear avatar", "confirm"}

Stages == Checks \cup Commits \cup {"silent id", "self", "snapshot", "record"}

SetupComplete == <<"origin", "body", "write", "record">>
Login == <<"origin", "body", "write", "record">>
Logout == <<"origin", "cookie", "write", "record">>
PasswordResetRequest == <<"origin", "body", "write", "record">>
PasswordResetComplete == <<"origin", "body", "bump", "record">>

CreateRole == <<"origin", "principal", "body", "write", "record">>
ReplaceRole ==
  <<"origin", "principal", "body", "silent id", "revision", "snapshot", "replace", "record">>
DeleteRole == <<"origin", "principal", "silent id", "take", "record">>

ReplaceUserRoles ==
  <<"origin", "principal", "body", "silent id", "revision", "snapshot", "replace", "record">>
MutateUserLifecycle ==
  <<"origin", "principal", "id", "body", "revision", "snapshot", "replace", "record">>
DeleteUser ==
  <<"origin", "principal", "id", "body", "revision", "snapshot", "remove", "record">>
KickUser == <<"origin", "principal", "bump", "record">>

CreateInvitation == <<"origin", "principal", "body", "write", "record">>
ResendInvitation == <<"origin", "principal", "silent id", "renew", "record">>
RevokeInvitation == <<"origin", "principal", "silent id", "take", "record">>
AcceptInvitation == <<"origin", "body", "end", "record">>

SaveEmailSettings ==
  <<"origin", "principal", "permission", "snapshot", "body", "replace", "record">>
TestEmailSettings == <<"origin", "principal", "permission", "body", "write", "record">>
SaveSystemIdentity ==
  <<"origin", "principal", "permission", "body", "snapshot", "replace", "record">>
SaveOperationLogRetention ==
  <<"origin", "principal", "permission", "snapshot", "body", "replace", "record">>

PersonalProfileUpdate == <<"origin", "self", "body", "rename", "record">>
(* A change of language that succeeds is not recorded.                     *)
PersonalPreferencesUpdate == <<"origin", "principal", "body", "write">>
PersonalPasswordUpdate == <<"origin", "principal", "body", "bump", "record">>
PersonalAvatarUpload == <<"origin", "self", "body", "set avatar", "record">>
PersonalAvatarDelete == <<"origin", "self", "clear avatar", "record">>
PersonalEmailChangeRequest == <<"origin", "principal", "body", "write", "record">>
PersonalEmailChangeResend == <<"origin", "principal", "write", "record">>
PersonalEmailChangeVerify == <<"origin", "self", "body", "id", "confirm", "record">>

MailTaskRetry == <<"origin", "principal", "write", "record">>
MailTaskDelete == <<"origin", "principal", "end", "record">>
(* Succeeds whatever becomes of its tasks: the row lists them.             *)
MailTasksBulk == <<"origin", "principal", "body", "write", "record">>

(* By the object they are about; an object appears with its kind.          *)
Handlers ==
  [role |-> {CreateRole, ReplaceRole, DeleteRole},
   invitation |-> {CreateInvitation, ResendInvitation, RevokeInvitation, AcceptInvitation},
   user |-> {SetupComplete, Login, Logout, PasswordResetRequest, PasswordResetComplete,
             ReplaceUserRoles, MutateUserLifecycle, DeleteUser, KickUser,
             PersonalProfileUpdate, PersonalPreferencesUpdate, PersonalPasswordUpdate,
             PersonalAvatarUpload, PersonalAvatarDelete, PersonalEmailChangeRequest,
             PersonalEmailChangeResend, PersonalEmailChangeVerify},
   settings |-> {SaveEmailSettings, TestEmailSettings, SaveSystemIdentity},
   retention |-> {SaveOperationLogRetention},
   task |-> {MailTaskRetry, MailTaskDelete, MailTasksBulk}]

-----------------------------------------------------------------------------
(* State *)

Unassigned == "unassigned"

(* The revision of an object (auth_version of an account) counts its       *)
(* changes, but not those of the name and the avatar of an account.  A     *)
(* commit may compare the revision, or the address, with what it was.      *)
Parts == {"version", "name", "avatar", "email"}
Guarded == {"version", "email"}

Revision == 0..MaxRevision
State == [Parts -> Revision]
Fresh == [part \in Parts |-> 0]

Excerpt(state, parts) == [part \in parts |-> state[part]]
NoForm == Excerpt(Fresh, Guarded)

(* What a row may tell of a state.                                         *)
Snapshots == UNION {[parts -> Revision] : parts \in SUBSET Parts}

Object == [kind : DOMAIN Handlers, exists : BOOLEAN, state : State]

(* "before" is empty or has the one state seen.  The last five fields are  *)
(* history: the state when the request began and the one its change was    *)
(* made to, if it was made; what became of the row and when; whether the   *)
(* retention let the row go at any moment since.                           *)
Request ==
  [at : {"new", "running", "done", "lost"}, process : Processes \cup {Unassigned},
   todo : Seq(Stages), form : [Guarded -> Revision], before : SUBSET Snapshots,
   result : {"none", "success", "failure"}, quiet : BOOLEAN,
   began : State, replaced : SUBSET State,
   noted : {"none", "written", "failed", "forgotten"}, since : 0..MaxNow, due : BOOLEAN]

(* The id, a UUID in the code, tells the rows of one request apart.        *)
LogRow == [request : Requests, id : Nat, result : {"success", "failure"},
           before : SUBSET Snapshots, occurred : 0..MaxNow]

(* lastFailureAt (-1: never), lastSuccessAt (whether there is one), and    *)
(* which of the two is later.                                              *)
Recorder == [failed : -1..MaxNow, succeeded : BOOLEAN, failing : BOOLEAN]

Started == [failed |-> -1, succeeded |-> FALSE, failing |-> FALSE]

Init ==
  /\ object \in [kind : DOMAIN Handlers, exists : {TRUE}, state : {Fresh}]
  /\ request = [r \in Requests |->
       [at |-> "new", process |-> Unassigned, todo |-> <<>>, form |-> NoForm,
        before |-> {}, result |-> "none", quiet |-> FALSE, began |-> Fresh,
        replaced |-> {}, noted |-> "none", since |-> 0, due |-> FALSE]]
  /\ log = {}
  /\ recorder = [p \in Processes |-> Started]
  /\ retention = DefaultDays
  /\ sweep = [p \in Processes |-> 0]
  /\ now = 0

(* RecordingStatus                                                         *)
Status(p) ==
  CASE recorder[p].failed = -1 /\ ~recorder[p].succeeded -> "unknown"
    [] recorder[p].failing -> "failed"
    [] recorder[p].failed # -1 /\ ~recorder[p].failing /\ now < recorder[p].failed + 1 -> "recovered"
    [] OTHER -> "healthy"

-----------------------------------------------------------------------------
(* A request *)

At(r, stages) ==
  request[r].at = "running" /\ request[r].todo # <<>> /\ Head(request[r].todo) \in stages

Compared(handler) ==
  {part \in Guarded : \E i \in DOMAIN handler :
     handler[i] \in IF part = "version" THEN {"replace", "remove"} ELSE {"confirm"}}

(* The client has seen some earlier revision of the object, or asked to    *)
(* change some earlier address; a request is complete when it is sent.     *)
Forms(handler) ==
  {form \in [Guarded -> Revision] : \A part \in Guarded :
     form[part] <= IF part \in Compared(handler) THEN object.state[part] ELSE 0}

Begin(r, p, handler) ==
  /\ request[r].at = "new"
  /\ \E form \in Forms(handler) :
       request' = [request EXCEPT ![r] = [@ EXCEPT
         !.at = "running", !.process = p, !.todo = handler, !.form = form,
         !.quiet = \A i \in DOMAIN handler : handler[i] # "record", !.began = object.state]]
  /\ UNCHANGED <<object, log, recorder, retention, sweep, now>>

Pass(r) ==
  /\ At(r, Checks \cup {"silent id"})
  /\ request' = [request EXCEPT ![r].todo = Tail(@)]
  /\ UNCHANGED <<object, log, recorder, retention, sweep, now>>

(* What the rows of a change show of the object.                           *)
Details == IF object.kind = "user" THEN {"version", "name", "email"} ELSE {"version"}

Excerpts(r, parts) == {Excerpt(seen, parts) : seen \in request[r].before}

(* Handlers of settings show it as well when the save fails.               *)
OfFailure(before) == IF object.kind \in {"settings", "retention"} THEN before ELSE {}

(* Mutant: an error path that forgets what it records.                     *)
RefuseUnexplained(r) ==
  /\ At(r, Checks \cup Commits \cup {"self"})
  /\ request' = [request EXCEPT ![r].todo = <<"record">>, ![r].before = {}]
  /\ UNCHANGED <<object, log, recorder, retention, sweep, now>>

(* operationFailure, unverifiedFailure: refusals by the handler and by the *)
(* service it calls are recorded, whether its success would be or not.     *)
Refuse(r) ==
  /\ At(r, Checks \cup Commits \cup {"self"})
  /\ request' = [request EXCEPT ![r].todo = <<"record">>, ![r].result = "failure",
                                ![r].before = IF At(r, Commits) THEN OfFailure(Excerpts(r, Details)) ELSE {}]
  /\ UNCHANGED <<object, log, recorder, retention, sweep, now>>

(* Some handlers answer 404 to an id that is no id, and record nothing.    *)
TurnAway(r) ==
  /\ At(r, {"silent id"})
  /\ request' = [request EXCEPT ![r].at = "done", ![r].todo = <<>>, ![r].result = "failure"]
  /\ UNCHANGED <<object, log, recorder, retention, sweep, now>>

(* Without a lock and outside of the transaction that follows; a read that *)
(* fails is passed over.                                                   *)
Snapshot(r) ==
  /\ At(r, {"snapshot"})
  /\ \E seen \in SUBSET (IF object.exists THEN {object.state} ELSE {}) :
       request' = [request EXCEPT ![r].todo = Tail(@), ![r].before = seen]
  /\ UNCHANGED <<object, log, recorder, retention, sweep, now>>

(* principal.User, which some handlers of one's own account put into the   *)
(* row.                                                                    *)
Self(r) ==
  /\ At(r, {"self"}) /\ object.exists
  /\ request' = [request EXCEPT ![r].todo = Tail(@), ![r].before = {object.state}]
  /\ UNCHANGED <<object, log, recorder, retention, sweep, now>>

-----------------------------------------------------------------------------
(* Commits *)

(* Mutant: the form's revision is not looked at.                           *)
UnchangedSinceAnyway(r, part) == TRUE

(* WHERE revision = $n, auth_version = $n; currentEmail = request.OldEmail *)
UnchangedSince(r, part) == request[r].form[part] = object.state[part]

(* The change is made; the reply to COMMIT may be lost, then it counts as  *)
(* a failure.                                                              *)
Carried(r, before) ==
  \/ request' = [request EXCEPT ![r] = [request[r] EXCEPT
       !.todo = Tail(@), !.result = "success", !.before = before, !.replaced = {object.state},
       !.form = NoForm, !.at = IF request[r].quiet THEN "done" ELSE "running"]]
  \/ request' = [request EXCEPT ![r] = [request[r] EXCEPT
       !.todo = <<"record">>, !.result = "failure", !.before = OfFailure(before),
       !.replaced = {object.state}, !.form = NoForm]]

CanRaise(parts) == \A part \in parts : object.state[part] < MaxRevision
Raised(parts) ==
  [object EXCEPT !.state = [part \in Parts |-> IF part \in parts THEN @[part] + 1 ELSE @[part]]]

Write(r) ==
  /\ At(r, {"write"})
  /\ Carried(r, {})
  /\ UNCHANGED <<object, log, recorder, retention, sweep, now>>

(* History: rows that are older at a time than a retention of so many days *)
(* wants them.                                                             *)
Aged(requests, days, time) ==
  [r \in Requests |-> IF requests[r].noted = "written" /\ time - requests[r].since > days
                      THEN [requests[r] EXCEPT !.due = TRUE] ELSE requests[r]]

(* An account's version does not rise when its roles stay the same.        *)
Replace(r) ==
  /\ At(r, {"replace"}) /\ object.exists /\ UnchangedSince(r, "version") /\ CanRaise({"version"})
  /\ object.kind # "retention"
  /\ Carried(r, Excerpts(r, Details))
  /\ object' \in {Raised({"version"})} \cup (IF object.kind = "user" THEN {object} ELSE {})
  /\ UNCHANGED <<log, recorder, retention, sweep, now>>

(* SaveRetention                                                           *)
ReplaceRetention(r, days) ==
  /\ At(r, {"replace"}) /\ UnchangedSince(r, "version") /\ CanRaise({"version"})
  /\ object.kind = "retention"
  /\ \E reply \in {"success", "failure"} :
       request' = Aged([request EXCEPT ![r] = [request[r] EXCEPT
         !.todo = <<"record">>, !.result = reply, !.before = Excerpts(r, Details),
         !.replaced = {object.state}, !.form = NoForm]], days, now)
  /\ retention' = days
  /\ object' = Raised({"version"})
  /\ UNCHANGED <<log, recorder, sweep, now>>

Remove(r) ==
  /\ At(r, {"remove"}) /\ object.exists /\ UnchangedSince(r, "version")
  /\ Carried(r, Excerpts(r, Details))
  /\ object' = [object EXCEPT !.exists = FALSE]
  /\ UNCHANGED <<log, recorder, retention, sweep, now>>

(* DeleteRoleWithSnapshot, RevokeInvitationWithSnapshot                    *)
Take(r) ==
  /\ At(r, {"take"}) /\ object.exists
  /\ Carried(r, {Excerpt(object.state, Details)})
  /\ object' = [object EXCEPT !.exists = FALSE]
  /\ UNCHANGED <<log, recorder, retention, sweep, now>>

(* ResendInvitationWithSnapshot                                            *)
Renew(r) ==
  /\ At(r, {"renew"}) /\ object.exists /\ CanRaise({"version"})
  /\ Carried(r, {Excerpt(object.state, Details)})
  /\ object' = Raised({"version"})
  /\ UNCHANGED <<log, recorder, retention, sweep, now>>

End(r) ==
  /\ At(r, {"end"}) /\ object.exists
  /\ Carried(r, {})
  /\ object' = [object EXCEPT !.exists = FALSE]
  /\ UNCHANGED <<log, recorder, retention, sweep, now>>

Bump(r) ==
  /\ At(r, {"bump"}) /\ object.exists /\ CanRaise({"version"})
  /\ Carried(r, {})
  /\ object' = Raised({"version"})
  /\ UNCHANGED <<log, recorder, retention, sweep, now>>

(* UpdateUserName: whatever the name is by now.                            *)
Rename(r) ==
  /\ At(r, {"rename"}) /\ object.exists /\ CanRaise({"name"})
  /\ Carried(r, Excerpts(r, {"name"}))
  /\ object' = Raised({"name"})
  /\ UNCHANGED <<log, recorder, retention, sweep, now>>

SetAvatar(r) ==
  /\ At(r, {"set avatar"}) /\ object.exists /\ CanRaise({"avatar"})
  /\ Carried(r, Excerpts(r, {"avatar"}))
  /\ object' = Raised({"avatar"})
  /\ UNCHANGED <<log, recorder, retention, sweep, now>>

(* There may be none, or no account any more: that is a success as well.   *)
ClearAvatar(r) ==
  /\ At(r, {"clear avatar"}) /\ CanRaise({"avatar"})
  /\ Carried(r, Excerpts(r, {"avatar"}))
  /\ object' \in {object} \cup (IF object.exists THEN {Raised({"avatar"})} ELSE {})
  /\ UNCHANGED <<log, recorder, retention, sweep, now>>

(* CompleteEmailChange                                                     *)
Confirm(r) ==
  /\ At(r, {"confirm"}) /\ object.exists /\ UnchangedSince(r, "email")
  /\ CanRaise({"email", "version"})
  /\ Carried(r, Excerpts(r, {"email"}))
  /\ object' = Raised({"email", "version"})
  /\ UNCHANGED <<log, recorder, retention, sweep, now>>

-----------------------------------------------------------------------------
(* Recording *)

RowsOf(r) == {row \in log : row.request = r}

Row(r) == [request |-> r, id |-> Cardinality(RowsOf(r)), result |-> request[r].result,
           before |-> request[r].before, occurred |-> now]

Done(r, noted) ==
  [request EXCEPT ![r] = [@ EXCEPT
     !.at = "done", !.todo = <<>>, !.before = {}, !.noted = noted, !.since = now]]

(* markFailure, markSuccess                                                *)
Marked(p, failed) ==
  recorder' = [recorder EXCEPT ![p] =
    IF failed THEN [@ EXCEPT !.failed = now, !.failing = TRUE]
              ELSE [@ EXCEPT !.succeeded = TRUE, !.failing = FALSE]]

(* The request's own context is not used: a client that goes away changes  *)
(* nothing.                                                                *)
Record(r) ==
  /\ At(r, {"record"})
  /\ log' = log \cup {Row(r)}
  /\ request' = Done(r, "written")
  /\ Marked(request[r].process, FALSE)
  /\ UNCHANGED <<object, retention, sweep, now>>

(* Mutant: a failure is only logged.                                       *)
MissUnmarked(r) ==
  /\ At(r, {"record"})
  /\ request' = Done(r, "failed")
  /\ UNCHANGED <<object, log, recorder, retention, sweep, now>>

(* The row is not written within two seconds, and nobody tries again; the  *)
(* answer is the same.                                                     *)
Miss(r) ==
  /\ At(r, {"record"})
  /\ request' = Done(r, "failed")
  /\ Marked(request[r].process, TRUE)
  /\ UNCHANGED <<object, log, retention, sweep, now>>

(* Only the reply is late: the row is there, and counts as missed.         *)
MissReply(r) ==
  /\ At(r, {"record"})
  /\ log' = log \cup {Row(r)}
  /\ request' = Done(r, "written")
  /\ Marked(request[r].process, TRUE)
  /\ UNCHANGED <<object, retention, sweep, now>>

(* A process dies with its requests and starts again.                      *)
Crash(p) ==
  /\ \E r \in Requests : request[r].at # "new" /\ request[r].process = p
  /\ request' = [r \in Requests |->
       IF request[r].process # p THEN request[r]
       ELSE CASE request[r].at = "running" ->
                   [request[r] EXCEPT !.at = "lost", !.todo = <<>>, !.form = NoForm, !.before = {}]
              [] request[r].noted = "failed" -> [request[r] EXCEPT !.noted = "forgotten"]
              [] OTHER -> request[r]]
  /\ recorder' = [recorder EXCEPT ![p] = Started]
  /\ sweep' = [sweep EXCEPT ![p] = 0]
  /\ UNCHANGED <<object, log, retention, now>>

-----------------------------------------------------------------------------
(* Retention *)

(* Cleanup: at the start and every hour.                                   *)
BeginCleanup(p) ==
  /\ sweep[p] = 0
  /\ sweep' = [sweep EXCEPT ![p] = retention]
  /\ UNCHANGED <<object, request, log, recorder, retention, now>>

(* DeleteExpiredOperationLogs                                              *)
Expired(row, days) == now - row.occurred > days

FinishCleanup(p) ==
  /\ sweep[p] > 0
  /\ log' = {row \in log : ~Expired(row, sweep[p])}
  /\ sweep' = [sweep EXCEPT ![p] = 0]
  /\ UNCHANGED <<object, request, recorder, retention, now>>

GiveUpCleanup(p) ==
  /\ sweep[p] > 0
  /\ sweep' = [sweep EXCEPT ![p] = 0]
  /\ UNCHANGED <<object, request, log, recorder, retention, now>>

(* A cleanup has two seconds.                                              *)
Tick ==
  /\ now < MaxNow
  /\ \A p \in Processes : sweep[p] = 0
  /\ now' = now + 1
  /\ request' = Aged(request, retention, now + 1)
  /\ UNCHANGED <<object, log, recorder, retention, sweep>>

-----------------------------------------------------------------------------

Serve(r) ==
  \/ Pass(r) \/ Refuse(r) \/ TurnAway(r) \/ Snapshot(r) \/ Self(r)
  \/ Write(r) \/ Replace(r) \/ Remove(r) \/ Take(r) \/ Renew(r)
  \/ End(r) \/ Bump(r)
  \/ Rename(r) \/ SetAvatar(r) \/ ClearAvatar(r) \/ Confirm(r)
  \/ \E days \in Days : ReplaceRetention(r, days)
  \/ Record(r) \/ Miss(r) \/ MissReply(r)

Next ==
  \/ \E r \in Requests :
       \/ Serve(r)
       \/ \E p \in Processes : \E handler \in Handlers[object.kind] : Begin(r, p, handler)
  \/ \E p \in Processes :
       Crash(p) \/ BeginCleanup(p) \/ FinishCleanup(p) \/ GiveUpCleanup(p)
  \/ Tick

Spec == Init /\ [][Next]_vars

-----------------------------------------------------------------------------
(* Properties *)

(* Types, and stages: what a request has yet to do is the rest of its      *)
(* handler or its record.                                                  *)
TypeOK ==
  /\ object \in Object /\ retention \in Days /\ now \in 0..MaxNow
  /\ request \in [Requests -> Request] /\ log \subseteq LogRow
  /\ recorder \in [Processes -> Recorder] /\ sweep \in [Processes -> Days \cup {0}]
  /\ \A r \in Requests :
       /\ request[r].at = "running" <=> request[r].todo # <<>>
       /\ request[r].todo = <<"record">> => request[r].result # "none"

(* What a row says an object was before its change is no older than the    *)
(* request, though it was read outside of the transaction that made the    *)
(* change; a revision and an address are those that the change replaced,   *)
(* because its transaction compared them, while a name and an avatar may   *)
(* have changed once more in between.                                      *)
Faithful(q, seen) ==
  \A part \in DOMAIN seen :
    /\ q.began[part] <= seen[part]
    /\ \A was \in q.replaced :
         seen[part] <= was[part] /\ (part \in Guarded => seen[part] = was[part])

BeforeIsFaithful == \A row \in log : \A seen \in row.before : Faithful(request[row.request], seen)

(* "One operation has one result record": never two, a success only of a   *)
(* change that was made, and for every change that was answered ...        *)
RecordsAreTrue ==
  /\ \A one, two \in log : one.request = two.request => one = two
  /\ \A row \in log : row.result = "success" => request[row.request].replaced # {}

(* ... its row, unless it was once too old for the retention of that day   *)
(* (a cleanup may still use a retention that was lengthened meanwhile, but *)
(* not one of an earlier day), or the process that failed to write it says *)
(* so for a day, unless it was started again.  A request that dies with    *)
(* its process is not answered.                                            *)
AnswersAreOnRecord ==
  \A r \in Requests :
    request[r].at = "done" /\ request[r].replaced # {} /\ ~request[r].quiet =>
      \/ request[r].noted = "written"
           /\ (RowsOf(r) # {} \/ request[r].due)
      \/ request[r].noted = "failed"
           /\ (now = request[r].since => Status(request[r].process) \in {"failed", "recovered"})
      \/ request[r].noted = "forgotten"

OperationsAreOnRecord == RecordsAreTrue /\ AnswersAreOnRecord
=============================================================================
