------------------------- MODULE OperationLogProofs -------------------------
(***************************************************************************)
(* Proofs about OperationLog, for any requests to any handlers, processes, *)
(* choices of the retention and time.                                      *)
(*                                                                         *)
(* A request that is under way fits the object (Fits): until it commits,   *)
(* a commit lies ahead of it, and the state it has seen is between the one *)
(* it began with, which is no older than its form, and the present one.    *)
(* What a commit compares the form with therefore is what was seen before, *)
(* and where the revision is the same, the address is.                     *)
(***************************************************************************)
EXTENDS OperationLog, TLAPS, SequenceTheorems, FiniteSetTheorems

-----------------------------------------------------------------------------
(* The inductive invariant *)

Early == Checks \cup {"silent id", "self", "snapshot"}

(* Stage i is the commit, and only the record follows, if there is one.    *)
Ahead(stages, i, quiet) ==
  /\ i \in 1..Len(stages) /\ stages[i] \in Commits
  /\ \A j \in 1..(i - 1) : stages[j] \in Early
  /\ quiet => Len(stages) = i
  /\ ~quiet => Len(stages) = i + 1 /\ stages[i + 1] = "record"

(* No change of the address without a change of the revision.              *)
Follows(earlier, later) ==
  /\ \A part \in Parts : earlier[part] <= later[part]
  /\ earlier["version"] = later["version"] => earlier["email"] = later["email"]

SeenBy(q, seen, state) ==
  /\ seen \in State
  /\ \A part \in Parts : q.began[part] <= seen[part]
  /\ Follows(seen, state)

Fits(q, state) ==
  /\ q.at = "running" <=> q.todo # <<>>
  /\ q.at = "new" =>
       q.replaced = {} /\ q.noted = "none" /\ q.result = "none" /\ q.before = {}
  /\ q.at # "new" => q.process \in Processes
  /\ q.at = "running" => q.noted = "none" /\ (q.result = "success" => q.replaced # {})
  /\ q.at = "running" /\ q.result = "none" =>
       /\ q.replaced = {}
       /\ \A part \in Guarded : q.form[part] <= q.began[part]
       /\ \A part \in Parts : q.began[part] <= state[part]
       /\ \E i \in Nat : Ahead(q.todo, i, q.quiet)
       /\ \A seen \in q.before : SeenBy(q, seen, state)
  /\ q.at = "running" /\ q.result # "none" =>
       /\ q.todo = <<"record">>
       /\ \A seen \in q.before : Faithful(q, seen)
  /\ q.noted \in {"written", "failed"} => q.at = "done"
  /\ q.at = "done" /\ q.replaced # {} /\ ~q.quiet => q.noted # "none"

RequestsFit == \A r \in Requests : Fits(request[r], object.state)

RowsFit ==
  \A row \in log :
    LET q == request[row.request] IN
    /\ q.noted = "written" /\ row.occurred = q.since
    /\ \A seen \in row.before : Faithful(q, seen)
    /\ row.result = "success" => q.replaced # {}

RowsAreSingle == \A one, two \in log : one.request = two.request => one = two

(* No row is deleted before its time.                                      *)
Kept(r) ==
  /\ request[r].since <= now
  /\ request[r].noted = "written" =>
       /\ RowsOf(r) # {} \/ request[r].due
       /\ now - request[r].since > retention => request[r].due
       /\ \A p \in Processes :
            sweep[p] > 0 /\ now - request[r].since > sweep[p] => request[r].due

RowsAreKept == \A r \in Requests : Kept(r)

(* A process knows when it missed a row last.                              *)
MissesAreKnown ==
  /\ \A p \in Processes : recorder[p].failed <= now
  /\ \A r \in Requests : request[r].noted = "failed" => request[r].since <= recorder[request[r].process].failed

IInv ==
  /\ TypeOK
  /\ RequestsFit
  /\ RowsFit
  /\ RowsAreSingle
  /\ RowsAreKept
  /\ MissesAreKnown

-----------------------------------------------------------------------------
(* Stages *)

LEMMA AheadType ==
  ASSUME NEW stages \in Seq(Stages), NEW i \in Nat, NEW quiet \in BOOLEAN, Ahead(stages, i, quiet)
  PROVE  stages # <<>> /\ Head(stages) \in Early \cup Commits /\ Len(stages) \in Nat
BY DEF Ahead

LEMMA RecordIsStage == "record" \in Stages /\ <<"record">> \in Seq(Stages) /\ <<"record">> # <<>>
<1>1. "record" \in Stages
  BY DEF Stages
<1> QED
  BY <1>1

LEMMA AheadMovesOn ==
  ASSUME NEW stages \in Seq(Stages), NEW i \in Nat, NEW quiet \in BOOLEAN, Ahead(stages, i, quiet),
         Head(stages) \in Early
  PROVE  /\ Tail(stages) \in Seq(Stages) /\ Tail(stages) # <<>>
         /\ i - 1 \in Nat /\ Ahead(Tail(stages), i - 1, quiet)
<1>1. /\ stages # <<>> /\ Head(stages) = stages[1] /\ Len(stages) \in Nat
      /\ i \in 1..Len(stages) /\ stages[i] \in Commits
  BY DEF Ahead
<1>2. i # 1
  BY <1>1 DEF Early, Checks, Commits
<1> PICK rest : rest = Tail(stages)
  OBVIOUS
<1>3. /\ rest \in Seq(Stages) /\ Len(rest) = Len(stages) - 1
      /\ \A j \in 1..Len(rest) : rest[j] = stages[j + 1]
  BY <1>1, HeadTailProperties
<1>4. Len(rest) # 0 /\ i - 1 \in 1..Len(rest)
  BY <1>1, <1>2, <1>3
<1>5. rest # <<>>
  BY <1>4, EmptySeq
<1>6. Ahead(rest, i - 1, quiet)
  <2>1. rest[i - 1] = stages[i]
    BY <1>1, <1>3, <1>4
  <2>2. \A j \in 1..(i - 1 - 1) : rest[j] = stages[j + 1] /\ j + 1 \in 1..(i - 1)
    BY <1>1, <1>3, <1>4
  <2>3. \A j \in 1..(i - 1 - 1) : rest[j] \in Early
    BY <2>2 DEF Ahead
  <2>4. quiet => Len(rest) = i - 1
    BY <1>3 DEF Ahead
  <2>5. ASSUME ~quiet PROVE Len(rest) = i - 1 + 1 /\ rest[i - 1 + 1] = "record"
    <3>1. Len(stages) = i + 1 /\ stages[i + 1] = "record"
      BY <2>5 DEF Ahead
    <3> QED
      BY <1>3, <1>4, <3>1
  <2> QED
    BY <1>1, <1>4, <2>1, <2>3, <2>4, <2>5 DEF Ahead
<1> QED
  BY <1>3, <1>4, <1>5, <1>6

LEMMA AheadCommits ==
  ASSUME NEW stages \in Seq(Stages), NEW i \in Nat, NEW quiet \in BOOLEAN, Ahead(stages, i, quiet),
         Head(stages) \in Commits
  PROVE  Tail(stages) = IF quiet THEN <<>> ELSE <<"record">>
<1>1. /\ stages # <<>> /\ Head(stages) = stages[1] /\ Len(stages) \in Nat
      /\ i \in 1..Len(stages)
  BY DEF Ahead
<1>2. i = 1
  <2>1. ASSUME i # 1 PROVE FALSE
    <3>1. stages[1] \in Early
      BY <1>1, <2>1 DEF Ahead
    <3> QED
      BY <1>1, <3>1 DEF Early, Checks, Commits
  <2> QED
    BY <2>1
<1> PICK rest : rest = Tail(stages)
  OBVIOUS
<1>3. /\ rest \in Seq(Stages) /\ Len(rest) = Len(stages) - 1
      /\ \A j \in 1..Len(rest) : rest[j] = stages[j + 1]
  BY <1>1, HeadTailProperties
<1>4. CASE quiet
  <2>1. Len(rest) = 0
    BY <1>2, <1>3, <1>4 DEF Ahead
  <2> QED
    BY <1>3, <1>4, <2>1, EmptySeq
<1>5. CASE ~quiet
  <2>1. Len(stages) = 2 /\ stages[2] = "record"
    BY <1>2, <1>5 DEF Ahead
  <2>2. Len(rest) = 1
    BY <1>3, <2>1
  <2>3. rest[1] = "record"
    <3>1. 1 \in 1..Len(rest)
      BY <2>2
    <3>2. rest[1] = stages[1 + 1]
      BY <1>3, <3>1
    <3> QED
      BY <2>1, <3>2
  <2>4. <<"record">> \in Seq(Stages) /\ Len(<<"record">>) = 1 /\ <<"record">>[1] = "record"
    BY RecordIsStage
  <2>5. \A j \in 1..Len(rest) : rest[j] = <<"record">>[j]
    BY <2>2, <2>3, <2>4
  <2>6. rest = <<"record">>
    BY <1>3, <2>2, <2>4, <2>5, SeqEqual
  <2> QED
    BY <1>5, <2>6
<1> QED
  BY <1>4, <1>5

-----------------------------------------------------------------------------
(* Handlers *)

Handler(h) == h \in Seq(Stages) /\ \E i \in Nat : Ahead(h, i, \A j \in DOMAIN h : h[j] # "record")

LEMMA StageNames ==
  /\ {"origin", "principal", "cookie", "permission", "body", "id", "revision", "silent id", "self",
     "snapshot"}
       \subseteq Early
  /\ Early \subseteq Stages /\ Commits \subseteq Stages /\ "record" \in Stages
  /\ "record" \notin Early \cup Commits
BY DEF Early, Checks, Commits, Stages

LEMMA HandlerOf ==
  ASSUME NEW h \in Seq(Stages), NEW i \in Nat \ {0}, Len(h) = i + 1, h[i] \in Commits,
         h[i + 1] = "record", \A j \in 1..(i - 1) : h[j] \in Early
  PROVE  Handler(h)
<1>1. i + 1 \in DOMAIN h
  OBVIOUS
<1>2. Ahead(h, i, FALSE)
  BY DEF Ahead
<1>3. (\A j \in DOMAIN h : h[j] # "record") = FALSE
  BY <1>1
<1> QED
  BY <1>2, <1>3 DEF Handler

(* Handlers of two to six stages before their commit.                      *)
LEMMA TwoStages ==
  ASSUME NEW a \in Early, NEW b \in Early, NEW c \in Commits
  PROVE  Handler(<<a, b, c, "record">>)
<1> DEFINE h == <<a, b, c, "record">>
<1>1. h \in Seq(Stages)
  <2>1. a \in Stages /\ b \in Stages /\ c \in Stages /\ "record" \in Stages
    BY StageNames
  <2> QED
    BY <2>1
<1>2. /\ Len(h) = 4 /\ h[1] = a /\ h[2] = b
      /\ h[3] = c /\ h[4] = "record"
  OBVIOUS
<1> HIDE DEF h
<1>3. \A j \in 1..(3 - 1) : h[j] \in Early
  BY <1>2
<1>4. 3 \in Nat \ {0} /\ Len(h) = 3 + 1 /\ h[3] \in Commits /\ h[3 + 1] = "record"
  BY <1>2
<1> QED
  BY <1>1, <1>3, <1>4, HandlerOf DEF h

LEMMA ThreeStages ==
  ASSUME NEW a \in Early, NEW b \in Early, NEW d \in Early, NEW c \in Commits
  PROVE  Handler(<<a, b, d, c, "record">>)
<1> DEFINE h == <<a, b, d, c, "record">>
<1>1. h \in Seq(Stages)
  <2>1. a \in Stages /\ b \in Stages /\ d \in Stages /\ c \in Stages /\ "record" \in Stages
    BY StageNames
  <2> QED
    BY <2>1
<1>2. /\ Len(h) = 5 /\ h[1] = a /\ h[2] = b /\ h[3] = d
      /\ h[4] = c /\ h[5] = "record"
  OBVIOUS
<1> HIDE DEF h
<1>3. \A j \in 1..(4 - 1) : h[j] \in Early
  BY <1>2
<1>4. 4 \in Nat \ {0} /\ Len(h) = 4 + 1 /\ h[4] \in Commits /\ h[4 + 1] = "record"
  BY <1>2
<1> QED
  BY <1>1, <1>3, <1>4, HandlerOf DEF h

LEMMA FourStages ==
  ASSUME NEW a \in Early, NEW b \in Early, NEW d \in Early, NEW e \in Early, NEW c \in Commits
  PROVE  Handler(<<a, b, d, e, c, "record">>)
<1> DEFINE h == <<a, b, d, e, c, "record">>
<1>1. h \in Seq(Stages)
  <2>1. a \in Stages /\ b \in Stages /\ d \in Stages /\ e \in Stages /\ c \in Stages /\ "record" \in Stages
    BY StageNames
  <2> QED
    BY <2>1
<1>2. /\ Len(h) = 6 /\ h[1] = a /\ h[2] = b /\ h[3] = d /\ h[4] = e
      /\ h[5] = c /\ h[6] = "record"
  OBVIOUS
<1> HIDE DEF h
<1>3. \A j \in 1..(5 - 1) : h[j] \in Early
  BY <1>2
<1>4. 5 \in Nat \ {0} /\ Len(h) = 5 + 1 /\ h[5] \in Commits /\ h[5 + 1] = "record"
  BY <1>2
<1> QED
  BY <1>1, <1>3, <1>4, HandlerOf DEF h

LEMMA FiveStages ==
  ASSUME NEW a \in Early, NEW b \in Early, NEW d \in Early, NEW e \in Early, NEW f \in Early, NEW c \in Commits
  PROVE  Handler(<<a, b, d, e, f, c, "record">>)
<1> DEFINE h == <<a, b, d, e, f, c, "record">>
<1>1. h \in Seq(Stages)
  <2>1. a \in Stages /\ b \in Stages /\ d \in Stages /\ e \in Stages /\ f \in Stages /\ c \in Stages /\ "record" \in Stages
    BY StageNames
  <2> QED
    BY <2>1
<1>2. /\ Len(h) = 7 /\ h[1] = a /\ h[2] = b /\ h[3] = d /\ h[4] = e /\ h[5] = f
      /\ h[6] = c /\ h[7] = "record"
  OBVIOUS
<1> HIDE DEF h
<1>3. \A j \in 1..(6 - 1) : h[j] \in Early
  BY <1>2
<1>4. 6 \in Nat \ {0} /\ Len(h) = 6 + 1 /\ h[6] \in Commits /\ h[6 + 1] = "record"
  BY <1>2
<1> QED
  BY <1>1, <1>3, <1>4, HandlerOf DEF h

LEMMA SixStages ==
  ASSUME NEW a \in Early, NEW b \in Early, NEW d \in Early, NEW e \in Early, NEW f \in Early, NEW g \in Early, NEW c \in Commits
  PROVE  Handler(<<a, b, d, e, f, g, c, "record">>)
<1> DEFINE h == <<a, b, d, e, f, g, c, "record">>
<1>1. h \in Seq(Stages)
  <2>1. a \in Stages /\ b \in Stages /\ d \in Stages /\ e \in Stages /\ f \in Stages /\ g \in Stages /\ c \in Stages /\ "record" \in Stages
    BY StageNames
  <2> QED
    BY <2>1
<1>2. /\ Len(h) = 8 /\ h[1] = a /\ h[2] = b /\ h[3] = d /\ h[4] = e /\ h[5] = f /\ h[6] = g
      /\ h[7] = c /\ h[8] = "record"
  OBVIOUS
<1> HIDE DEF h
<1>3. \A j \in 1..(7 - 1) : h[j] \in Early
  BY <1>2
<1>4. 7 \in Nat \ {0} /\ Len(h) = 7 + 1 /\ h[7] \in Commits /\ h[7 + 1] = "record"
  BY <1>2
<1> QED
  BY <1>1, <1>3, <1>4, HandlerOf DEF h

(* A change of language, the one success that is not recorded.             *)
LEMMA QuietHandler == Handler(PersonalPreferencesUpdate)
<1> DEFINE h == PersonalPreferencesUpdate
<1>0. /\ "origin" \in Early /\ "principal" \in Early /\ "body" \in Early /\ "write" \in Commits
      /\ "origin" \in Stages /\ "principal" \in Stages /\ "body" \in Stages /\ "write" \in Stages
  BY DEF Early, Checks, Commits, Stages
<1>1. h \in Seq(Stages)
  BY <1>0 DEF PersonalPreferencesUpdate
<1>2. Len(h) = 4 /\ h[1] = "origin" /\ h[2] = "principal" /\ h[3] = "body" /\ h[4] = "write"
  BY DEF PersonalPreferencesUpdate
<1> HIDE DEF h
<1>3. \A j \in 1..(4 - 1) : h[j] \in Early
  BY <1>0, <1>2
<1>4. h[4] \in Commits
  BY <1>0, <1>2
<1>5. (\A j \in DOMAIN h : h[j] # "record") = TRUE
  BY <1>1, <1>2
<1>6. Ahead(h, 4, TRUE)
  BY <1>2, <1>3, <1>4 DEF Ahead
<1> QED
  BY <1>1, <1>5, <1>6 DEF Handler, h

LEMMA CommitNames ==
  {"write", "replace", "remove", "take", "renew", "end", "bump", "rename", "set avatar", "clear avatar",
   "confirm"} \subseteq Commits
BY DEF Commits

LEMMA AllHandlers == \A kind \in DOMAIN Handlers : \A h \in Handlers[kind] : Handler(h)
<1> USE StageNames, CommitNames
<1>1. Handler(SetupComplete) /\ Handler(Login) /\ Handler(Logout) /\ Handler(PasswordResetRequest)
  BY TwoStages DEF SetupComplete, Login, Logout, PasswordResetRequest
<1>2. Handler(PasswordResetComplete) /\ Handler(KickUser) /\ Handler(AcceptInvitation) /\ Handler(PersonalAvatarDelete)
  BY TwoStages DEF PasswordResetComplete, KickUser, AcceptInvitation, PersonalAvatarDelete
<1>3. Handler(PersonalEmailChangeResend) /\ Handler(MailTaskRetry) /\ Handler(MailTaskDelete)
  BY TwoStages DEF PersonalEmailChangeResend, MailTaskRetry, MailTaskDelete
<1>4. Handler(CreateRole) /\ Handler(DeleteRole) /\ Handler(CreateInvitation) /\ Handler(ResendInvitation)
  BY ThreeStages DEF CreateRole, DeleteRole, CreateInvitation, ResendInvitation
<1>5. Handler(RevokeInvitation) /\ Handler(PersonalProfileUpdate) /\ Handler(PersonalPasswordUpdate) /\ Handler(PersonalAvatarUpload)
  BY ThreeStages DEF RevokeInvitation, PersonalProfileUpdate, PersonalPasswordUpdate, PersonalAvatarUpload
<1>6. Handler(PersonalEmailChangeRequest) /\ Handler(MailTasksBulk)
  BY ThreeStages DEF PersonalEmailChangeRequest, MailTasksBulk
<1>7. Handler(TestEmailSettings) /\ Handler(PersonalEmailChangeVerify)
  BY FourStages DEF TestEmailSettings, PersonalEmailChangeVerify
<1>8. Handler(SaveEmailSettings) /\ Handler(SaveSystemIdentity) /\ Handler(SaveOperationLogRetention)
  BY FiveStages DEF SaveEmailSettings, SaveSystemIdentity, SaveOperationLogRetention
<1>9. Handler(ReplaceRole) /\ Handler(ReplaceUserRoles) /\ Handler(MutateUserLifecycle) /\ Handler(DeleteUser)
  BY SixStages DEF ReplaceRole, ReplaceUserRoles, MutateUserLifecycle, DeleteUser
<1> SUFFICES ASSUME NEW kind \in DOMAIN Handlers, NEW h \in Handlers[kind] PROVE Handler(h)
  OBVIOUS
<1>10. kind \in {"role", "invitation", "user", "settings", "retention", "task"}
  BY DEF Handlers
<1>11. CASE kind = "role"
  BY <1>3, <1>4, <1>5, <1>9, <1>11 DEF Handlers
<1>12. CASE kind = "invitation"
  BY <1>1, <1>2, <1>3, <1>4, <1>5, <1>6, <1>12 DEF Handlers
<1>13. CASE kind = "user"
  BY <1>1, <1>2, <1>3, <1>4, <1>5, <1>6, <1>7, <1>9, <1>13, QuietHandler DEF Handlers
<1>14. CASE kind = "settings"
  BY <1>7, <1>8, <1>14 DEF Handlers
<1>15. CASE kind = "retention"
  BY <1>8, <1>15 DEF Handlers
<1>16. CASE kind = "task"
  BY <1>1, <1>2, <1>3, <1>4, <1>5, <1>6, <1>16 DEF Handlers
<1> QED
  BY <1>10, <1>11, <1>12, <1>13, <1>14, <1>15, <1>16

-----------------------------------------------------------------------------
(* Steps *)

LEMMA StateType ==
  ASSUME NEW state \in State
  PROVE  /\ \A part \in Parts : state[part] \in Revision /\ state[part] \in Int
         /\ {"version", "email", "name", "avatar"} \subseteq Parts /\ Guarded \subseteq Parts
         /\ Follows(state, state)
<1>1. Revision \subseteq Int
  BY OperationLogAssumption DEF Revision
<1>2. \A part \in Parts : state[part] \in Revision /\ state[part] \in Int
  BY <1>1 DEF State
<1>3. {"version", "email", "name", "avatar"} \subseteq Parts /\ Guarded \subseteq Parts
  BY DEF Parts, Guarded
<1> QED
  BY <1>2, <1>3 DEF Follows

LEMMA FollowsOn ==
  ASSUME NEW one \in State, NEW two \in State, NEW three \in State, Follows(one, two), Follows(two, three)
  PROVE  Follows(one, three)
<1>1. \A part \in Parts : one[part] \in Int /\ two[part] \in Int /\ three[part] \in Int
  BY StateType
<1>2. \A part \in Parts : one[part] <= two[part] /\ two[part] <= three[part]
  BY DEF Follows
<1>3. \A part \in Parts : one[part] <= three[part]
  BY <1>1, <1>2
<1>4. ASSUME one["version"] = three["version"] PROVE one["email"] = three["email"]
  <2>1. "version" \in Parts
    BY DEF Parts
  <2>2. one["version"] = two["version"] /\ two["version"] = three["version"]
    BY <1>1, <1>2, <1>4, <2>1
  <2> QED
    BY <2>2 DEF Follows
<1> QED
  BY <1>3, <1>4 DEF Follows

(* An excerpt has the parts asked for and nothing else.                    *)
LEMMA ExcerptType ==
  ASSUME NEW state \in State, NEW parts \in SUBSET Parts
  PROVE  /\ Excerpt(state, parts) \in Snapshots /\ DOMAIN Excerpt(state, parts) = parts
         /\ \A part \in parts : Excerpt(state, parts)[part] = state[part]
<1>1. \A part \in parts : state[part] \in Revision
  BY StateType
<1>2. Excerpt(state, parts) \in [parts -> Revision]
  BY <1>1 DEF Excerpt
<1> QED
  BY <1>2 DEF Excerpt, Snapshots

LEMMA NoFormType == Fresh \in State /\ NoForm \in [Guarded -> Revision]
<1>1. 0 \in Revision
  BY OperationLogAssumption DEF Revision
<1> QED
  BY <1>1 DEF Fresh, State, NoForm, Excerpt, Parts, Guarded

LEMMA StatesAreSnapshots == State \subseteq Snapshots
BY DEF State, Snapshots

LEMMA FitsLater ==
  ASSUME NEW q \in Request, NEW n \in State, NEW m \in State, Follows(n, m), Fits(q, n)
  PROVE  Fits(q, m)
<1>1. \A seen : SeenBy(q, seen, n) => SeenBy(q, seen, m)
  BY FollowsOn DEF SeenBy
<1>2. ASSUME \A part \in Parts : q.began[part] <= n[part]
      PROVE  \A part \in Parts : q.began[part] <= m[part]
  <2>1. q.began \in State
    BY DEF Request
  <2>2. \A part \in Parts : q.began[part] \in Int /\ n[part] \in Int /\ m[part] \in Int /\ n[part] <= m[part]
    BY <2>1, StateType DEF Follows
  <2> QED
    BY <1>2, <2>2
<1> QED
  BY <1>1, <1>2 DEF Fits

LEMMA FitsStages ==
  ASSUME NEW q \in Request, NEW n \in State, Fits(q, n), q.todo = <<"record">>
  PROVE  q.result # "none"
<1>1. q.todo # <<>> /\ Head(q.todo) = "record" /\ q.todo \in Seq(Stages) /\ q.quiet \in BOOLEAN
  BY RecordIsStage DEF Request
<1>2. q.at = "running"
  BY <1>1 DEF Fits
<1>3. ASSUME q.result = "none" PROVE FALSE
  <2>1. PICK i \in Nat : Ahead(q.todo, i, q.quiet)
    BY <1>2, <1>3 DEF Fits
  <2>2. Head(q.todo) \in Early \cup Commits
    BY <1>1, <2>1, AheadType
  <2> QED
    BY <1>1, <2>2, StageNames
<1> QED
  BY <1>3

(* What a request is while it passes its stages.                           *)
LEMMA Underway ==
  ASSUME IInv, NEW r \in Requests, NEW S, S \subseteq Early \cup Commits, At(r, S)
  PROVE  /\ request[r] \in Request /\ object.state \in State /\ Fits(request[r], object.state)
         /\ request[r].at = "running" /\ request[r].result = "none" /\ request[r].noted = "none"
         /\ request[r].replaced = {} /\ Head(request[r].todo) \in S /\ request[r].process \in Processes
         /\ request[r].began \in State /\ request[r].form \in [Guarded -> Revision]
         /\ \A part \in Guarded : request[r].form[part] <= request[r].began[part]
         /\ \A part \in Parts : request[r].began[part] <= object.state[part]
         /\ \A seen \in request[r].before : SeenBy(request[r], seen, object.state)
         /\ request[r].todo \in Seq(Stages) /\ request[r].quiet \in BOOLEAN
         /\ \E i \in Nat : Ahead(request[r].todo, i, request[r].quiet)
<1>1. request[r] \in Request /\ object.state \in State
  BY DEF IInv, TypeOK, Object
<1>2. Fits(request[r], object.state)
  BY DEF IInv, RequestsFit
<1>3. request[r].at = "running" /\ Head(request[r].todo) \in S
  BY DEF At
<1>4. request[r].todo # <<"record">>
  <2>1. Head(<<"record">>) = "record"
    BY RecordIsStage
  <2> QED
    BY <1>3, <2>1, StageNames
<1>5. request[r].result = "none"
  BY <1>2, <1>3, <1>4 DEF Fits
<1>6. /\ request[r].todo \in Seq(Stages) /\ request[r].quiet \in BOOLEAN
      /\ request[r].began \in State /\ request[r].form \in [Guarded -> Revision]
  BY <1>1 DEF Request
<1> QED
  BY <1>1, <1>2, <1>3, <1>5, <1>6 DEF Fits

(* A step of one request that writes no row.                               *)
LEMMA StageKeeps ==
  ASSUME IInv, NEW r \in Requests, NEW q \in Request,
         request[r].noted = "none", q.noted = "none", q.since = request[r].since,
         request' = [request EXCEPT ![r] = q],
         object' \in Object, Follows(object.state, object'.state),
         Fits(q, object'.state),
         UNCHANGED <<log, recorder, retention, sweep, now>>
  PROVE  IInv'
<1> PICK rev : rev = object'.state
  OBVIOUS
<1>1. rev \in State /\ object.state \in State /\ Follows(object.state, rev) /\ Fits(q, rev)
  BY DEF IInv, TypeOK, Object
<1>2. request \in [Requests -> Request] /\ request' \in [Requests -> Request]
  BY DEF IInv, TypeOK
<1>3. request'[r] = q /\ \A s \in Requests \ {r} : request'[s] = request[s]
  BY <1>2
<1>4. \A s \in Requests : Fits(request'[s], rev)
  <2>1. \A s \in Requests \ {r} : Fits(request[s], rev)
    BY <1>1, <1>2, FitsLater DEF IInv, RequestsFit
  <2> QED
    BY <1>1, <1>3, <2>1
<1>5. RequestsFit'
  BY <1>4 DEF RequestsFit
<1>6. TypeOK'
  <2>1. ASSUME NEW s \in Requests
        PROVE  /\ request'[s].at = "running" <=> request'[s].todo # <<>>
               /\ request'[s].todo = <<"record">> => request'[s].result # "none"
    <3>1. request'[s] \in Request /\ Fits(request'[s], rev)
      BY <1>2, <1>4, <2>1
    <3>2. request'[s].at = "running" <=> request'[s].todo # <<>>
      BY <3>1 DEF Fits
    <3> QED
      BY <1>1, <3>1, <3>2, FitsStages
  <2>2. /\ retention' \in Days /\ now' \in 0..MaxNow /\ log' \subseteq LogRow
        /\ recorder' \in [Processes -> Recorder] /\ sweep' \in [Processes -> Days \cup {0}]
    BY DEF IInv, TypeOK
  <2> QED
    BY <1>2, <2>1, <2>2 DEF TypeOK
<1>7. \A row \in log : row.request \in Requests /\ row.request # r /\ request'[row.request] = request[row.request]
  <2>1. \A row \in log : row.request \in Requests
    BY DEF IInv, TypeOK, LogRow
  <2>2. \A row \in log : request[row.request].noted = "written"
    BY DEF IInv, RowsFit
  <2> QED
    BY <1>3, <2>1, <2>2
<1>8. RowsFit'
  BY <1>7 DEF IInv, RowsFit
<1>9. RowsAreSingle'
  BY DEF IInv, RowsAreSingle
<1>10. RowsAreKept'
  <2>1. ASSUME NEW s \in Requests PROVE Kept(s)'
    <3>1. Kept(s)
      BY <2>1 DEF IInv, RowsAreKept
    <3>2. CASE s = r
      BY <1>3, <3>1, <3>2 DEF Kept
    <3>3. CASE s # r
      <4>1. request'[s] = request[s]
        BY <1>3, <2>1, <3>3
      <4> QED
        BY <3>1, <4>1 DEF Kept, RowsOf
    <3> QED
      BY <3>2, <3>3
  <2> QED
    BY <2>1 DEF RowsAreKept
<1>11. MissesAreKnown'
  <2>1. \A s \in Requests : request'[s].noted = "failed" =>
          request[s].noted = "failed" /\ request'[s] = request[s]
    BY <1>3
  <2> QED
    BY <2>1 DEF IInv, MissesAreKnown
<1> QED
  BY <1>5, <1>6, <1>8, <1>9, <1>10, <1>11 DEF IInv

LEMMA SameObject ==
  ASSUME IInv, object' = object, NEW q, Fits(q, object.state)
  PROVE  object' \in Object /\ Follows(object.state, object'.state) /\ Fits(q, object'.state)
<1>1. object \in Object /\ object.state \in State
  BY DEF IInv, TypeOK, Object
<1> QED
  BY <1>1, StateType

LEMMA BeginIInv ==
  ASSUME IInv, NEW r \in Requests, NEW p \in Processes, NEW handler \in Handlers[object.kind],
         Begin(r, p, handler)
  PROVE  IInv'
<1> PICK quiet \in BOOLEAN : quiet = \A i \in DOMAIN handler : handler[i] # "record"
  OBVIOUS
<1>1. object \in Object /\ request[r] \in Request /\ object.state \in State
  BY DEF IInv, TypeOK, Object
<1>2. handler \in Seq(Stages) /\ \E i \in Nat : Ahead(handler, i, quiet)
  <2>1. Handler(handler)
    BY <1>1, AllHandlers DEF Object
  <2> QED
    BY <2>1 DEF Handler
<1>3. PICK form \in Forms(handler) :
        request' = [request EXCEPT ![r] = [request[r] EXCEPT
          !.at = "running", !.process = p, !.todo = handler, !.form = form, !.quiet = quiet,
          !.began = object.state]]
  BY DEF Begin
<1> PICK q : q = [request[r] EXCEPT
      !.at = "running", !.process = p, !.todo = handler, !.form = form, !.quiet = quiet,
      !.began = object.state]
  OBVIOUS
<1>4. form \in [Guarded -> Revision] /\ \A part \in Guarded : form[part] <= object.state[part]
  <2>1. \A part \in Guarded : object.state[part] \in Revision
    BY <1>1, StateType
  <2>2. \A part \in Guarded : object.state[part] >= 0
    BY <2>1, OperationLogAssumption DEF Revision
  <2>3. /\ form \in [Guarded -> Revision]
        /\ \A part \in Guarded :
             form[part] <= IF part \in Compared(handler) THEN object.state[part] ELSE 0
    BY DEF Forms
  <2>4. \A part \in Guarded : form[part] \in Int /\ object.state[part] \in Int
    BY <2>1, <2>3, OperationLogAssumption DEF Revision
  <2> QED
    BY <2>2, <2>3, <2>4
<1>5. q \in Request
  BY <1>1, <1>2, <1>4 DEF Request
<1>6. /\ q.at = "running" /\ q.process = p /\ q.todo = handler /\ q.form = form /\ q.quiet = quiet
      /\ q.before = request[r].before /\ q.result = request[r].result /\ q.replaced = request[r].replaced
      /\ q.noted = request[r].noted /\ q.since = request[r].since /\ q.began = object.state
  BY <1>1 DEF Request
<1>7. Fits(request[r], object.state) /\ request[r].at = "new"
  BY DEF IInv, RequestsFit, Begin
<1>8. /\ request[r].replaced = {} /\ request[r].noted = "none"
      /\ request[r].result = "none" /\ request[r].before = {}
  BY <1>7 DEF Fits
<1>9. handler # <<>>
  BY <1>2, AheadType
<1>10. \A part \in Parts : object.state[part] <= object.state[part]
  BY <1>1, StateType DEF Follows
<1>11. Fits(q, object.state)
  BY <1>2, <1>4, <1>6, <1>8, <1>9, <1>10 DEF Fits
<1>12. UNCHANGED <<object, log, recorder, retention, sweep, now>>
  BY DEF Begin
<1>13. object' \in Object /\ Follows(object.state, object'.state) /\ Fits(q, object'.state)
  BY <1>11, <1>12, SameObject
<1>14. request' = [request EXCEPT ![r] = q]
  BY <1>3
<1> QED
  BY <1>5, <1>6, <1>8, <1>12, <1>13, <1>14, StageKeeps

LEMMA PassIInv ==
  ASSUME IInv, NEW r \in Requests, Pass(r)
  PROVE  IInv'
<1> PICK q : q = [request[r] EXCEPT !.todo = Tail(@)]
  OBVIOUS
<1>1. /\ At(r, Checks \cup {"silent id"}) /\ Checks \cup {"silent id"} \subseteq Early
      /\ request' = [request EXCEPT ![r] = q]
      /\ UNCHANGED <<object, log, recorder, retention, sweep, now>>
  BY DEF Pass, Early
<1>2. /\ request[r] \in Request /\ object.state \in State /\ Fits(request[r], object.state)
      /\ request[r].at = "running" /\ request[r].result = "none" /\ request[r].noted = "none"
      /\ Head(request[r].todo) \in Early /\ request[r].todo \in Seq(Stages) /\ request[r].quiet \in BOOLEAN
      /\ \E i \in Nat : Ahead(request[r].todo, i, request[r].quiet)
  BY <1>1, Underway
<1>3. /\ Tail(request[r].todo) \in Seq(Stages) /\ Tail(request[r].todo) # <<>>
      /\ \E i \in Nat : Ahead(Tail(request[r].todo), i, request[r].quiet)
  BY <1>2, AheadMovesOn
<1>4. q \in Request
  BY <1>2, <1>3 DEF Request
<1>5. /\ q.todo = Tail(request[r].todo) /\ q.at = "running" /\ q.process = request[r].process
      /\ q.form = request[r].form /\ q.quiet = request[r].quiet /\ q.before = request[r].before
      /\ q.result = "none" /\ q.replaced = request[r].replaced /\ q.noted = "none"
      /\ q.since = request[r].since /\ q.began = request[r].began
  BY <1>2 DEF Request
<1>6. Fits(q, object.state)
  BY <1>2, <1>3, <1>5 DEF Fits, SeenBy
<1>7. object' \in Object /\ Follows(object.state, object'.state) /\ Fits(q, object'.state)
  BY <1>1, <1>6, SameObject
<1> QED
  BY <1>1, <1>2, <1>4, <1>5, <1>7, StageKeeps

LEMMA SnapshotIInv ==
  ASSUME IInv, NEW r \in Requests, Snapshot(r) \/ Self(r)
  PROVE  IInv'
<1>1. /\ At(r, {"self", "snapshot"}) /\ {"self", "snapshot"} \subseteq Early
      /\ UNCHANGED <<object, log, recorder, retention, sweep, now>>
  BY DEF Snapshot, Self, At, Early
<1>2. /\ request[r] \in Request /\ object.state \in State /\ Fits(request[r], object.state)
      /\ request[r].at = "running" /\ request[r].result = "none" /\ request[r].noted = "none"
      /\ request[r].replaced = {} /\ request[r].process \in Processes
      /\ Head(request[r].todo) \in Early /\ request[r].todo \in Seq(Stages) /\ request[r].quiet \in BOOLEAN
      /\ \A part \in Guarded : request[r].form[part] <= request[r].began[part]
      /\ \A part \in Parts : request[r].began[part] <= object.state[part]
      /\ \E i \in Nat : Ahead(request[r].todo, i, request[r].quiet)
  BY <1>1, Underway
<1>3. PICK before \in SUBSET {object.state} :
        request' = [request EXCEPT ![r].todo = Tail(@), ![r].before = before]
  BY DEF Snapshot, Self
<1> PICK q : q = [request[r] EXCEPT !.todo = Tail(@), !.before = before]
  OBVIOUS
<1>4. /\ Tail(request[r].todo) \in Seq(Stages) /\ Tail(request[r].todo) # <<>>
      /\ \E i \in Nat : Ahead(Tail(request[r].todo), i, request[r].quiet)
  BY <1>2, AheadMovesOn
<1>5. before \in SUBSET Snapshots
  BY <1>2, StatesAreSnapshots
<1>6. q \in Request
  BY <1>2, <1>4, <1>5 DEF Request
<1>7. /\ q.todo = Tail(request[r].todo) /\ q.at = "running" /\ q.process = request[r].process
      /\ q.form = request[r].form /\ q.quiet = request[r].quiet /\ q.before = before
      /\ q.result = "none" /\ q.replaced = {} /\ q.noted = "none"
      /\ q.since = request[r].since /\ q.began = request[r].began
  BY <1>2 DEF Request
<1>8. \A seen \in q.before : SeenBy(q, seen, object.state)
  BY <1>2, <1>3, <1>7, StateType DEF SeenBy
<1>9. Fits(q, object.state)
  BY <1>2, <1>4, <1>7, <1>8 DEF Fits
<1>10. object' \in Object /\ Follows(object.state, object'.state) /\ Fits(q, object'.state)
  BY <1>1, <1>9, SameObject
<1>11. request' = [request EXCEPT ![r] = q]
  BY <1>3 DEF IInv, TypeOK
<1> QED
  BY <1>1, <1>2, <1>6, <1>7, <1>10, <1>11, StageKeeps

(* What an excerpt shows is faithful when its guarded parts are those that *)
(* are replaced.                                                           *)
LEMMA ExcerptIsFaithful ==
  ASSUME NEW q \in Request, NEW seen, NEW state \in State, NEW parts \in SUBSET Parts,
         SeenBy(q, seen, state), q.replaced \subseteq {state},
         q.replaced # {} => \A part \in parts \cap Guarded : seen[part] = state[part]
  PROVE  Faithful(q, Excerpt(seen, parts)) /\ Excerpt(seen, parts) \in Snapshots
<1>1. seen \in State /\ \A part \in Parts : q.began[part] <= seen[part] /\ seen[part] <= state[part]
  BY DEF SeenBy, Follows
<1>2. /\ Excerpt(seen, parts) \in Snapshots /\ DOMAIN Excerpt(seen, parts) = parts
      /\ \A part \in parts : Excerpt(seen, parts)[part] = seen[part]
  BY <1>1, ExcerptType
<1> QED
  BY <1>1, <1>2 DEF Faithful

LEMMA DetailsAreParts == Details \subseteq Parts
BY DEF Details, Parts

LEMMA RefuseIInv ==
  ASSUME IInv, NEW r \in Requests, Refuse(r)
  PROVE  IInv'
<1>1. /\ At(r, Checks \cup Commits \cup {"self"}) /\ Checks \cup Commits \cup {"self"} \subseteq Early \cup Commits
      /\ UNCHANGED <<object, log, recorder, retention, sweep, now>>
  BY DEF Refuse, Early
<1>2. /\ request[r] \in Request /\ object.state \in State /\ Fits(request[r], object.state)
      /\ request[r].at = "running" /\ request[r].noted = "none" /\ request[r].process \in Processes
      /\ request[r].replaced = {} /\ \A seen \in request[r].before : SeenBy(request[r], seen, object.state)
  BY <1>1, Underway
<1>3. PICK before \in SUBSET Excerpts(r, Details) :
        request' = [request EXCEPT ![r].todo = <<"record">>, ![r].result = "failure", ![r].before = before]
  <2> PICK before : before = IF At(r, Commits) THEN OfFailure(Excerpts(r, Details)) ELSE {}
    OBVIOUS
  <2>1. before \subseteq Excerpts(r, Details)
    BY DEF OfFailure
  <2> QED
    BY <2>1 DEF Refuse
<1> PICK q : q = [request[r] EXCEPT !.todo = <<"record">>, !.result = "failure", !.before = before]
  OBVIOUS
<1>4. \A shown \in before : Faithful(request[r], shown) /\ shown \in Snapshots
  <2> TAKE shown \in before
  <2>1. PICK seen \in request[r].before : shown = Excerpt(seen, Details)
    BY <1>3 DEF Excerpts
  <2> QED
    BY <1>2, <2>1, DetailsAreParts, ExcerptIsFaithful
<1>5. q \in Request
  BY <1>2, <1>4, RecordIsStage DEF Request
<1>6. /\ q.todo = <<"record">> /\ q.at = "running" /\ q.process = request[r].process
      /\ q.result = "failure" /\ q.before = before /\ q.noted = "none" /\ q.since = request[r].since
      /\ q.began = request[r].began /\ q.replaced = request[r].replaced
  BY <1>2 DEF Request
<1>7. \A shown \in q.before : Faithful(q, shown)
  BY <1>4, <1>6 DEF Faithful
<1>8. Fits(q, object.state)
  BY <1>2, <1>6, <1>7, RecordIsStage DEF Fits
<1>9. object' \in Object /\ Follows(object.state, object'.state) /\ Fits(q, object'.state)
  BY <1>1, <1>8, SameObject
<1>10. request' = [request EXCEPT ![r] = q]
  BY <1>3 DEF IInv, TypeOK
<1> QED
  BY <1>1, <1>2, <1>5, <1>6, <1>9, <1>10, StageKeeps

LEMMA TurnAwayIInv ==
  ASSUME IInv, NEW r \in Requests, TurnAway(r)
  PROVE  IInv'
<1> PICK q : q = [request[r] EXCEPT !.at = "done", !.todo = <<>>, !.result = "failure"]
  OBVIOUS
<1>1. /\ At(r, {"silent id"}) /\ {"silent id"} \subseteq Early
      /\ UNCHANGED <<object, log, recorder, retention, sweep, now>>
  BY DEF TurnAway, Early
<1>2. /\ request[r] \in Request /\ object.state \in State
      /\ request[r].replaced = {} /\ request[r].noted = "none" /\ request[r].process \in Processes
  BY <1>1, Underway
<1>3. q \in Request
  <2>1. <<>> \in Seq(Stages)
    OBVIOUS
  <2> QED
    BY <1>2, <2>1 DEF Request
<1>4. /\ q.todo = <<>> /\ q.at = "done" /\ q.process = request[r].process
      /\ q.replaced = {} /\ q.noted = "none" /\ q.since = request[r].since
  BY <1>2 DEF Request
<1>5. Fits(q, object.state)
  BY <1>2, <1>4 DEF Fits
<1>6. object' \in Object /\ Follows(object.state, object'.state) /\ Fits(q, object'.state)
  BY <1>1, <1>5, SameObject
<1>7. request' = [request EXCEPT ![r] = q]
  BY DEF TurnAway, IInv, TypeOK
<1> QED
  BY <1>1, <1>2, <1>3, <1>4, <1>6, <1>7, StageKeeps

(* What a change may put into its row.                                     *)
Shows(r, shown) ==
  /\ shown \in Snapshots
  /\ \A part \in DOMAIN shown :
       /\ request[r].began[part] <= shown[part] /\ shown[part] <= object.state[part]
       /\ part \in Guarded => shown[part] = object.state[part]

LEMMA ShowsFaithfully ==
  ASSUME NEW r \in Requests, NEW shown, Shows(r, shown),
         NEW q, q.began = request[r].began, q.replaced = {object.state}
  PROVE  Faithful(q, shown)
BY DEF Shows, Faithful

LEMMA CarriedIInv ==
  ASSUME IInv, NEW r \in Requests, At(r, Commits), NEW before,
         \A shown \in before : Shows(r, shown),
         Carried(r, before),
         object' \in Object, Follows(object.state, object'.state),
         UNCHANGED <<log, recorder, retention, sweep, now>>
  PROVE  IInv'
<1>1. /\ request[r] \in Request /\ request[r].at = "running" /\ request[r].noted = "none"
      /\ Head(request[r].todo) \in Commits /\ request[r].process \in Processes
      /\ request[r].todo \in Seq(Stages) /\ request[r].quiet \in BOOLEAN /\ object.state \in State
      /\ \E i \in Nat : Ahead(request[r].todo, i, request[r].quiet)
  BY Underway
<1>2. Tail(request[r].todo) = IF request[r].quiet THEN <<>> ELSE <<"record">>
  BY <1>1, AheadCommits
<1>3. <<>> \in Seq(Stages) /\ NoForm \in [Guarded -> Revision]
  BY NoFormType
<1>4. before \in SUBSET Snapshots
  BY DEF Shows
<1>5. CASE request' = [request EXCEPT ![r] = [request[r] EXCEPT
        !.todo = Tail(@), !.result = "success", !.before = before, !.replaced = {object.state},
        !.form = NoForm, !.at = IF request[r].quiet THEN "done" ELSE "running"]]
  <2> PICK q : q = [request[r] EXCEPT
        !.todo = Tail(@), !.result = "success", !.before = before, !.replaced = {object.state},
        !.form = NoForm, !.at = IF request[r].quiet THEN "done" ELSE "running"]
    OBVIOUS
  <2>1. q \in Request
    BY <1>1, <1>2, <1>3, <1>4, RecordIsStage DEF Request
  <2>2. /\ q.todo = Tail(request[r].todo) /\ q.result = "success" /\ q.before = before
        /\ q.replaced = {object.state} /\ q.quiet = request[r].quiet
        /\ q.at = IF request[r].quiet THEN "done" ELSE "running"
        /\ q.process = request[r].process /\ q.noted = "none" /\ q.since = request[r].since
        /\ q.began = request[r].began
    BY <1>1 DEF Request
  <2>3. request' = [request EXCEPT ![r] = q]
    BY <1>5
  <2>4. CASE request[r].quiet
    <3>1. q.todo = <<>> /\ q.at = "done" /\ q.quiet
      BY <1>2, <2>2, <2>4
    <3>2. Fits(q, object'.state)
      BY <1>1, <2>2, <3>1 DEF Fits
    <3> QED
      BY <1>1, <2>1, <2>2, <2>3, <3>2, StageKeeps
  <2>5. CASE ~request[r].quiet
    <3>1. q.todo = <<"record">> /\ q.at = "running" /\ q.todo # <<>>
      BY <1>2, <2>2, <2>5, RecordIsStage
    <3>2. \A shown \in q.before : Faithful(q, shown)
      BY <2>2, ShowsFaithfully
    <3>3. Fits(q, object'.state)
      BY <1>1, <2>2, <3>1, <3>2 DEF Fits
    <3> QED
      BY <1>1, <2>1, <2>2, <2>3, <3>3, StageKeeps
  <2> QED
    BY <2>4, <2>5
<1>6. CASE request' = [request EXCEPT ![r] = [request[r] EXCEPT
        !.todo = <<"record">>, !.result = "failure", !.before = OfFailure(before),
        !.replaced = {object.state}, !.form = NoForm]]
  <2> PICK q : q = [request[r] EXCEPT
        !.todo = <<"record">>, !.result = "failure", !.before = OfFailure(before),
        !.replaced = {object.state}, !.form = NoForm]
    OBVIOUS
  <2>0. OfFailure(before) \subseteq before
    BY DEF OfFailure
  <2>1. q \in Request
    BY <1>1, <1>3, <1>4, <2>0, RecordIsStage DEF Request
  <2>2. /\ q.todo = <<"record">> /\ q.result = "failure" /\ q.before = OfFailure(before)
        /\ q.at = "running" /\ q.replaced = {object.state} /\ q.began = request[r].began
        /\ q.process = request[r].process /\ q.noted = "none" /\ q.since = request[r].since
    BY <1>1 DEF Request
  <2>3. \A shown \in q.before : Faithful(q, shown)
    BY <2>0, <2>2, ShowsFaithfully
  <2>4. Fits(q, object'.state)
    BY <1>1, <2>2, <2>3, RecordIsStage DEF Fits
  <2> QED
    BY <1>1, <1>6, <2>1, <2>2, <2>4, StageKeeps
<1> QED
  BY <1>5, <1>6 DEF Carried

LEMMA ObjectFields ==
  ASSUME IInv
  PROVE  /\ object \in Object /\ object.state \in State /\ Follows(object.state, object.state)
         /\ LET gone == [object EXCEPT !.exists = FALSE] IN
              gone \in Object /\ Follows(object.state, gone.state)
<1>1. object \in Object /\ object.state \in State
  BY DEF IInv, TypeOK, Object
<1>2. Follows(object.state, object.state)
  BY <1>1, StateType
<1>3. /\ [object EXCEPT !.exists = FALSE] \in Object
      /\ [object EXCEPT !.exists = FALSE].state = object.state
  BY <1>1 DEF Object
<1> QED
  BY <1>1, <1>2, <1>3

(* The address only changes together with the revision.                    *)
LEMMA RaisedFollows ==
  ASSUME IInv, NEW parts \in SUBSET Parts, CanRaise(parts), "email" \in parts => "version" \in parts
  PROVE  Raised(parts) \in Object /\ Follows(object.state, Raised(parts).state)
<1> DEFINE later == [part \in Parts |-> IF part \in parts THEN object.state[part] + 1 ELSE object.state[part]]
<1>1. object \in Object /\ \A part \in Parts : object.state[part] \in 0..MaxRevision
  BY ObjectFields, StateType DEF Revision
<1>2. \A part \in Parts : later[part] \in 0..MaxRevision /\ object.state[part] <= later[part]
  <2> TAKE part \in Parts
  <2>1. later[part] = IF part \in parts THEN object.state[part] + 1 ELSE object.state[part]
    OBVIOUS
  <2>2. part \in parts => object.state[part] < MaxRevision
    BY DEF CanRaise
  <2> HIDE DEF later
  <2> QED
    BY <1>1, <2>1, <2>2, OperationLogAssumption
<1>3. later \in State
  BY <1>2 DEF State, Revision
<1>4. ASSUME object.state["version"] = later["version"] PROVE object.state["email"] = later["email"]
  <2>1. "version" \in Parts /\ "email" \in Parts
    BY DEF Parts
  <2>2. object.state["version"] \in Int
    BY <1>1, <2>1, OperationLogAssumption
  <2>3. "version" \notin parts
    BY <1>4, <2>1, <2>2
  <2> QED
    BY <2>1, <2>3
<1> HIDE DEF later
<1>5. Follows(object.state, later)
  BY <1>2, <1>4 DEF Follows
<1>6. Raised(parts) = [object EXCEPT !.state = later]
  BY DEF Raised, later
<1>7. Raised(parts) \in Object /\ Raised(parts).state = later
  BY <1>1, <1>3, <1>6 DEF Object
<1> QED
  BY <1>5, <1>7

LEMMA RaisedVersion ==
  ASSUME IInv, CanRaise({"version"})
  PROVE  Raised({"version"}) \in Object /\ Follows(object.state, Raised({"version"}).state)
<1>1. {"version"} \in SUBSET Parts
  BY DEF Parts
<1> QED
  BY <1>1, RaisedFollows

(* What was seen of an object that is now replaced or removed is what the  *)
(* form has as well: nothing has changed since, but its name, if it is an  *)
(* account.                                                                *)
LEMMA SeenIsReplaced ==
  ASSUME IInv, NEW r \in Requests, At(r, Commits), NEW part \in Guarded, UnchangedSince(r, part),
         NEW seen \in request[r].before
  PROVE  /\ seen[part] = object.state[part]
         /\ part = "version" => seen["email"] = object.state["email"]
<1>1. /\ request[r].form \in [Guarded -> Revision] /\ request[r].began \in State /\ object.state \in State
      /\ \A any \in Guarded : request[r].form[any] <= request[r].began[any]
      /\ SeenBy(request[r], seen, object.state)
  BY Underway
<1>2. part \in Parts /\ seen \in State
  BY <1>1 DEF SeenBy, Guarded, Parts
<1>3. /\ request[r].form[part] <= request[r].began[part]
      /\ request[r].began[part] <= seen[part] /\ seen[part] <= object.state[part]
      /\ request[r].form[part] = object.state[part]
  BY <1>1, <1>2 DEF SeenBy, Follows, UnchangedSince
<1>4. request[r].began[part] \in Int /\ seen[part] \in Int /\ object.state[part] \in Int
  BY <1>1, <1>2, StateType
<1>5. seen[part] = object.state[part]
  BY <1>3, <1>4
<1> QED
  BY <1>1, <1>5 DEF SeenBy, Follows

LEMMA ExcerptsShow ==
  ASSUME IInv, NEW r \in Requests, At(r, Commits), NEW parts \in SUBSET Parts,
         \A seen \in request[r].before, part \in parts \cap Guarded : seen[part] = object.state[part]
  PROVE  \A shown \in Excerpts(r, parts) : Shows(r, shown)
<1> TAKE shown \in Excerpts(r, parts)
<1>1. PICK seen \in request[r].before : shown = Excerpt(seen, parts)
  BY DEF Excerpts
<1>2. SeenBy(request[r], seen, object.state)
  BY Underway
<1>3. /\ shown \in Snapshots /\ DOMAIN shown = parts
      /\ \A part \in parts : shown[part] = seen[part]
  BY <1>1, <1>2, ExcerptType DEF SeenBy
<1>4. \A part \in parts : request[r].began[part] <= seen[part] /\ seen[part] <= object.state[part]
  BY <1>2 DEF SeenBy, Follows
<1> QED
  BY <1>3, <1>4 DEF Shows

(* The rows of changes that compare the revision.                          *)
LEMMA DetailsShow ==
  ASSUME IInv, NEW r \in Requests, At(r, Commits), UnchangedSince(r, "version")
  PROVE  \A shown \in Excerpts(r, Details) : Shows(r, shown)
<1>1. "version" \in Guarded /\ \A part \in Guarded : part = "version" \/ part = "email"
  BY DEF Guarded
<1>2. \A seen \in request[r].before :
        seen["version"] = object.state["version"] /\ seen["email"] = object.state["email"]
  BY <1>1, SeenIsReplaced
<1>3. \A seen \in request[r].before, part \in Details \cap Guarded : seen[part] = object.state[part]
  BY <1>1, <1>2
<1> QED
  BY <1>3, DetailsAreParts, ExcerptsShow

(* The rows of changes that read the object under its lock.                *)
LEMMA LockedShows ==
  ASSUME IInv, NEW r \in Requests, At(r, Commits)
  PROVE  Shows(r, Excerpt(object.state, Details))
<1>1. object.state \in State /\ \A part \in Parts : request[r].began[part] <= object.state[part]
  BY Underway
<1>2. /\ Excerpt(object.state, Details) \in Snapshots /\ DOMAIN Excerpt(object.state, Details) = Details
      /\ \A part \in Details : Excerpt(object.state, Details)[part] = object.state[part]
  BY <1>1, DetailsAreParts, ExcerptType
<1>3. \A part \in Details : object.state[part] <= object.state[part]
  BY <1>1, DetailsAreParts, StateType DEF Follows
<1> QED
  BY <1>1, <1>2, <1>3, DetailsAreParts DEF Shows

LEMMA CommitIInv ==
  ASSUME IInv, NEW r \in Requests,
         Write(r) \/ Replace(r) \/ Remove(r) \/ Take(r) \/ Renew(r) \/ End(r) \/ Bump(r)
  PROVE  IInv'
<1> USE ObjectFields
<1>0. \A name \in Commits : At(r, {name}) => At(r, Commits)
  BY DEF At
<1> USE <1>0, CommitNames
<1>1. CASE Write(r)
  BY <1>1, CarriedIInv DEF Write
<1>2. CASE Replace(r)
  <2>1. At(r, Commits) /\ UnchangedSince(r, "version") /\ CanRaise({"version"})
    BY <1>2 DEF Replace
  <2>2. Carried(r, Excerpts(r, Details))
        /\ UNCHANGED <<log, recorder, retention, sweep, now>>
    BY <1>2 DEF Replace
  <2>3. object' = Raised({"version"}) \/ object' = object
    BY <1>2 DEF Replace
  <2>4. object' \in Object /\ Follows(object.state, object'.state)
    BY <2>1, <2>3, RaisedVersion
  <2> QED
    BY <2>1, <2>2, <2>4, DetailsShow, CarriedIInv
<1>3. CASE Remove(r)
  <2>1. At(r, Commits) /\ UnchangedSince(r, "version")
    BY <1>3 DEF Remove
  <2>2. /\ Carried(r, Excerpts(r, Details)) /\ object' = [object EXCEPT !.exists = FALSE]
        /\ UNCHANGED <<log, recorder, retention, sweep, now>>
    BY <1>3 DEF Remove
  <2> QED
    BY <2>1, <2>2, DetailsShow, CarriedIInv
<1>4. CASE Take(r)
  <2>1. At(r, Commits) /\ Carried(r, {Excerpt(object.state, Details)})
    BY <1>4 DEF Take
  <2>2. object' = [object EXCEPT !.exists = FALSE] /\ UNCHANGED <<log, recorder, retention, sweep, now>>
    BY <1>4 DEF Take
  <2>3. \A shown \in {Excerpt(object.state, Details)} : Shows(r, shown)
    BY <2>1, LockedShows
  <2> QED
    BY <2>1, <2>2, <2>3, CarriedIInv
<1>5. CASE Renew(r)
  <2>1. At(r, Commits) /\ Carried(r, {Excerpt(object.state, Details)}) /\ CanRaise({"version"})
    BY <1>5 DEF Renew
  <2>2. object' = Raised({"version"}) /\ UNCHANGED <<log, recorder, retention, sweep, now>>
    BY <1>5 DEF Renew
  <2>3. \A shown \in {Excerpt(object.state, Details)} : Shows(r, shown)
    BY <2>1, LockedShows
  <2> QED
    BY <2>1, <2>2, <2>3, RaisedVersion, CarriedIInv
<1>6. CASE End(r)
  BY <1>6, CarriedIInv DEF End
<1>7. CASE Bump(r)
  BY <1>7, RaisedVersion, CarriedIInv DEF Bump
<1> QED
  BY <1>1, <1>2, <1>3, <1>4, <1>5, <1>6, <1>7

(* The changes of one's own account: nothing guards a name or an avatar,   *)
(* and nothing in the row claims that it does.                             *)
LEMMA PersonalIInv ==
  ASSUME IInv, NEW r \in Requests, Rename(r) \/ SetAvatar(r) \/ ClearAvatar(r) \/ Confirm(r)
  PROVE  IInv'
<1> USE ObjectFields
<1>0. \A name \in Commits : At(r, {name}) => At(r, Commits)
  BY DEF At
<1> USE <1>0, CommitNames
<1>1. /\ \A part \in {"name", "avatar"} : {part} \in SUBSET Parts /\ {part} \cap Guarded = {} /\ part # "email"
      /\ {"email"} \in SUBSET Parts /\ {"email", "version"} \in SUBSET Parts /\ "email" \in Guarded
  BY DEF Parts, Guarded
<1>2. ASSUME NEW part \in {"name", "avatar"}, At(r, Commits), Carried(r, Excerpts(r, {part})),
             CanRaise({part}), object' \in {Raised({part}), object},
             UNCHANGED <<log, recorder, retention, sweep, now>>
      PROVE  IInv'
  <2>1. object' \in Object /\ Follows(object.state, object'.state)
    <3>1. {part} \in SUBSET Parts /\ "email" \notin {part}
      BY <1>1
    <3>2. Raised({part}) \in Object /\ Follows(object.state, Raised({part}).state)
      BY <1>2, <3>1, RaisedFollows
    <3> QED
      BY <1>2, <3>2
  <2>2. \A shown \in Excerpts(r, {part}) : Shows(r, shown)
    BY <1>1, <1>2, ExcerptsShow
  <2> QED
    BY <1>2, <2>1, <2>2, CarriedIInv
<1>3. CASE Rename(r)
  BY <1>2, <1>3 DEF Rename
<1>4. CASE SetAvatar(r)
  BY <1>2, <1>4 DEF SetAvatar
<1>5. CASE ClearAvatar(r)
  <2>1. object' \in {Raised({"avatar"}), object}
    BY <1>5 DEF ClearAvatar
  <2> QED
    BY <1>2, <1>5, <2>1 DEF ClearAvatar
<1>6. CASE Confirm(r)
  <2>1. /\ At(r, Commits) /\ UnchangedSince(r, "email") /\ CanRaise({"email", "version"})
        /\ Carried(r, Excerpts(r, {"email"})) /\ object' = Raised({"email", "version"})
        /\ UNCHANGED <<log, recorder, retention, sweep, now>>
    BY <1>6 DEF Confirm
  <2>2. object' \in Object /\ Follows(object.state, object'.state)
    BY <1>1, <2>1, RaisedFollows
  <2>3. \A seen \in request[r].before, part \in {"email"} \cap Guarded : seen[part] = object.state[part]
    BY <1>1, <2>1, SeenIsReplaced
  <2>4. \A shown \in Excerpts(r, {"email"}) : Shows(r, shown)
    BY <1>1, <2>1, <2>3, ExcerptsShow
  <2> QED
    BY <2>1, <2>2, <2>4, CarriedIInv
<1> QED
  BY <1>3, <1>4, <1>5, <1>6

LEMMA AgedRequest ==
  ASSUME NEW q \in Request, NEW days \in Days, NEW time \in Nat, NEW n, Fits(q, n),
         NEW aged, aged = IF q.noted = "written" /\ time - q.since > days
                          THEN [q EXCEPT !.due = TRUE] ELSE q
  PROVE  /\ aged \in Request /\ Fits(aged, n)
         /\ aged.noted = q.noted /\ aged.since = q.since /\ aged.process = q.process
         /\ aged.replaced = q.replaced /\ aged.began = q.began
         /\ q.due => aged.due
         /\ aged.noted = "written" /\ time - aged.since > days => aged.due
<1>1. CASE q.noted = "written" /\ time - q.since > days
  <2>1. /\ aged \in Request /\ aged.due = TRUE
        /\ aged.noted = q.noted /\ aged.since = q.since /\ aged.process = q.process
        /\ aged.replaced = q.replaced /\ aged.began = q.began
        /\ aged.at = q.at /\ aged.todo = q.todo /\ aged.result = q.result /\ aged.form = q.form
        /\ aged.quiet = q.quiet /\ aged.before = q.before
    BY <1>1 DEF Request
  <2>2. Fits(aged, n)
    BY <2>1 DEF Fits, SeenBy, Faithful
  <2> QED
    BY <1>1, <2>1, <2>2
<1>2. CASE ~(q.noted = "written" /\ time - q.since > days)
  BY <1>2
<1> QED
  BY <1>1, <1>2

(* The same for all requests.                                              *)
KeepsAged(next, base, days, time, n) ==
  /\ next \in [Requests -> Request]
  /\ \A s \in Requests :
       /\ next[s] \in Request /\ Fits(next[s], n)
       /\ next[s].noted = base[s].noted /\ next[s].since = base[s].since
       /\ next[s].process = base[s].process /\ next[s].replaced = base[s].replaced
       /\ next[s].began = base[s].began
       /\ base[s].due => next[s].due
       /\ next[s].noted = "written" /\ time - next[s].since > days => next[s].due

LEMMA AgedRequests ==
  ASSUME NEW base \in [Requests -> Request], NEW days \in Days, NEW time \in Nat, NEW n,
         \A s \in Requests : Fits(base[s], n),
         NEW next, next = Aged(base, days, time)
  PROVE  KeepsAged(next, base, days, time, n)
<1>1. /\ next = [s \in Requests |-> next[s]]
      /\ \A s \in Requests : next[s] = IF base[s].noted = "written" /\ time - base[s].since > days
                                       THEN [base[s] EXCEPT !.due = TRUE] ELSE base[s]
  BY DEF Aged
<1>2. ASSUME NEW s \in Requests
      PROVE  /\ next[s] \in Request /\ Fits(next[s], n)
             /\ next[s].noted = base[s].noted /\ next[s].since = base[s].since
             /\ next[s].process = base[s].process /\ next[s].replaced = base[s].replaced
             /\ next[s].began = base[s].began
             /\ base[s].due => next[s].due
             /\ next[s].noted = "written" /\ time - next[s].since > days => next[s].due
  <2> PICK q : q = base[s]
    OBVIOUS
  <2> PICK aged : aged = next[s]
    OBVIOUS
  <2>1. q \in Request /\ Fits(q, n)
    OBVIOUS
  <2>2. aged = IF q.noted = "written" /\ time - q.since > days
               THEN [q EXCEPT !.due = TRUE] ELSE q
    BY <1>1
  <2>3. /\ aged \in Request /\ Fits(aged, n)
        /\ aged.noted = q.noted /\ aged.since = q.since /\ aged.process = q.process
        /\ aged.replaced = q.replaced /\ aged.began = q.began
        /\ q.due => aged.due
        /\ aged.noted = "written" /\ time - aged.since > days => aged.due
    BY <2>1, <2>2, AgedRequest
  <2> QED
    BY <2>3
<1> QED
  BY <1>1, <1>2 DEF KeepsAged

LEMMA ReplaceRetentionIInv ==
  ASSUME IInv, NEW r \in Requests, NEW days \in Days, ReplaceRetention(r, days)
  PROVE  IInv'
<1>1. /\ At(r, {"replace"}) /\ UnchangedSince(r, "version") /\ CanRaise({"version"})
      /\ retention' = days /\ object' = Raised({"version"}) /\ UNCHANGED <<log, recorder, sweep, now>>
  BY DEF ReplaceRetention
<1>2. At(r, Commits)
  BY <1>1, CommitNames DEF At
<1>3. /\ request[r] \in Request /\ request[r].at = "running" /\ request[r].noted = "none"
      /\ request[r].process \in Processes
  BY <1>2, Underway
<1>4. PICK reply \in {"success", "failure"} :
        request' = Aged([request EXCEPT ![r] = [request[r] EXCEPT
          !.todo = <<"record">>, !.result = reply, !.before = Excerpts(r, Details),
          !.replaced = {object.state}, !.form = NoForm]], days, now)
  BY DEF ReplaceRetention
<1> PICK q : q = [request[r] EXCEPT
      !.todo = <<"record">>, !.result = reply, !.before = Excerpts(r, Details),
      !.replaced = {object.state}, !.form = NoForm]
  OBVIOUS
<1> PICK base : base = [request EXCEPT ![r] = q]
  OBVIOUS
<1>5. request' = Aged(base, days, now)
  BY <1>4
<1>6. \A shown \in Excerpts(r, Details) : Shows(r, shown)
  BY <1>1, <1>2, DetailsShow
<1>7. q \in Request
  <2>1. object.state \in State /\ NoForm \in [Guarded -> Revision]
    BY ObjectFields, NoFormType
  <2>2. Excerpts(r, Details) \in SUBSET Snapshots
    BY <1>6 DEF Shows
  <2> QED
    BY <1>3, <2>1, <2>2, RecordIsStage DEF Request
<1>8. /\ q.todo = <<"record">> /\ q.result = reply /\ q.replaced = {object.state}
      /\ q.before = Excerpts(r, Details) /\ q.at = "running" /\ q.began = request[r].began
      /\ q.process = request[r].process /\ q.noted = "none" /\ q.since = request[r].since
  BY <1>3 DEF Request
<1>9. \A shown \in q.before : Faithful(q, shown)
  BY <1>6, <1>8, ShowsFaithfully
<1> PICK rev : rev = object'.state
  OBVIOUS
<1>10. object' \in Object /\ rev \in State /\ object.state \in State /\ Follows(object.state, rev)
  BY <1>1, ObjectFields, RaisedVersion DEF Object
<1>11. Fits(q, rev)
  BY <1>3, <1>8, <1>9, RecordIsStage DEF Fits
<1>12. request \in [Requests -> Request]
  BY DEF IInv, TypeOK
<1>13. \A s \in Requests : base[s] \in Request /\ Fits(base[s], rev)
  <2>1. \A s \in Requests \ {r} : Fits(request[s], rev)
    BY <1>10, <1>12, FitsLater DEF IInv, RequestsFit
  <2> QED
    BY <1>7, <1>11, <1>12, <2>1
<1>14. base \in [Requests -> Request]
  BY <1>7, <1>12
<1>15. /\ request' \in [Requests -> Request]
       /\ \A s \in Requests :
            /\ request'[s] \in Request /\ Fits(request'[s], rev)
            /\ request'[s].noted = base[s].noted /\ request'[s].since = base[s].since
            /\ request'[s].process = base[s].process /\ request'[s].replaced = base[s].replaced
            /\ request'[s].began = base[s].began
            /\ base[s].due => request'[s].due
            /\ request'[s].noted = "written" /\ now - request'[s].since > days => request'[s].due
  <2> PICK next : next = request'
    OBVIOUS
  <2> PICK time \in Nat : time = now
    BY OperationLogAssumption DEF IInv, TypeOK
  <2>1. next = Aged(base, days, time)
    BY <1>5
  <2>2. \A s \in Requests : Fits(base[s], rev)
    BY <1>13
  <2>3. KeepsAged(next, base, days, time, rev)
    BY <1>14, <2>1, <2>2, AgedRequests
  <2> QED
    BY <2>3 DEF KeepsAged
<1>16. base[r] = q /\ \A s \in Requests \ {r} : base[s] = request[s]
  BY <1>12
<1>17. TypeOK'
  <2>1. request' \in [Requests -> Request]
    BY <1>15
  <2>2. ASSUME NEW s \in Requests
        PROVE  /\ request'[s].at = "running" <=> request'[s].todo # <<>>
               /\ request'[s].todo = <<"record">> => request'[s].result # "none"
    <3>1. request'[s] \in Request /\ Fits(request'[s], rev)
      BY <1>15, <2>2
    <3>2. request'[s].at = "running" <=> request'[s].todo # <<>>
      BY <3>1 DEF Fits
    <3> QED
      BY <1>10, <3>1, <3>2, FitsStages
  <2>3. /\ now' \in 0..MaxNow /\ log' \subseteq LogRow
        /\ recorder' \in [Processes -> Recorder] /\ sweep' \in [Processes -> Days \cup {0}]
    BY <1>1 DEF IInv, TypeOK
  <2> QED
    BY <1>1, <1>10, <2>1, <2>2, <2>3 DEF TypeOK
<1>18. RequestsFit'
  BY <1>15 DEF RequestsFit
<1>19. \A row \in log : row.request \in Requests /\ row.request # r
  <2>1. \A row \in log : row.request \in Requests
    BY DEF IInv, TypeOK, LogRow
  <2>2. \A row \in log : request[row.request].noted = "written"
    BY DEF IInv, RowsFit
  <2> QED
    BY <1>3, <2>1, <2>2
<1>20. RowsFit'
  <2>1. \A row \in log :
          /\ request'[row.request].noted = request[row.request].noted
          /\ request'[row.request].since = request[row.request].since
          /\ request'[row.request].replaced = request[row.request].replaced
          /\ request'[row.request].began = request[row.request].began
    <3>1. \A s \in Requests \ {r} :
            /\ request'[s].noted = request[s].noted /\ request'[s].since = request[s].since
            /\ request'[s].replaced = request[s].replaced /\ request'[s].began = request[s].began
      <4> TAKE s \in Requests \ {r}
      <4>1. base[s] = request[s]
        BY <1>16
      <4>2. /\ request'[s].noted = base[s].noted /\ request'[s].since = base[s].since
            /\ request'[s].replaced = base[s].replaced /\ request'[s].began = base[s].began
        BY <1>15
      <4> QED
        BY <4>1, <4>2
    <3> QED
      BY <1>19, <3>1
  <2> QED
    BY <1>1, <2>1 DEF IInv, RowsFit, Faithful
<1>21. RowsAreSingle'
  BY <1>1 DEF IInv, RowsAreSingle
<1>22. RowsAreKept'
  <2>1. ASSUME NEW s \in Requests PROVE Kept(s)'
    <3>1. Kept(s)
      BY <2>1 DEF IInv, RowsAreKept
    <3>2. request[s].since = base[s].since
      BY <1>8, <1>16
    <3>3. CASE s = r
      <4>1. request'[s].noted = base[s].noted /\ request'[s].since = base[s].since
        BY <1>15
      <4>2. request'[s].since <= now' /\ request'[s].noted = "none"
        BY <1>1, <1>8, <1>16, <3>1, <3>2, <3>3, <4>1 DEF Kept
      <4> QED
        BY <4>2 DEF Kept
    <3>4. CASE s # r
      <4>1. base[s] = request[s]
        BY <1>16, <2>1, <3>4
      <4>2. request'[s].since <= now'
        BY <1>1, <1>15, <3>1, <4>1 DEF Kept
      <4>3. ASSUME request'[s].noted = "written"
            PROVE  /\ RowsOf(s)' # {} \/ request'[s].due
                   /\ now' - request'[s].since > retention' => request'[s].due
                   /\ \A p \in Processes :
                        sweep'[p] > 0 /\ now' - request'[s].since > sweep'[p] => request'[s].due
        <5>1. /\ request[s].noted = "written" /\ request'[s].since = request[s].since
              /\ request[s].due => request'[s].due
              /\ now - request'[s].since > days => request'[s].due
          BY <1>15, <4>1, <4>3
        <5>2. RowsOf(s)' = RowsOf(s)
          BY <1>1 DEF RowsOf
        <5> QED
          BY <1>1, <3>1, <5>1, <5>2 DEF Kept
      <4> QED
        BY <4>2, <4>3 DEF Kept
    <3> QED
      BY <3>3, <3>4
  <2> QED
    BY <2>1 DEF RowsAreKept
<1>23. MissesAreKnown'
  <2>1. \A s \in Requests : request'[s].noted = "failed" =>
          /\ request[s].noted = "failed" /\ request'[s].since = request[s].since
          /\ request'[s].process = request[s].process
    <3> TAKE s \in Requests
    <3>1. base[s] = request[s] \/ base[s].noted = "none"
      BY <1>8, <1>16
    <3>2. request'[s].noted = base[s].noted /\ request'[s].since = base[s].since
          /\ request'[s].process = base[s].process
      BY <1>15
    <3> QED
      BY <3>1, <3>2
  <2> QED
    BY <1>1, <2>1 DEF IInv, MissesAreKnown
<1> QED
  BY <1>17, <1>18, <1>20, <1>21, <1>22, <1>23 DEF IInv

(* A request at its record has its result, and no row.                     *)
LEMMA AtRecord ==
  ASSUME IInv, NEW r \in Requests, At(r, {"record"})
  PROVE  /\ request[r] \in Request /\ request[r].process \in Processes
         /\ request[r].result \in {"success", "failure"} /\ request[r].noted = "none"
         /\ request[r].result = "success" => request[r].replaced # {}
         /\ \A seen \in request[r].before : Faithful(request[r], seen)
         /\ \A row \in log : row.request \in Requests \ {r}
         /\ RowsOf(r) = {}
<1>1. request[r] \in Request /\ request[r].at = "running" /\ Fits(request[r], object.state)
  BY DEF IInv, TypeOK, RequestsFit, At
<1>2. request[r].result # "none"
  <2>1. ASSUME request[r].result = "none" PROVE FALSE
    <3>1. PICK i \in Nat : Ahead(request[r].todo, i, request[r].quiet)
      BY <1>1, <2>1 DEF Fits
    <3>2. request[r].todo \in Seq(Stages) /\ request[r].quiet \in BOOLEAN
      BY <1>1 DEF Request
    <3>3. Head(request[r].todo) \in Early \cup Commits
      BY <3>1, <3>2, AheadType
    <3> QED
      BY <3>3, StageNames DEF At
  <2> QED
    BY <2>1
<1>3. /\ request[r].process \in Processes /\ request[r].noted = "none"
      /\ request[r].result = "success" => request[r].replaced # {}
      /\ \A seen \in request[r].before : Faithful(request[r], seen)
  BY <1>1, <1>2 DEF Fits
<1>4. \A row \in log : row.request \in Requests \ {r}
  <2>1. \A row \in log : row.request \in Requests
    BY DEF IInv, TypeOK, LogRow
  <2>2. \A row \in log : request[row.request].noted = "written"
    BY DEF IInv, RowsFit
  <2> QED
    BY <1>3, <2>1, <2>2
<1>5. RowsOf(r) = {}
  BY <1>4 DEF RowsOf
<1>6. request[r].result \in {"success", "failure"}
  BY <1>1, <1>2 DEF Request
<1> QED
  BY <1>1, <1>3, <1>4, <1>5, <1>6

LEMMA RecordsKeep ==
  ASSUME IInv, NEW r \in Requests, At(r, {"record"}),
         NEW noted \in {"written", "failed"}, request' = Done(r, noted),
         log' = log \cup (IF noted = "written" THEN {Row(r)} ELSE {}),
         recorder' \in [Processes -> Recorder],
         \A p \in Processes : recorder[p].failed <= recorder'[p].failed /\ recorder'[p].failed <= now,
         noted = "failed" => recorder'[request[r].process].failed = now,
         UNCHANGED <<object, retention, sweep, now>>
  PROVE  IInv'
<1> PICK q : q = [request[r] EXCEPT
      !.at = "done", !.todo = <<>>, !.before = {}, !.noted = noted, !.since = now]
  OBVIOUS
<1> PICK row : row = Row(r)
  OBVIOUS
<1>1. /\ request[r] \in Request /\ request[r].process \in Processes
      /\ request[r].result \in {"success", "failure"}
      /\ request[r].result = "success" => request[r].replaced # {}
      /\ \A seen \in request[r].before : Faithful(request[r], seen)
      /\ \A old \in log : old.request \in Requests \ {r}
      /\ RowsOf(r) = {}
  BY AtRecord
<1>2. /\ request \in [Requests -> Request] /\ log \subseteq LogRow /\ retention \in Days /\ now \in 0..MaxNow
      /\ sweep \in [Processes -> Days \cup {0}] /\ object \in Object /\ object.state \in State
  BY DEF IInv, TypeOK, Object
<1>3. q \in Request
  <2>1. <<>> \in Seq(Stages)
    OBVIOUS
  <2> QED
    BY <1>1, <1>2, <2>1 DEF Request
<1>4. /\ q.at = "done" /\ q.todo = <<>> /\ q.before = {} /\ q.noted = noted /\ q.since = now
      /\ q.process = request[r].process /\ q.replaced = request[r].replaced
      /\ q.began = request[r].began
  BY <1>1 DEF Request
<1>5. request' = [request EXCEPT ![r] = q]
  BY DEF Done
<1>6. request'[r] = q /\ \A s \in Requests \ {r} : request'[s] = request[s]
  BY <1>2, <1>5
<1>7. /\ row \in LogRow /\ row.request = r /\ row.result = request[r].result
      /\ row.before = request[r].before /\ row.occurred = now
  <2>1. Cardinality(RowsOf(r)) \in Nat
    BY <1>1, FS_EmptySet
  <2>2. request[r].before \in SUBSET Snapshots
    BY <1>1 DEF Request
  <2> QED
    BY <1>1, <1>2, <2>1, <2>2 DEF Row, LogRow
<1>8. \A new \in log' : new \in log \/ (new = row /\ noted = "written")
  OBVIOUS
<1>9. Fits(q, object.state)
  BY <1>1, <1>4 DEF Fits
<1>10. RequestsFit'
  <2>1. \A s \in Requests : Fits(request'[s], object.state)
    BY <1>6, <1>9 DEF IInv, RequestsFit
  <2> QED
    BY <2>1 DEF RequestsFit
<1>11. TypeOK'
  <2>1. request' \in [Requests -> Request] /\ log' \subseteq LogRow
    BY <1>2, <1>3, <1>5, <1>7, <1>8
  <2>2. ASSUME NEW s \in Requests
        PROVE  /\ request'[s].at = "running" <=> request'[s].todo # <<>>
               /\ request'[s].todo = <<"record">> => request'[s].result # "none"
    <3>1. CASE s = r
      BY <1>4, <1>6, <3>1, RecordIsStage
    <3>2. CASE s # r
      BY <1>6, <2>2, <3>2 DEF IInv, TypeOK
    <3> QED
      BY <3>1, <3>2
  <2> QED
    BY <1>2, <2>1, <2>2 DEF TypeOK
<1>12. RowsFit'
  <2>1. ASSUME NEW new \in log'
        PROVE  /\ request'[new.request].noted = "written" /\ new.occurred = request'[new.request].since
               /\ \A seen \in new.before : Faithful(request'[new.request], seen)
               /\ new.result = "success" => request'[new.request].replaced # {}
    <3>1. CASE new \in log
      <4>1. request'[new.request] = request[new.request]
        BY <1>1, <1>6, <3>1
      <4> QED
        BY <3>1, <4>1 DEF IInv, RowsFit
    <3>2. CASE new = row /\ noted = "written"
      <4>1. /\ request'[new.request] = q /\ q.noted = "written"
            /\ new.occurred = q.since /\ new.result = request[r].result /\ new.before = request[r].before
        BY <1>4, <1>6, <1>7, <3>2
      <4> QED
        BY <1>1, <1>4, <4>1 DEF Faithful
    <3> QED
      BY <1>8, <2>1, <3>1, <3>2
  <2> QED
    BY <2>1 DEF RowsFit
<1>13. RowsAreSingle'
  <2>1. ASSUME NEW one \in log', NEW two \in log', one.request = two.request
        PROVE  one = two
    <3>1. CASE one \in log /\ two \in log
      BY <2>1, <3>1 DEF IInv, RowsAreSingle
    <3>2. CASE one \notin log \/ two \notin log
      BY <1>1, <1>7, <1>8, <2>1, <3>2
    <3> QED
      BY <3>1, <3>2
  <2> QED
    BY <2>1 DEF RowsAreSingle
<1>14. RowsAreKept'
  <2>0. /\ now <= now /\ ~(now - now > retention)
        /\ \A p \in Processes : ~(sweep[p] > 0 /\ now - now > sweep[p])
    <3>1. now \in Nat /\ now - now = 0 /\ retention \in Nat /\ \A p \in Processes : sweep[p] \in Nat
      BY <1>2, OperationLogAssumption
    <3> QED
      BY <3>1
  <2>1. ASSUME NEW s \in Requests PROVE Kept(s)'
    <3>1. CASE s = r
      <4>1. request'[s].since = now /\ request'[s].noted = noted
        BY <1>4, <1>6, <3>1
      <4>2. ASSUME noted = "written" PROVE RowsOf(s)' # {}
        <5>1. row \in log' /\ row.request = s
          BY <1>7, <3>1, <4>2
        <5> QED
          BY <5>1 DEF RowsOf
      <4> QED
        BY <2>0, <4>1, <4>2 DEF Kept
    <3>2. CASE s # r
      <4>1. request'[s] = request[s]
        BY <1>6, <2>1, <3>2
      <4>2. RowsOf(s)' = RowsOf(s)
        BY <1>7, <1>8, <3>2 DEF RowsOf
      <4>3. Kept(s)
        BY <2>1 DEF IInv, RowsAreKept
      <4> QED
        BY <4>1, <4>2, <4>3 DEF Kept
    <3> QED
      BY <3>1, <3>2
  <2> QED
    BY <2>1 DEF RowsAreKept
<1>15. MissesAreKnown'
  <2>1. \A p \in Processes : recorder'[p].failed <= now'
    OBVIOUS
  <2>2. ASSUME NEW s \in Requests, request'[s].noted = "failed"
        PROVE  request'[s].since <= recorder'[request'[s].process].failed
    <3>1. CASE s = r
      <4>1. request'[s] = q /\ q.since = now /\ noted = "failed" /\ q.process = request[r].process
        BY <1>4, <1>6, <2>2, <3>1
      <4>2. recorder'[q.process].failed = now
        BY <4>1
      <4>3. now <= now
        BY <1>2, OperationLogAssumption
      <4> QED
        BY <4>1, <4>2, <4>3
    <3>2. CASE s # r
      <4>1. request'[s] = request[s] /\ request[s].noted = "failed"
        BY <1>6, <2>2, <3>2
      <4>2. request[s].since <= recorder[request[s].process].failed
        BY <4>1 DEF IInv, MissesAreKnown
      <4>3. request[s].process \in Processes
        <5>1. Fits(request[s], object.state)
          BY DEF IInv, RequestsFit
        <5> QED
          BY <4>1, <5>1 DEF Fits
      <4>4. /\ request[s].since \in Int
            /\ recorder[request[s].process].failed \in Int /\ recorder'[request[s].process].failed \in Int
        <5>1. /\ request[s] \in Request /\ recorder[request[s].process] \in Recorder
              /\ recorder'[request[s].process] \in Recorder
          BY <1>2, <4>3 DEF IInv, TypeOK
        <5> QED
          BY <5>1, OperationLogAssumption DEF Request, Recorder
      <4>5. recorder[request[s].process].failed <= recorder'[request[s].process].failed
        BY <4>3
      <4> QED
        BY <4>1, <4>2, <4>4, <4>5
    <3> QED
      BY <3>1, <3>2
  <2> QED
    BY <2>1, <2>2 DEF MissesAreKnown
<1> QED
  BY <1>10, <1>11, <1>12, <1>13, <1>14, <1>15 DEF IInv

LEMMA MarkedProcess ==
  ASSUME IInv, NEW p \in Processes, NEW failed \in BOOLEAN, Marked(p, failed)
  PROVE  /\ recorder' \in [Processes -> Recorder]
         /\ \A s \in Processes : recorder[s].failed <= recorder'[s].failed /\ recorder'[s].failed <= now
         /\ failed => recorder'[p].failed = now
<1>1. recorder \in [Processes -> Recorder] /\ now \in 0..MaxNow
  BY DEF IInv, TypeOK
<1>2. \A s \in Processes : recorder[s] \in Recorder /\ recorder[s].failed \in Int /\ recorder[s].failed <= now
  <2>1. \A s \in Processes : recorder[s].failed <= now
    BY DEF IInv, MissesAreKnown
  <2> QED
    BY <1>1, <2>1, OperationLogAssumption DEF Recorder
<1>3. now \in Int /\ now \in -1..MaxNow
  BY <1>1, OperationLogAssumption
<1> PICK mark : mark = recorder'[p]
  OBVIOUS
<1>4. CASE failed
  <2>1. recorder' = [recorder EXCEPT ![p] = [recorder[p] EXCEPT !.failed = now, !.failing = TRUE]]
    BY <1>4 DEF Marked
  <2>2. mark = [recorder[p] EXCEPT !.failed = now, !.failing = TRUE]
    BY <1>1, <2>1
  <2>3. mark \in Recorder /\ mark.failed = now
    BY <1>2, <1>3, <2>2 DEF Recorder
  <2>4. recorder' = [recorder EXCEPT ![p] = mark]
    BY <2>1, <2>2
  <2> QED
    BY <1>1, <1>2, <1>3, <2>3, <2>4
<1>5. CASE ~failed
  <2>1. recorder' = [recorder EXCEPT ![p] = [recorder[p] EXCEPT !.succeeded = TRUE, !.failing = FALSE]]
    BY <1>5 DEF Marked
  <2>2. mark = [recorder[p] EXCEPT !.succeeded = TRUE, !.failing = FALSE]
    BY <1>1, <2>1
  <2>3. mark \in Recorder /\ mark.failed = recorder[p].failed
    BY <1>2, <2>2 DEF Recorder
  <2>4. recorder' = [recorder EXCEPT ![p] = mark]
    BY <2>1, <2>2
  <2> QED
    BY <1>1, <1>2, <1>5, <2>3, <2>4
<1> QED
  BY <1>4, <1>5

LEMMA RecordIInv ==
  ASSUME IInv, NEW r \in Requests, Record(r) \/ Miss(r) \/ MissReply(r)
  PROVE  IInv'
<1>1. request[r].process \in Processes
  BY AtRecord DEF Record, Miss, MissReply
<1>2. CASE Record(r)
  BY <1>1, <1>2, MarkedProcess, RecordsKeep DEF Record
<1>3. CASE Miss(r)
  BY <1>1, <1>3, MarkedProcess, RecordsKeep DEF Miss
<1>4. CASE MissReply(r)
  BY <1>1, <1>4, MarkedProcess, RecordsKeep DEF MissReply
<1> QED
  BY <1>2, <1>3, <1>4

LEMMA CrashIInv ==
  ASSUME IInv, NEW p \in Processes, Crash(p)
  PROVE  IInv'
<1>1. /\ request \in [Requests -> Request] /\ log \subseteq LogRow /\ retention \in Days /\ now \in 0..MaxNow
      /\ sweep \in [Processes -> Days \cup {0}] /\ object \in Object /\ object.state \in State
      /\ recorder \in [Processes -> Recorder]
  BY DEF IInv, TypeOK, Object
<1>2. /\ recorder' = [recorder EXCEPT ![p] = Started] /\ sweep' = [sweep EXCEPT ![p] = 0]
      /\ UNCHANGED <<object, log, retention, now>>
  BY DEF Crash
<1>3. ASSUME NEW s \in Requests
      PROVE  /\ request'[s] \in Request /\ Fits(request'[s], object.state)
             /\ request'[s].since = request[s].since /\ request'[s].due = request[s].due
             /\ request'[s].process = request[s].process
             /\ request'[s].began = request[s].began /\ request'[s].replaced = request[s].replaced
             /\ request'[s].noted = "written" <=> request[s].noted = "written"
             /\ request'[s].noted = "failed" => request[s].noted = "failed" /\ request[s].process # p
  <2>1. request[s] \in Request /\ Fits(request[s], object.state)
    BY <1>1 DEF IInv, RequestsFit
  <2>2. request'[s] =
          IF request[s].process # p THEN request[s]
          ELSE CASE request[s].at = "running" ->
                      [request[s] EXCEPT !.at = "lost", !.todo = <<>>, !.form = NoForm, !.before = {}]
                 [] request[s].noted = "failed" -> [request[s] EXCEPT !.noted = "forgotten"]
                 [] OTHER -> request[s]
    BY DEF Crash
  <2>3. request[s].at = "running" => request[s].noted = "none"
    BY <2>1 DEF Fits
  <2> PICK q : q = request'[s]
    OBVIOUS
  <2>4. CASE request[s].process = p /\ request[s].at = "running"
    <3>1. q = [request[s] EXCEPT !.at = "lost", !.todo = <<>>, !.form = NoForm, !.before = {}]
      BY <2>2, <2>3, <2>4
    <3>2. NoForm \in [Guarded -> Revision] /\ <<>> \in Seq(Stages)
      BY NoFormType
    <3>3. /\ q \in Request /\ q.at = "lost" /\ q.todo = <<>> /\ q.noted = "none"
          /\ q.since = request[s].since /\ q.due = request[s].due
          /\ q.process = request[s].process /\ q.began = request[s].began
          /\ q.replaced = request[s].replaced
      BY <2>1, <2>3, <2>4, <3>1, <3>2 DEF Request
    <3>4. Fits(q, object.state)
      BY <2>4, <3>3 DEF Fits
    <3> QED
      BY <2>3, <2>4, <3>3, <3>4
  <2>5. CASE request[s].process = p /\ request[s].at # "running" /\ request[s].noted = "failed"
    <3>1. q = [request[s] EXCEPT !.noted = "forgotten"]
      BY <2>2, <2>5
    <3>2. /\ q \in Request /\ q.at = request[s].at /\ q.todo = request[s].todo /\ q.noted = "forgotten"
          /\ q.since = request[s].since /\ q.due = request[s].due
          /\ q.process = request[s].process /\ q.began = request[s].began
          /\ q.replaced = request[s].replaced
      BY <2>1, <3>1 DEF Request
    <3>3. request[s].at = "done" /\ (request[s].at = "running" <=> request[s].todo # <<>>)
      BY <2>1, <2>5 DEF Fits
    <3>4. Fits(q, object.state)
      BY <2>5, <3>2, <3>3 DEF Fits
    <3> QED
      BY <2>5, <3>2, <3>4
  <2>6. CASE /\ request[s].process # p \/ (request[s].at # "running" /\ request[s].noted # "failed")
    <3>1. q = request[s]
      BY <2>2, <2>6
    <3> QED
      BY <2>1, <2>6, <3>1
  <2> QED
    BY <2>4, <2>5, <2>6
<1>4. TypeOK'
  <2>1. request' \in [Requests -> Request]
    <3> DEFINE after(s) ==
          IF request[s].process # p THEN request[s]
          ELSE CASE request[s].at = "running" ->
                      [request[s] EXCEPT !.at = "lost", !.todo = <<>>, !.form = NoForm, !.before = {}]
                 [] request[s].noted = "failed" -> [request[s] EXCEPT !.noted = "forgotten"]
                 [] OTHER -> request[s]
    <3>1. request' = [s \in Requests |-> after(s)]
      BY Zenon DEF Crash
    <3> HIDE DEF after
    <3>2. \A s \in Requests : after(s) = request'[s]
      BY <3>1
    <3> QED
      BY <1>3, <3>1, <3>2
  <2>2. ASSUME NEW s \in Requests
        PROVE  /\ request'[s].at = "running" <=> request'[s].todo # <<>>
               /\ request'[s].todo = <<"record">> => request'[s].result # "none"
    <3>1. request'[s] \in Request /\ Fits(request'[s], object.state)
      BY <1>3, <2>2
    <3>2. request'[s].at = "running" <=> request'[s].todo # <<>>
      BY <3>1 DEF Fits
    <3> QED
      BY <1>1, <3>1, <3>2, FitsStages
  <2>3. recorder' \in [Processes -> Recorder] /\ sweep' \in [Processes -> Days \cup {0}]
    <3>1. Started \in Recorder
      BY OperationLogAssumption DEF Started, Recorder
    <3> QED
      BY <1>1, <1>2, <3>1
  <2> QED
    BY <1>1, <1>2, <2>1, <2>2, <2>3 DEF TypeOK
<1>5. RequestsFit'
  <2>1. \A s \in Requests : Fits(request'[s], object.state)
    BY <1>3
  <2> QED
    BY <1>2, <2>1 DEF RequestsFit
<1>6. RowsFit'
  <2>1. ASSUME NEW row \in log
        PROVE  /\ request'[row.request].noted = "written" /\ row.occurred = request'[row.request].since
               /\ \A seen \in row.before : Faithful(request'[row.request], seen)
               /\ row.result = "success" => request'[row.request].replaced # {}
    <3>1. row.request \in Requests
      BY <1>1, <2>1 DEF LogRow
    <3> PICK s \in Requests : s = row.request
      BY <3>1
    <3>2. /\ request[s].noted = "written" /\ row.occurred = request[s].since
          /\ \A seen \in row.before : Faithful(request[s], seen)
          /\ row.result = "success" => request[s].replaced # {}
      BY <2>1 DEF IInv, RowsFit
    <3>3. /\ request'[s].since = request[s].since /\ request'[s].began = request[s].began
          /\ request'[s].replaced = request[s].replaced
          /\ request'[s].noted = "written" <=> request[s].noted = "written"
      BY <1>3
    <3> QED
      BY <3>2, <3>3 DEF Faithful
  <2> QED
    BY <1>2, <2>1 DEF RowsFit
<1>7. RowsAreSingle'
  BY <1>2 DEF IInv, RowsAreSingle
<1>8. RowsAreKept'
  <2>1. ASSUME NEW s \in Requests PROVE Kept(s)'
    <3>1. Kept(s)
      BY <2>1 DEF IInv, RowsAreKept
    <3>2. /\ request'[s].since = request[s].since /\ request'[s].due = request[s].due
          /\ request'[s].noted = "written" <=> request[s].noted = "written"
      BY <1>3
    <3>3. RowsOf(s)' = RowsOf(s)
      BY <1>2 DEF RowsOf
    <3>4. \A t \in Processes : sweep'[t] > 0 => sweep'[t] = sweep[t]
      BY <1>1, <1>2
    <3> QED
      BY <1>2, <3>1, <3>2, <3>3, <3>4 DEF Kept
  <2> QED
    BY <2>1 DEF RowsAreKept
<1>9. MissesAreKnown'
  <2>1. \A t \in Processes : recorder'[t].failed <= now'
    <3>1. Started.failed = -1 /\ -1 <= now
      BY <1>1, OperationLogAssumption DEF Started
    <3> QED
      BY <1>1, <1>2, <3>1 DEF IInv, MissesAreKnown
  <2>2. ASSUME NEW s \in Requests, request'[s].noted = "failed"
        PROVE  request'[s].since <= recorder'[request'[s].process].failed
    <3>1. /\ request'[s].since = request[s].since /\ request'[s].process = request[s].process
          /\ request[s].noted = "failed" /\ request[s].process # p
      BY <1>3, <2>2
    <3>2. request[s].process \in Processes
      <4>1. Fits(request[s], object.state)
        BY DEF IInv, RequestsFit
      <4> QED
        BY <3>1, <4>1 DEF Fits
    <3>3. recorder'[request[s].process] = recorder[request[s].process]
      BY <1>1, <1>2, <3>1, <3>2
    <3> QED
      BY <3>1, <3>3 DEF IInv, MissesAreKnown
  <2> QED
    BY <2>1, <2>2 DEF MissesAreKnown
<1> QED
  BY <1>4, <1>5, <1>6, <1>7, <1>8, <1>9 DEF IInv

LEMMA BeginCleanupIInv ==
  ASSUME IInv, NEW p \in Processes, BeginCleanup(p)
  PROVE  IInv'
<1>1. /\ sweep' = [sweep EXCEPT ![p] = retention]
      /\ UNCHANGED <<object, request, log, recorder, retention, now>>
  BY DEF BeginCleanup
<1>2. sweep \in [Processes -> Days \cup {0}] /\ retention \in Days
  BY DEF IInv, TypeOK
<1>3. TypeOK'
  BY <1>1, <1>2 DEF IInv, TypeOK
<1>4. RequestsFit' /\ RowsFit' /\ RowsAreSingle' /\ MissesAreKnown'
  BY <1>1 DEF IInv, RequestsFit, RowsFit, RowsAreSingle, MissesAreKnown
<1>5. RowsAreKept'
  <2>1. ASSUME NEW s \in Requests PROVE Kept(s)'
    <3>1. Kept(s)
      BY <2>1 DEF IInv, RowsAreKept
    <3>2. RowsOf(s)' = RowsOf(s)
      BY <1>1 DEF RowsOf
    <3>3. \A t \in Processes : sweep'[t] = sweep[t] \/ sweep'[t] = retention
      BY <1>1, <1>2
    <3> QED
      BY <1>1, <3>1, <3>2, <3>3 DEF Kept
  <2> QED
    BY <2>1 DEF RowsAreKept
<1> QED
  BY <1>3, <1>4, <1>5 DEF IInv

LEMMA EndCleanupIInv ==
  ASSUME IInv, NEW p \in Processes, FinishCleanup(p) \/ GiveUpCleanup(p)
  PROVE  IInv'
<1>1. /\ sweep[p] > 0 /\ sweep' = [sweep EXCEPT ![p] = 0]
      /\ UNCHANGED <<object, request, recorder, retention, now>>
      /\ log' = {row \in log : ~Expired(row, sweep[p])} \/ log' = log
  BY DEF FinishCleanup, GiveUpCleanup
<1>2. /\ sweep \in [Processes -> Days \cup {0}] /\ log \subseteq LogRow /\ log' \subseteq log
      /\ now \in Nat /\ sweep[p] \in Nat
  <2>1. /\ sweep \in [Processes -> Days \cup {0}] /\ log \subseteq LogRow /\ now \in 0..MaxNow
    BY DEF IInv, TypeOK
  <2>2. log' \subseteq log
    BY <1>1
  <2>3. now \in Nat
    BY <2>1, OperationLogAssumption
  <2>4. sweep[p] \in Days \cup {0}
    BY <2>1
  <2>5. sweep[p] \in Nat
    <3>1. \A days \in Days : days \in Nat
      BY OperationLogAssumption
    <3> QED
      BY <2>4, <3>1
  <2> QED
    BY <2>1, <2>2, <2>3, <2>5
<1>3. TypeOK'
  <2>1. sweep' \in [Processes -> Days \cup {0}]
    BY <1>1, <1>2
  <2>2. log' \subseteq LogRow
    BY <1>2
  <2> QED
    BY <1>1, <2>1, <2>2 DEF IInv, TypeOK
<1>4. RequestsFit' /\ MissesAreKnown'
  BY <1>1 DEF IInv, RequestsFit, MissesAreKnown
<1>5. RowsFit' /\ RowsAreSingle'
  BY <1>1, <1>2 DEF IInv, RowsFit, RowsAreSingle
<1>6. RowsAreKept'
  <2>1. ASSUME NEW s \in Requests PROVE Kept(s)'
    <3>1. Kept(s)
      BY <2>1 DEF IInv, RowsAreKept
    <3>3. \A t \in Processes : sweep'[t] > 0 => sweep'[t] = sweep[t]
      BY <1>1, <1>2
    <3>4. ASSUME request[s].noted = "written"
          PROVE  RowsOf(s)' # {} \/ request[s].due
      <4>1. CASE RowsOf(s) = {}
        BY <3>1, <3>4, <4>1 DEF Kept
      <4>2. CASE \E row \in RowsOf(s) : row \in log'
        BY <4>2 DEF RowsOf
      <4>3. CASE RowsOf(s) # {} /\ \A row \in RowsOf(s) : row \notin log'
        <5>1. PICK row \in log : row.request = s /\ row \notin log'
          BY <4>3 DEF RowsOf
        <5>2. now - row.occurred > sweep[p] /\ row.occurred = request[s].since
          BY <1>1, <5>1 DEF Expired, IInv, RowsFit
        <5> QED
          BY <1>1, <3>1, <3>4, <5>2 DEF Kept
      <4> QED
        BY <4>1, <4>2, <4>3
    <3> QED
      BY <1>1, <3>1, <3>3, <3>4 DEF Kept
  <2> QED
    BY <2>1 DEF RowsAreKept
<1> QED
  BY <1>3, <1>4, <1>5, <1>6 DEF IInv

LEMMA TickIInv ==
  ASSUME IInv, Tick
  PROVE  IInv'
<1>1. /\ now < MaxNow /\ now' = now + 1 /\ \A p \in Processes : sweep[p] = 0
      /\ request' = Aged(request, retention, now')
      /\ UNCHANGED <<object, log, recorder, retention, sweep>>
  BY DEF Tick
<1>2. /\ now \in 0..MaxNow /\ now \in Nat /\ now' \in 0..MaxNow /\ now' \in Nat
      /\ request \in [Requests -> Request] /\ retention \in Days /\ object.state \in State
  BY <1>1, OperationLogAssumption DEF IInv, TypeOK, Object
<1>3. \A s \in Requests : Fits(request[s], object.state)
  BY DEF IInv, RequestsFit
<1>4. /\ request' \in [Requests -> Request]
      /\ \A s \in Requests :
           /\ request'[s] \in Request /\ Fits(request'[s], object.state)
           /\ request'[s].noted = request[s].noted /\ request'[s].since = request[s].since
           /\ request'[s].process = request[s].process /\ request'[s].replaced = request[s].replaced
           /\ request'[s].began = request[s].began
           /\ request[s].due => request'[s].due
           /\ request'[s].noted = "written" /\ now' - request'[s].since > retention => request'[s].due
  <2> PICK next : next = request'
    OBVIOUS
  <2> PICK time \in Nat : time = now'
    BY <1>2
  <2> PICK base, days, n : base = request /\ days = retention /\ n = object.state
    OBVIOUS
  <2>1. next = Aged(base, days, time)
    BY <1>1
  <2>2. /\ base \in [Requests -> Request] /\ days \in Days
        /\ \A s \in Requests : Fits(base[s], n)
    BY <1>2, <1>3
  <2>3. KeepsAged(next, base, days, time, n)
    BY <2>1, <2>2, AgedRequests
  <2> QED
    BY <2>3 DEF KeepsAged
<1>5. TypeOK'
  <2>1. request' \in [Requests -> Request]
    BY <1>4
  <2>2. ASSUME NEW s \in Requests
        PROVE  /\ request'[s].at = "running" <=> request'[s].todo # <<>>
               /\ request'[s].todo = <<"record">> => request'[s].result # "none"
    <3>1. request'[s] \in Request /\ Fits(request'[s], object.state)
      BY <1>4, <2>2
    <3>2. request'[s].at = "running" <=> request'[s].todo # <<>>
      BY <3>1 DEF Fits
    <3> QED
      BY <1>2, <3>1, <3>2, FitsStages
  <2>3. /\ object \in Object /\ log \subseteq LogRow
        /\ recorder \in [Processes -> Recorder] /\ sweep \in [Processes -> Days \cup {0}]
    BY DEF IInv, TypeOK
  <2> QED
    BY <1>1, <1>2, <2>1, <2>2, <2>3 DEF TypeOK
<1>6. RequestsFit'
  <2>1. \A s \in Requests : Fits(request'[s], object.state)
    BY <1>4
  <2> QED
    BY <1>1, <2>1 DEF RequestsFit
<1>7. RowsFit'
  <2>1. \A row \in log : row.request \in Requests
    BY DEF IInv, TypeOK, LogRow
  <2> QED
    BY <1>1, <1>4, <2>1 DEF IInv, RowsFit, Faithful
<1>8. RowsAreSingle'
  BY <1>1 DEF IInv, RowsAreSingle
<1>9. RowsAreKept'
  <2>1. ASSUME NEW s \in Requests PROVE Kept(s)'
    <3>1. Kept(s)
      BY <2>1 DEF IInv, RowsAreKept
    <3>2. request[s].since \in Nat /\ request[s].since <= now'
      <4>1. request[s].since \in 0..MaxNow /\ request[s].since <= now
        BY <1>2, <3>1 DEF Kept, Request
      <4> QED
        BY <1>1, <1>2, <4>1, OperationLogAssumption
    <3>3. RowsOf(s)' = RowsOf(s)
      BY <1>1 DEF RowsOf
    <3>4. \A p \in Processes : ~(sweep'[p] > 0)
      BY <1>1
    <3>5. /\ request'[s].noted = request[s].noted /\ request'[s].since = request[s].since
          /\ request[s].due => request'[s].due
          /\ request'[s].noted = "written" /\ now' - request'[s].since > retention => request'[s].due
      BY <1>4
    <3> QED
      BY <1>1, <3>1, <3>2, <3>3, <3>4, <3>5 DEF Kept
  <2> QED
    BY <2>1 DEF RowsAreKept
<1>10. MissesAreKnown'
  <2>1. \A p \in Processes : recorder[p].failed \in Int
    BY OperationLogAssumption DEF IInv, TypeOK, Recorder
  <2>2. \A p \in Processes : recorder[p].failed <= now'
    BY <1>1, <1>2, <2>1 DEF IInv, MissesAreKnown
  <2> QED
    BY <1>1, <1>4, <2>2 DEF IInv, MissesAreKnown
<1> QED
  BY <1>5, <1>6, <1>7, <1>8, <1>9, <1>10 DEF IInv

LEMMA InitIInv == Init => IInv
<1> SUFFICES ASSUME Init PROVE IInv
  OBVIOUS
<1>1. /\ object \in [kind : DOMAIN Handlers, exists : {TRUE}, state : {Fresh}]
      /\ request = [r \in Requests |->
           [at |-> "new", process |-> Unassigned, todo |-> <<>>, form |-> NoForm,
            before |-> {}, result |-> "none", quiet |-> FALSE, began |-> Fresh,
            replaced |-> {}, noted |-> "none", since |-> 0, due |-> FALSE]]
      /\ log = {} /\ retention = DefaultDays /\ now = 0
      /\ recorder = [p \in Processes |-> Started] /\ sweep = [p \in Processes |-> 0]
  BY DEF Init
<1>2. Fresh \in State /\ NoForm \in [Guarded -> Revision] /\ 0 \in 0..MaxNow /\ <<>> \in Seq(Stages) /\ -1 \in -1..MaxNow /\ DefaultDays \in Days
  BY OperationLogAssumption, NoFormType
<1>3. \A r \in Requests :
        /\ request[r].at = "new" /\ request[r].todo = <<>> /\ request[r].result = "none"
        /\ request[r].replaced = {} /\ request[r].noted = "none" /\ request[r].since = 0
        /\ request[r].before = {}
  BY <1>1
<1>4. TypeOK
  <2>1. object \in Object
    BY <1>1, <1>2 DEF Object
  <2>2. request \in [Requests -> Request]
    BY <1>1, <1>2 DEF Request
  <2>3. Started \in Recorder
    BY <1>2 DEF Started, Recorder
  <2>4. \A r \in Requests :
          /\ request[r].at = "running" <=> request[r].todo # <<>>
          /\ request[r].todo = <<"record">> => request[r].result # "none"
    BY <1>3, RecordIsStage
  <2> QED
    BY <1>1, <1>2, <2>1, <2>2, <2>3, <2>4 DEF TypeOK
<1>5. RequestsFit
  BY <1>3 DEF RequestsFit, Fits
<1>6. RowsFit /\ RowsAreSingle
  BY <1>1 DEF RowsFit, RowsAreSingle
<1>7. RowsAreKept
  BY <1>1, <1>3 DEF RowsAreKept, Kept
<1>8. MissesAreKnown
  BY <1>1, <1>3 DEF MissesAreKnown, Started
<1> QED
  BY <1>4, <1>5, <1>6, <1>7, <1>8 DEF IInv

LEMMA NextIInv == IInv /\ [Next]_vars => IInv'
<1> SUFFICES ASSUME IInv, [Next]_vars PROVE IInv'
  OBVIOUS
<1>1. CASE UNCHANGED vars
  BY <1>1 DEF vars, IInv, TypeOK, RequestsFit, RowsFit, RowsAreSingle, RowsAreKept, Kept, RowsOf,
       MissesAreKnown
<1>2. ASSUME NEW r \in Requests, Serve(r) PROVE IInv'
  <2>1. CASE Pass(r) \/ Refuse(r) \/ TurnAway(r) \/ Snapshot(r) \/ Self(r)
    BY <2>1, PassIInv, RefuseIInv, TurnAwayIInv, SnapshotIInv
  <2>2. CASE Write(r) \/ Replace(r) \/ Remove(r) \/ Take(r) \/ Renew(r) \/ End(r) \/ Bump(r)
    BY <2>2, CommitIInv
  <2>5. CASE Rename(r) \/ SetAvatar(r) \/ ClearAvatar(r) \/ Confirm(r)
    BY <2>5, PersonalIInv
  <2>3. ASSUME NEW days \in Days, ReplaceRetention(r, days) PROVE IInv'
    BY <2>3, ReplaceRetentionIInv
  <2>4. CASE Record(r) \/ Miss(r) \/ MissReply(r)
    BY <2>4, RecordIInv
  <2> QED
    BY <1>2, <2>1, <2>2, <2>3, <2>4, <2>5 DEF Serve
<1>3. ASSUME NEW r \in Requests, NEW p \in Processes, NEW handler \in Handlers[object.kind],
             Begin(r, p, handler)
      PROVE  IInv'
  BY <1>3, BeginIInv
<1>4. ASSUME NEW p \in Processes, Crash(p) \/ BeginCleanup(p) \/ FinishCleanup(p) \/ GiveUpCleanup(p)
      PROVE  IInv'
  BY <1>4, CrashIInv, BeginCleanupIInv, EndCleanupIInv
<1>5. CASE Tick
  BY <1>5, TickIInv
<1> QED
  BY <1>1, <1>2, <1>3, <1>4, <1>5 DEF Next

(* Every reachable state satisfies the inductive invariant.                *)
THEOREM InvariantHolds == Spec => []IInv
<1> QED
  BY InitIInv, NextIInv, PTL DEF Spec

-----------------------------------------------------------------------------
(* Theorems *)

(* The state has its types, and what a request has yet to do is the rest   *)
(* of its handler or its record (the handlers of package httpapi).         *)
THEOREM HistoryIsTyped == Spec => []TypeOK
<1>1. IInv => TypeOK
  BY DEF IInv
<1> QED
  BY <1>1, InvariantHolds, PTL

(* What a row says an object was before is no older than the request, and  *)
(* where it is a revision or an address, it is what the change replaced,   *)
(* although handlers such as ReplaceRole read it in a statement of its own *)
(* before the transaction, and personalEmailChangeVerify at the session.   *)
THEOREM BeforeIsRecorded == Spec => []BeforeIsFaithful
<1>1. IInv => BeforeIsFaithful
  BY DEF IInv, RowsFit, BeforeIsFaithful
<1> QED
  BY <1>1, InvariantHolds, PTL

(* No operation has two rows, a success is only recorded of a change that  *)
(* was made, and a change that was answered has its row for as long as the *)
(* retention wants it, or the process that missed it says so for a day     *)
(* (OperationLogService.Record, Cleanup, RecordingStatus).                 *)
THEOREM ChangesAreOnRecord == Spec => []OperationsAreOnRecord
<1>1. ASSUME IInv PROVE RecordsAreTrue
  BY <1>1 DEF IInv, RowsFit, RowsAreSingle, RecordsAreTrue
<1>2. ASSUME IInv, NEW r \in Requests,
             request[r].at = "done", request[r].replaced # {}, ~request[r].quiet
      PROVE  \/ request[r].noted = "written"
                  /\ (RowsOf(r) # {} \/ request[r].due)
             \/ request[r].noted = "failed"
                  /\ (now = request[r].since => Status(request[r].process) \in {"failed", "recovered"})
             \/ request[r].noted = "forgotten"
  <2>1. request[r] \in Request /\ Fits(request[r], object.state) /\ Kept(r)
    BY <1>2 DEF IInv, TypeOK, RequestsFit, RowsAreKept
  <2>2. request[r].noted \in {"written", "failed", "forgotten"} /\ request[r].process \in Processes
    BY <1>2, <2>1 DEF Request, Fits
  <2>3. CASE request[r].noted = "written"
    BY <2>1, <2>3 DEF Kept
  <2>4. ASSUME request[r].noted = "failed", now = request[r].since
        PROVE  Status(request[r].process) \in {"failed", "recovered"}
    <3> PICK p \in Processes : p = request[r].process
      BY <2>2
    <3>1. recorder[p].failed <= now /\ now <= recorder[p].failed
      BY <1>2, <2>4 DEF IInv, MissesAreKnown
    <3>2. recorder[p] \in Recorder /\ now \in Nat
      BY <1>2, OperationLogAssumption DEF IInv, TypeOK
    <3>3. recorder[p].failed \in Int /\ recorder[p].failing \in BOOLEAN
      BY <3>2, OperationLogAssumption DEF Recorder
    <3>4. recorder[p].failed = now /\ recorder[p].failed # -1 /\ now < recorder[p].failed + 1
      BY <3>1, <3>2, <3>3
    <3>5. CASE recorder[p].failing
      BY <3>4, <3>5 DEF Status
    <3>6. CASE ~recorder[p].failing
      BY <3>4, <3>6 DEF Status
    <3> QED
      BY <3>3, <3>5, <3>6
  <2> QED
    BY <2>2, <2>3, <2>4
<1>3. IInv => AnswersAreOnRecord
  BY <1>2 DEF AnswersAreOnRecord
<1>4. IInv => OperationsAreOnRecord
  BY <1>1, <1>3 DEF OperationsAreOnRecord
<1> QED
  BY <1>4, InvariantHolds, PTL
=============================================================================
