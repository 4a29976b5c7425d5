---------------------------- MODULE SessionsProofs ----------------------------
(***************************************************************************)
(* Proofs about Sessions, for any users, tokens, links and clients.        *)
(*                                                                         *)
(* An operation is described by OpSound, what IInv says of one client.     *)
(* Steps that only move an operation follow from OperationMoves; steps     *)
(* that take sessions away or let them age from SessionsFade; steps that   *)
(* raise auth_version from Revocation.                                     *)
(***************************************************************************)
EXTENDS Sessions, TLAPS

OpSound(o) ==
  /\ o.at \notin {"idle", "targeted", "hashed"} => o.user \in Users
  /\ o.at \in Reads =>
       /\ o.version <= account[o.user].version
       /\ o.version = account[o.user].version =>
            o.password = account[o.user].password /\ ~o.late
  /\ o.at \in {"created", "resolved"} => o.token \in drawn
  /\ o.at = "resolved" =>
       /\ o.version <= account[o.user].version
       /\ o.late => o.version < account[o.user].version
  /\ o.at \in {"checked", "serving"} => ~o.late

(* What IInv says of rows, apart from operations. *)
RowsSound ==
  /\ account \in [Users -> Account]
  /\ session \in [Tokens -> Session \cup {None}]
  /\ reset \in [Users -> Reset \cup {None}]
  /\ \A t \in Tokens : session[t] # None => account[session[t].user].status # "deleted"
  /\ \A u \in Users : reset[u] # None => account[u].status # "deleted"
  /\ cookies \subseteq drawn /\ drawn \subseteq Tokens
  /\ letter \in [Links -> Letter \cup {None}]
  /\ SessionsBehindAccounts
  /\ LinksServeOnce

(* IInv, regrouped by what its parts are about. *)
LEMMA IInvParts ==
  IInv <=> /\ RowsSound
           /\ op \in [Clients -> Op]
           /\ \A c \in Clients : OpSound(op[c])
  BY DEF IInv, TypeOK, ReadsBehindAccounts, TokensDrawn, LateRequestsAreOld,
         RequestsAreEntitled, OpSound, RowsSound

LEMMA IInvPartsPrime ==
  IInv' <=> /\ RowsSound'
            /\ (op \in [Clients -> Op])'
            /\ \A c \in Clients : OpSound(op[c])'
  BY DEF IInv, TypeOK, ReadsBehindAccounts, TokensDrawn, LateRequestsAreOld,
         RequestsAreEntitled, OpSound, RowsSound

LEMMA IdleIsSound == Idle \in Op /\ OpSound(Idle) /\ OpSound(Idle)'
  BY VersionAssumption DEF Idle, Op, OpSound, Reads, Places

(* Updates of several fields, as the handlers make them. *)
LEMMA OpUpdates ==
  ASSUME NEW r \in Op, NEW place \in Places, NEW u \in Users, NEW v \in 0..MaxVersion
  PROVE  /\ \A p \in Passwords :
              [r EXCEPT !.at = place, !.user = u, !.version = v, !.password = p] \in Op
         /\ \A t \in Tokens, b \in BOOLEAN :
              [r EXCEPT !.at = place, !.user = u, !.token = t, !.version = v, !.late = b] \in Op
  BY DEF Op

LEMMA InitIInv == Init => IInv
<1> SUFFICES ASSUME Init PROVE IInv
  OBVIOUS
<1>1. RowsSound
  BY VersionAssumption, NoneAssumption
  DEF Init, RowsSound, Account, SessionsBehindAccounts, LinksServeOnce, Holds
<1>2. op \in [Clients -> Op] /\ \A c \in Clients : OpSound(op[c])
  BY IdleIsSound DEF Init
<1> QED
  BY <1>1, <1>2, IInvParts

-----------------------------------------------------------------------------
(* Steps of three kinds *)

LEMMA OperationMoves ==
  ASSUME IInv, NEW c \in Clients, NEW o \in Op, OpSound(o),
         op' = [op EXCEPT ![c] = o],
         UNCHANGED <<account, session, reset, drawn, cookies, letter>>
  PROVE  IInv'
<1>1. RowsSound'
  BY IInvParts
  DEF RowsSound, SessionsBehindAccounts, LinksServeOnce, Holds, Enabled
<1>2. op' \in [Clients -> Op]
  BY IInvParts
<1>3. \A d \in Clients : OpSound(op[d])'
  <2> TAKE d \in Clients
  <2>1. OpSound(op'[d])
    BY IInvParts
  <2> QED
    BY <2>1 DEF OpSound
<1> QED
  BY <1>1, <1>2, <1>3, IInvPartsPrime

(* Rows disappear or change in fresh and revoked only. *)
Fades ==
  /\ session' \in [Tokens -> Session \cup {None}]
  /\ \A t \in Tokens : session'[t] # None =>
       /\ session[t] # None
       /\ session'[t].user = session[t].user /\ session'[t].version = session[t].version
       /\ session'[t].password = session[t].password /\ session'[t].late = session[t].late

LEMMA SessionsFade ==
  ASSUME IInv, Fades, UNCHANGED <<account, reset, drawn, cookies, letter>>,
         op' = op \/ \E c \in Clients : op' = [op EXCEPT ![c] = Idle]
  PROVE  IInv'
<1>1. RowsSound'
  BY IInvParts
  DEF RowsSound, Fades, SessionsBehindAccounts, LinksServeOnce, Holds, Enabled
<1>2. op' \in [Clients -> Op]
  BY IInvParts, IdleIsSound
<1>3. \A d \in Clients : OpSound(op[d])'
  <2> TAKE d \in Clients
  <2>1. OpSound(op'[d])
    BY IInvParts, IdleIsSound
  <2> QED
    BY <2>1 DEF OpSound
<1> QED
  BY <1>1, <1>2, <1>3, IInvPartsPrime

(* Versions go up for the accounts of us, and for the others nothing that  *)
(* a session or an operation relies on changes.                            *)
Advances(us) ==
  /\ account' \in [Users -> Account]
  /\ \A u \in us : account'[u].version = account[u].version + 1
  /\ \A u \in Users \ us : /\ account'[u].version = account[u].version
                           /\ account'[u].password = account[u].password

(* Operations that rely on those accounts are late; some return. *)
Notices(us) ==
  /\ op' \in [Clients -> Op]
  /\ \A c \in Clients :
       \/ op'[c] = Idle
       \/ op'[c] = op[c]
       \/ op[c].at \in Pending /\ op[c].user \in us /\ op'[c] = [op[c] EXCEPT !.late = TRUE]

LEMMA Revocation ==
  ASSUME IInv, NEW us \in SUBSET Users, Advances(us), Notices(us), Fades,
         UNCHANGED drawn
  PROVE  SessionsBehindAccounts' /\ \A c \in Clients : OpSound(op[c])'
<1> USE IInvParts DEF RowsSound
<1>1. SessionsBehindAccounts'
  BY DEF SessionsBehindAccounts, Advances, Fades, Session, Account
<1>2. ASSUME NEW c \in Clients PROVE OpSound(op[c])'
  <2>1. CASE op'[c] = Idle
    BY <2>1, IdleIsSound
  <2>2. CASE op'[c] = op[c]
    <3> OpSound(op[c]) /\ op[c] \in Op
      OBVIOUS
    <3> QED
      BY <2>2 DEF OpSound, Advances, Op, Account, Reads
  <2>3. CASE /\ op[c].at \in Pending /\ op[c].user \in us
             /\ op'[c] = [op[c] EXCEPT !.late = TRUE]
    <3>1. OpSound(op[c]) /\ op[c] \in Op
      OBVIOUS
    <3>2. /\ op'[c].at = op[c].at /\ op'[c].user = op[c].user
          /\ op'[c].version = op[c].version /\ op[c].at \in {"verified", "changing", "resolved"}
          /\ op'[c].token = op[c].token
      BY <2>3, <3>1 DEF Op, Pending, Reads
    <3>3. op[c].version < account'[op[c].user].version
      <4>1. op[c].version <= account[op[c].user].version
        BY <3>1, <3>2 DEF OpSound, Reads
      <4>2. /\ account'[op[c].user].version = account[op[c].user].version + 1
            /\ account[op[c].user].version \in Nat /\ op[c].version \in Nat
        <5>1. op[c].user \in Users /\ account[op[c].user] \in Account
          BY <2>3
        <5> QED
          BY <2>3, <3>1, <5>1, VersionAssumption DEF Advances, Account, Op
      <4> QED
        BY <4>1, <4>2
    <3>4. op'[c].user \in Users /\ account'[op'[c].user].version \in Nat /\ op'[c].version \in Nat
      <4>1. op'[c].user \in Users /\ account'[op'[c].user] \in Account /\ op'[c].version \in 0..MaxVersion
        BY <2>3, <3>1, <3>2 DEF Advances, Op
      <4> QED
        BY <4>1, VersionAssumption DEF Account
    <3>5. op[c].at = "resolved" => op'[c].token \in drawn'
      BY <3>1, <3>2 DEF OpSound
    <3> QED
      BY <3>2, <3>3, <3>4, <3>5 DEF OpSound, Reads
  <2> QED
    BY <2>1, <2>2, <2>3 DEF Notices
<1> QED
  BY <1>1, <1>2

(* Bumping one account, and what the client that did it leaves behind. *)
LEMMA RevokeNotices ==
  ASSUME IInv, NEW us \in SUBSET Users, Revoke(us)
  PROVE  Notices(us)
  BY IInvParts, ZenonT(40) DEF Revoke, Notices, Op

LEMMA RevokeByNotices ==
  ASSUME IInv, NEW c \in Clients, NEW u \in Users, RevokeBy(c, u)
  PROVE  Notices({u})
  BY IInvParts, IdleIsSound DEF RevokeBy, Notices, Op

LEMMA BumpedAccounts ==
  ASSUME IInv, NEW u \in Users, account[u].version < MaxVersion
  PROVE  /\ Bumped(u) \in Account
         /\ Bumped(u).version = account[u].version + 1
         /\ Bumped(u).status = account[u].status
         /\ Bumped(u).password = account[u].password
  BY IInvParts, VersionAssumption DEF RowsSound, Bumped, Account

-----------------------------------------------------------------------------
(* Steps that only move an operation *)

LEMMA AbandonKeepsIInv ==
  ASSUME IInv, NEW c \in Clients, Abandon(c)
  PROVE  IInv'
  BY IdleIsSound, OperationMoves DEF Abandon

LEMMA FindByCanonicalEmailKeepsIInv ==
  ASSUME IInv, NEW c \in Clients, NEW u \in Users, FindByCanonicalEmail(c, u)
  PROVE  IInv'
<1> DEFINE o == [Idle EXCEPT !.at = "verified", !.user = u,
                   !.version = account[u].version, !.password = account[u].password]
<1>1. account[u] \in Account
  BY IInvParts DEF RowsSound
<1>2. o \in Op
  <2>1. account[u].version \in 0..MaxVersion /\ account[u].password \in Passwords
    BY <1>1, VersionAssumption DEF Account
  <2> QED
    BY <2>1, IdleIsSound, OpUpdates DEF Places
<1>3. OpSound(o)
  BY <1>1 DEF Account, Idle, OpSound, Reads
<1> QED
  BY <1>2, <1>3, OperationMoves DEF FindByCanonicalEmail

LEMMA ResolveKeepsIInv ==
  ASSUME IInv, NEW c \in Clients, NEW t \in Tokens, ResolveAndTouchVersioned(c, t)
  PROVE  IInv'
<1> DEFINE s == session[t]
           o == [Idle EXCEPT !.at = "resolved", !.user = s.user, !.token = t,
                   !.version = s.version, !.late = ~Live(t)]
<1>1. s \in Session /\ t \in drawn /\ s.version <= account[s.user].version
  BY IInvParts DEF RowsSound, SessionsBehindAccounts, ResolveAndTouchVersioned
<1>2. Live(t) \in BOOLEAN /\ (~Live(t) => s.version # account[s.user].version)
  BY DEF Live, ResolveAndTouchVersioned
<1>3. o.at = "resolved" /\ o.user = s.user /\ o.token = t /\ o.version = s.version
      /\ o.late = ~Live(t) /\ o.link = None /\ o.password = None
  BY DEF Idle
<1>4. o \in Op
  <2>1. s.user \in Users /\ s.version \in 0..MaxVersion
    BY <1>1, VersionAssumption DEF Session
  <2> QED
    BY <1>2, <2>1, IdleIsSound, OpUpdates DEF Places
<1>5. s.version \in Nat /\ account[s.user].version \in Nat
  BY <1>1, IInvParts DEF RowsSound, Session, Account
<1>6. o.late => s.version < account[s.user].version
  <2>1. o.late => ~Live(t)
    BY <1>3
  <2> QED
    BY <1>1, <1>2, <1>5, <2>1
<1>7. OpSound(o)
  <2>1. s.user \in Users
    BY <1>1 DEF Session
  <2> HIDE DEF o, s
  <2> QED
    BY <1>1, <1>3, <1>6, <2>1 DEF OpSound, Reads
<1> QED
  BY <1>4, <1>7, OperationMoves DEF ResolveAndTouchVersioned

(* Steps that change nothing but where an operation is. *)
LEMMA StepMoves ==
  ASSUME IInv, NEW c \in Clients, NEW place \in Places, Step(c, place),
         OpSound([op[c] EXCEPT !.at = place]),
         UNCHANGED <<account, session, reset, drawn, cookies, letter>>
  PROVE  IInv'
<1> DEFINE o == [op[c] EXCEPT !.at = place]
<1>1. o \in Op /\ op' = [op EXCEPT ![c] = o]
  BY IInvParts DEF Op, Step
<1> QED
  BY <1>1, OperationMoves

LEMMA CurrentKeepsIInv ==
  ASSUME IInv, NEW c \in Clients, Current(c)
  PROVE  IInv'
<1>1. OpSound([op[c] EXCEPT !.at = "checked"])
  BY IInvParts DEF Current, OpSound, Reads, Op, RowsSound, Account
<1> QED
  BY <1>1, StepMoves DEF Current, Places

LEMMA FindPrincipalKeepsIInv ==
  ASSUME IInv, NEW c \in Clients, FindPrincipalByID(c)
  PROVE  IInv'
<1>1. OpSound([op[c] EXCEPT !.at = "serving"])
  BY IInvParts DEF FindPrincipalByID, OpSound, Reads, Op
<1> QED
  BY <1>1, StepMoves DEF FindPrincipalByID, Places

LEMMA VerifyCurrentPasswordKeepsIInv ==
  ASSUME IInv, NEW c \in Clients, VerifyCurrentPassword(c)
  PROVE  IInv'
<1> DEFINE u == op[c].user
           o == [Idle EXCEPT !.at = "changing", !.user = u,
                   !.version = account[u].version, !.password = account[u].password]
<1>1. u \in Users
  BY IInvParts DEF VerifyCurrentPassword, OpSound
<1>2. account[u] \in Account
  BY <1>1, IInvParts DEF RowsSound
<1>3. o \in Op
  <2>1. account[u].version \in 0..MaxVersion /\ account[u].password \in Passwords
    BY <1>2, VersionAssumption DEF Account
  <2> QED
    BY <1>1, <2>1, IdleIsSound, OpUpdates DEF Places
<1>4. OpSound(o)
  BY <1>1, <1>2 DEF Account, Idle, OpSound, Reads
<1> QED
  BY <1>3, <1>4, OperationMoves DEF VerifyCurrentPassword

LEMMA FindPasswordResetTargetKeepsIInv ==
  ASSUME IInv, NEW c \in Clients, NEW u \in Users, NEW l \in Links,
         FindPasswordResetTarget(c, u, l)
  PROVE  IInv'
<1> DEFINE o == [Idle EXCEPT !.at = "targeted", !.link = l]
<1>1. o \in Op /\ OpSound(o)
  BY IdleIsSound DEF Idle, Op, OpSound, Reads, Places
<1> QED
  BY <1>1, OperationMoves DEF FindPasswordResetTarget

LEMMA PreflightKeepsIInv ==
  ASSUME IInv, NEW c \in Clients, PreflightPasswordReset(c)
  PROVE  IInv'
<1>1. OpSound([op[c] EXCEPT !.at = "hashed"])
  BY IInvParts DEF OpSound, Reads, Op
<1> QED
  BY <1>1, StepMoves DEF PreflightPasswordReset, Places

-----------------------------------------------------------------------------
(* Steps that end sessions or drop reset rows *)

LEMMA SessionRowsFade ==
  ASSUME IInv,
         \/ \E c \in Clients : TakeBack(c) \/ DeleteStale(c)
         \/ \E t \in Tokens : Logout(t) \/ SessionLapses(t) \/ CleanupExpiredSessions(t)
  PROVE  IInv'
<1> USE IInvParts DEF RowsSound
<1>1. ASSUME NEW c \in Clients, TakeBack(c) \/ DeleteStale(c) PROVE IInv'
  <2>1. Fades
    BY <1>1 DEF Fades, TakeBack, DeleteStale
  <2> QED
    BY <1>1, <2>1, SessionsFade DEF TakeBack, DeleteStale
<1>2. ASSUME NEW t \in Tokens, Logout(t) \/ CleanupExpiredSessions(t) PROVE IInv'
  <2>1. Fades
    BY <1>2 DEF Fades, Logout, CleanupExpiredSessions
  <2> QED
    BY <1>2, <2>1, SessionsFade DEF Logout, CleanupExpiredSessions
<1>3. ASSUME NEW t \in Tokens, SessionLapses(t) PROVE IInv'
  <2>1. session[t] \in Session
    BY <1>3 DEF SessionLapses
  <2>2. [session[t] EXCEPT !.fresh = FALSE] \in Session
    BY <2>1 DEF Session
  <2>3. session' = [session EXCEPT ![t] = [session[t] EXCEPT !.fresh = FALSE]]
    BY <1>3 DEF SessionLapses
  <2>4. Fades
    BY <1>3, <2>1, <2>2, <2>3 DEF Fades, Session, SessionLapses
  <2> QED
    BY <1>3, <2>4, SessionsFade DEF SessionLapses
<1> QED
  BY <1>1, <1>2, <1>3

(* Reset rows may go, or change in what LinksServeOnce does not look at. *)
LEMMA ResetRowsFade ==
  ASSUME IInv, NEW u \in Users, LinkLapses(u) \/ SweepResets(u)
  PROVE  IInv'
<1> USE IInvParts DEF RowsSound
<1>1. reset[u] \in Reset /\ [reset[u] EXCEPT !.valid = FALSE] \in Reset
  BY DEF LinkLapses, SweepResets, Reset
<1>2. reset' \in [Users -> Reset \cup {None}]
  BY <1>1 DEF LinkLapses, SweepResets
<1>3. \A v \in Users : reset'[v] # None =>
        reset[v] # None /\ reset'[v].link = reset[v].link
  BY <1>1 DEF LinkLapses, SweepResets, Reset
<1>4. UNCHANGED <<account, session, op, drawn, cookies, letter>>
  BY DEF LinkLapses, SweepResets
<1>5. LinksServeOnce'
  BY <1>3, <1>4 DEF LinksServeOnce, Holds, Enabled
<1>6. RowsSound'
  BY <1>2, <1>3, <1>4, <1>5 DEF SessionsBehindAccounts
<1>7. \A c \in Clients : OpSound(op[c])'
  BY <1>4 DEF OpSound
<1> QED
  BY <1>4, <1>6, <1>7, IInvPartsPrime

-----------------------------------------------------------------------------
(* Logins and links *)

LEMMA CreateVersionedKeepsIInv ==
  ASSUME IInv, NEW c \in Clients, NEW t \in Tokens, CreateVersioned(c, t)
  PROVE  IInv'
<1> USE IInvParts DEF RowsSound
<1> DEFINE u == op[c].user
           n == NewSession(c, op[c].version)
<1>1. /\ op[c] \in Op /\ OpSound(op[c]) /\ op[c].at = "verified"
      /\ u \in Users /\ account[u] \in Account
  BY DEF CreateVersioned, OpSound
<1>2. /\ op[c].version \in 1..MaxVersion /\ op[c].version = account[u].version
      /\ op[c].password = account[u].password /\ ~op[c].late
      /\ account[u].password \in Passwords
  BY <1>1 DEF CreateVersioned, OpSound, Reads, Account
<1>3. /\ n.user = u /\ n.version = op[c].version /\ n.password = op[c].password
      /\ n.late = op[c].late
  BY DEF NewSession
<1>4. n \in Session
  BY <1>1, <1>2 DEF NewSession, Session, Op
<1>5. n # None => account[u].status # "deleted"
  BY DEF CreateVersioned, Enabled
<1> HIDE DEF n
<1>6. session' = [session EXCEPT ![t] = n] /\ drawn' = drawn \cup {t}
  BY DEF CreateVersioned, n
<1>7. SessionsBehindAccounts'
  BY <1>1, <1>2, <1>3, <1>6, SMTT(30) DEF SessionsBehindAccounts, CreateVersioned, Account
<1>8. RowsSound'
  BY <1>3, <1>4, <1>5, <1>6, <1>7, ZenonT(40) DEF CreateVersioned, LinksServeOnce, Holds, Enabled
<1>9. op' \in [Clients -> Op] /\ \A d \in Clients : OpSound(op[d])'
  BY <1>1, <1>6, ZenonT(40) DEF CreateVersioned, OpSound, Op, Places, Reads
<1> QED
  BY <1>8, <1>9, IInvPartsPrime

(* Steps that leave sessions and the status of accounts alone. *)
LEMMA RowsStaySound ==
  ASSUME RowsSound, UNCHANGED <<session, drawn, cookies>>,
         account' \in [Users -> Account], reset' \in [Users -> Reset \cup {None}],
         letter' \in [Links -> Letter \cup {None}],
         \A u \in Users : account'[u].status = account[u].status,
         \A u \in Users : reset'[u] # None => account[u].status # "deleted",
         SessionsBehindAccounts', LinksServeOnce'
  PROVE  RowsSound'
  BY DEF RowsSound, Session

LEMMA LoginWithPrincipalKeepsIInv ==
  ASSUME IInv, NEW c \in Clients, LoginWithPrincipal(c)
  PROVE  IInv'
<1> USE IInvParts DEF RowsSound
<1>1. op[c].token \in drawn
  BY DEF LoginWithPrincipal, OpSound
<1>2. RowsSound'
  BY <1>1 DEF LoginWithPrincipal, SessionsBehindAccounts, LinksServeOnce, Holds, Enabled
<1>3. op' \in [Clients -> Op] /\ \A d \in Clients : OpSound(op'[d])
  BY IdleIsSound DEF LoginWithPrincipal
<1>4. \A d \in Clients : OpSound(op[d])'
  BY <1>3 DEF LoginWithPrincipal, OpSound
<1> QED
  BY <1>2, <1>3, <1>4, IInvPartsPrime

(* A link that nobody has yet cannot be on another row. *)
LEMMA RequestPasswordResetKeepsIInv ==
  ASSUME IInv, NEW u \in Users, NEW l \in Links, RequestPasswordReset(u, l)
  PROVE  IInv'
<1> USE IInvParts DEF RowsSound
<1> DEFINE r == [link |-> l, valid |-> TRUE]
           m == [password |-> account[u].password, uses |-> 0]
<1>1. r \in Reset /\ m \in Letter /\ r.link = l
  BY DEF Reset, Letter, Account
<1> HIDE DEF r, m
<1>2. reset' = [reset EXCEPT ![u] = r] /\ letter' = [letter EXCEPT ![l] = m]
  BY DEF RequestPasswordReset, r, m
<1>3. \A v \in Users : ~Holds(v, l)
  <2>1. \A v \in Users : Holds(v, l) => letter[l] \in Letter /\ letter[l] # None
    <3> SUFFICES ASSUME NEW v \in Users, Holds(v, l) PROVE letter[l] \in Letter /\ letter[l] # None
      OBVIOUS
    <3>1. letter[l] = [password |-> account[v].password, uses |-> 0]
      BY DEF LinksServeOnce, Holds
    <3>2. letter[l] \in Letter
      BY <3>1 DEF Letter, Account
    <3> QED
      BY <3>2, NoneAssumption
  <2> QED
    BY <2>1 DEF RequestPasswordReset
<1>4. m.uses = 0 /\ m = [password |-> account[u].password, uses |-> 0]
  BY DEF m
<1>5. LinksServeOnce'
  BY <1>1, <1>2, <1>3, <1>4
  DEF LinksServeOnce, Holds, Enabled, RequestPasswordReset, Reset
<1>6. RowsSound'
  <2>1. SessionsBehindAccounts' /\ UNCHANGED <<account, session, drawn, cookies>>
    BY DEF RequestPasswordReset, SessionsBehindAccounts
  <2>2. reset' \in [Users -> Reset \cup {None}] /\ letter' \in [Links -> Letter \cup {None}]
    BY <1>1, <1>2
  <2>3. \A v \in Users : reset'[v] # None => account[v].status # "deleted"
    BY <1>2 DEF RequestPasswordReset, Enabled
  <2> QED
    BY <1>5, <2>1, <2>2, <2>3, RowsStaySound
<1>7. op' = op /\ \A d \in Clients : OpSound(op[d])'
  BY DEF RequestPasswordReset, OpSound
<1> QED
  BY <1>6, <1>7, IInvPartsPrime

-----------------------------------------------------------------------------
(* Steps that change accounts *)

LEMMA ChangePasswordKeepsIInv ==
  ASSUME IInv, NEW c \in Clients, NEW p \in Passwords, ChangePassword(c, p)
  PROVE  IInv'
<1> USE IInvParts DEF RowsSound
<1> DEFINE u == op[c].user
           a == [Bumped(u) EXCEPT !.password = p]
<1>1. u \in Users /\ account[u].version < MaxVersion
  BY DEF ChangePassword, OpSound, RevokeBy
<1>2. a \in Account /\ a.version = account[u].version + 1 /\ a.status = account[u].status
  BY <1>1, BumpedAccounts DEF Account
<1> HIDE DEF a
<1>3. account' = [account EXCEPT ![u] = a] /\ reset' = [reset EXCEPT ![u] = None]
  BY DEF ChangePassword, a
<1>4. Advances({u}) /\ Fades /\ Notices({u})
  BY <1>1, <1>2, <1>3, RevokeByNotices, ZenonT(40) DEF Advances, Fades, ChangePassword
<1>5. SessionsBehindAccounts' /\ \A d \in Clients : OpSound(op[d])'
  BY <1>1, <1>4, Revocation DEF ChangePassword
<1>6. LinksServeOnce'
  BY <1>1, <1>2, <1>3 DEF LinksServeOnce, Holds, Enabled, ChangePassword
<1>7. RowsSound'
  <2>1. account' \in [Users -> Account] /\ reset' \in [Users -> Reset \cup {None}]
    BY <1>1, <1>2, <1>3
  <2>2. /\ \A v \in Users : account'[v].status = account[v].status
        /\ \A v \in Users : reset'[v] # None => account[v].status # "deleted"
    BY <1>1, <1>2, <1>3
  <2> QED
    BY <1>5, <1>6, <2>1, <2>2, RowsStaySound DEF ChangePassword
<1> QED
  BY <1>4, <1>5, <1>7, IInvPartsPrime DEF Notices

LEMMA CompleteEmailChangeKeepsIInv ==
  ASSUME IInv, NEW c \in Clients, CompleteEmailChange(c)
  PROVE  IInv'
<1> USE IInvParts DEF RowsSound
<1> DEFINE u == op[c].user
<1>1. u \in Users /\ account[u].version < MaxVersion
  BY DEF CompleteEmailChange, OpSound, RevokeBy
<1>2. /\ Bumped(u) \in Account /\ Bumped(u).version = account[u].version + 1
      /\ Bumped(u).status = account[u].status
  BY <1>1, BumpedAccounts
<1>3. account' = [account EXCEPT ![u] = Bumped(u)] /\ reset' = [reset EXCEPT ![u] = None]
  BY DEF CompleteEmailChange
<1>4. Advances({u}) /\ Fades /\ Notices({u})
  BY <1>1, <1>2, <1>3, RevokeByNotices DEF Advances, Fades, CompleteEmailChange
<1>5. SessionsBehindAccounts' /\ \A d \in Clients : OpSound(op[d])'
  BY <1>1, <1>4, Revocation DEF CompleteEmailChange
<1>6. LinksServeOnce'
  BY <1>1, <1>2, <1>3 DEF LinksServeOnce, Holds, Enabled, CompleteEmailChange
<1>7. RowsSound'
  BY <1>1, <1>2, <1>3, <1>5, <1>6 DEF CompleteEmailChange
<1> QED
  BY <1>4, <1>5, <1>7, IInvPartsPrime DEF Notices

LEMMA CompletePasswordResetKeepsIInv ==
  ASSUME IInv, NEW c \in Clients, NEW u \in Users, NEW p \in Passwords,
         CompletePasswordReset(c, u, p)
  PROVE  IInv'
<1> USE IInvParts DEF RowsSound
<1> DEFINE a == [Bumped(u) EXCEPT !.password = p]
           l == op[c].link
           m == [letter[l] EXCEPT !.uses = @ + 1]
<1>1. account[u].version < MaxVersion
  BY DEF CompletePasswordReset, RevokeBy
<1>2. a \in Account /\ a.version = account[u].version + 1 /\ a.status = account[u].status
  BY <1>1, BumpedAccounts DEF Account
<1>3. l \in Links /\ Holds(u, l) /\ letter[l] = [password |-> account[u].password, uses |-> 0]
  BY DEF CompletePasswordReset, Holds, Reset, LinksServeOnce
<1>4. m = [password |-> account[u].password, uses |-> 1]
  BY <1>3
<1>5. m \in Letter /\ m.uses = 1
  BY <1>4 DEF Letter, Account
<1>6. \A v \in Users \ {u} : ~Holds(v, l)
  BY <1>3 DEF LinksServeOnce, Holds
<1> HIDE DEF a, m
<1>7. /\ account' = [account EXCEPT ![u] = a] /\ reset' = [reset EXCEPT ![u] = None]
      /\ letter' = [letter EXCEPT ![l] = m]
  BY DEF CompletePasswordReset, a, m
<1>8. Advances({u}) /\ Fades
  <2>1. account' \in [Users -> Account]
    BY <1>2, <1>7
  <2>2. Advances({u})
    BY <1>2, <1>7, <2>1 DEF Advances
  <2>3. Fades
    BY DEF Fades, CompletePasswordReset
  <2> QED
    BY <2>2, <2>3
<1>9. Notices({u})
  BY RevokeByNotices DEF CompletePasswordReset
<1>10. SessionsBehindAccounts' /\ \A d \in Clients : OpSound(op[d])'
  BY <1>8, <1>9, Revocation DEF CompletePasswordReset
<1>11. LinksServeOnce'
  BY <1>2, <1>3, <1>5, <1>6, <1>7 DEF LinksServeOnce, Holds, Enabled
<1>12. RowsSound'
  <2>1. reset' \in [Users -> Reset \cup {None}] /\ letter' \in [Links -> Letter \cup {None}]
    BY <1>3, <1>5, <1>7
  <2>2. /\ \A v \in Users : account'[v].status = account[v].status
        /\ \A v \in Users : reset'[v] # None => account[v].status # "deleted"
    BY <1>2, <1>7
  <2> QED
    BY <1>8, <1>10, <1>11, <2>1, <2>2, RowsStaySound DEF CompletePasswordReset, Advances
<1> QED
  BY <1>9, <1>10, <1>12, IInvPartsPrime DEF Notices

LEMMA RevokeUserSessionsKeepsIInv ==
  ASSUME IInv, NEW us \in SUBSET Users, RevokeUserSessions(us)
  PROVE  IInv'
<1> USE IInvParts DEF RowsSound
<1>1. \A u \in us : /\ Bumped(u) \in Account /\ Bumped(u).version = account[u].version + 1
                    /\ Bumped(u).status = account[u].status
                    /\ Bumped(u).password = account[u].password
  BY BumpedAccounts DEF RevokeUserSessions, Revoke
<1>2. account' = [u \in Users |-> IF u \in us THEN Bumped(u) ELSE account[u]]
  BY DEF RevokeUserSessions
<1>3. account' \in [Users -> Account] /\ \A u \in Users :
        account'[u].status = account[u].status /\ account'[u].password = account[u].password
  BY <1>1, <1>2
<1>4. Advances(us) /\ Fades /\ Notices(us)
  BY <1>1, <1>2, <1>3, RevokeNotices DEF Advances, Fades, RevokeUserSessions
<1>5. SessionsBehindAccounts' /\ \A d \in Clients : OpSound(op[d])'
  BY <1>4, Revocation DEF RevokeUserSessions
<1>6. LinksServeOnce'
  BY <1>3 DEF LinksServeOnce, Holds, Enabled, RevokeUserSessions
<1>7. RowsSound'
  BY <1>3, <1>5, <1>6 DEF RevokeUserSessions, Session
<1> QED
  BY <1>4, <1>5, <1>7, IInvPartsPrime DEF Notices

LEMMA DeactivateKeepsIInv ==
  ASSUME IInv, NEW u \in Users, Deactivate(u)
  PROVE  IInv'
<1> USE IInvParts DEF RowsSound
<1> DEFINE a == [Bumped(u) EXCEPT !.status = "disabled"]
<1>1. /\ a \in Account /\ a.version = account[u].version + 1
      /\ a.status = "disabled" /\ a.password = account[u].password
  BY BumpedAccounts DEF Deactivate, Revoke, Account
<1> HIDE DEF a
<1>2. account' = [account EXCEPT ![u] = a] /\ reset' = [reset EXCEPT ![u] = None]
  BY DEF Deactivate, a
<1>3. account' \in [Users -> Account] /\ reset' \in [Users -> Reset \cup {None}]
  BY <1>1, <1>2
<1>4. Advances({u})
  BY <1>1, <1>2, <1>3 DEF Advances
<1>5. \A t \in Tokens : /\ session'[t] = Marked(u, session[t])
                        /\ session[t] \in Session \cup {None}
  BY DEF Deactivate
<1>6. Fades
  <2>1. session' \in [Tokens -> Session \cup {None}]
    BY <1>5, ZenonT(40) DEF Deactivate, Marked, Session
  <2>2. ASSUME NEW t \in Tokens, session'[t] # None
        PROVE  /\ session[t] # None
               /\ session'[t].user = session[t].user /\ session'[t].version = session[t].version
               /\ session'[t].password = session[t].password
               /\ session'[t].late = session[t].late
    BY <1>5, <2>2 DEF Marked, Session
  <2> QED
    BY <2>1, <2>2 DEF Fades
<1>7. Notices({u})
  BY RevokeNotices DEF Deactivate
<1>8. SessionsBehindAccounts' /\ \A d \in Clients : OpSound(op[d])'
  BY <1>4, <1>6, <1>7, Revocation DEF Deactivate
<1>9. LinksServeOnce'
  BY <1>1, <1>2 DEF LinksServeOnce, Holds, Enabled, Deactivate
<1>10. /\ \A t \in Tokens : session'[t] # None => account'[session'[t].user].status # "deleted"
       /\ \A v \in Users : reset'[v] # None => account'[v].status # "deleted"
  BY <1>1, <1>2, <1>6 DEF Fades, Session
<1>11. RowsSound'
  BY <1>3, <1>6, <1>8, <1>9, <1>10 DEF Deactivate, Fades
<1> QED
  BY <1>7, <1>8, <1>11, IInvPartsPrime DEF Notices

LEMMA ReactivateKeepsIInv ==
  ASSUME IInv, NEW u \in Users, Reactivate(u)
  PROVE  IInv'
<1> USE IInvParts DEF RowsSound
<1> DEFINE a == [Bumped(u) EXCEPT !.status = "enabled"]
<1>1. /\ a \in Account /\ a.version = account[u].version + 1
      /\ a.status = "enabled" /\ a.password = account[u].password
  BY BumpedAccounts DEF Reactivate, Revoke, Account
<1> HIDE DEF a
<1>2. account' = [account EXCEPT ![u] = a]
  BY DEF Reactivate, a
<1>3. account' \in [Users -> Account]
  BY <1>1, <1>2
<1>4. Advances({u}) /\ Fades /\ Notices({u})
  <2>1. Advances({u})
    BY <1>1, <1>2, <1>3 DEF Advances
  <2>2. Fades /\ Notices({u})
    BY RevokeNotices DEF Fades, Reactivate
  <2> QED
    BY <2>1, <2>2
<1>5. SessionsBehindAccounts' /\ \A d \in Clients : OpSound(op[d])'
  BY <1>4, Revocation DEF Reactivate
<1>6. LinksServeOnce'
  BY <1>1, <1>2 DEF LinksServeOnce, Holds, Enabled, Reactivate
<1>7. /\ \A t \in Tokens : session[t] # None => account'[session[t].user].status # "deleted"
      /\ \A v \in Users : reset[v] # None => account'[v].status # "deleted"
  BY <1>1, <1>2 DEF Session
<1>8. RowsSound'
  BY <1>3, <1>5, <1>6, <1>7 DEF Reactivate
<1> QED
  BY <1>4, <1>5, <1>8, IInvPartsPrime DEF Notices

LEMMA DeleteUserKeepsIInv ==
  ASSUME IInv, NEW u \in Users, DeleteUser(u)
  PROVE  IInv'
<1> USE IInvParts DEF RowsSound
<1> DEFINE a == [account[u] EXCEPT !.status = "deleted"]
<1>1. /\ a \in Account /\ a.version = account[u].version
      /\ a.status = "deleted" /\ a.password = account[u].password
  BY DEF Account
<1> HIDE DEF a
<1>2. account' = [account EXCEPT ![u] = a] /\ reset' = [reset EXCEPT ![u] = None]
  BY DEF DeleteUser, a
<1>3. account' \in [Users -> Account] /\ reset' \in [Users -> Reset \cup {None}]
  BY <1>1, <1>2
<1>4. Advances({})
  BY <1>1, <1>2, <1>3 DEF Advances
<1>5. \A t \in Tokens : session'[t] # None => session'[t] = session[t] /\ session[t].user # u
  BY DEF DeleteUser
<1>6. Fades
  BY <1>5 DEF Fades, DeleteUser
<1>7. Notices({})
  BY DEF Notices, DeleteUser
<1>8. SessionsBehindAccounts' /\ \A d \in Clients : OpSound(op[d])'
  BY <1>4, <1>6, <1>7, Revocation DEF DeleteUser
<1>9. LinksServeOnce'
  BY <1>1, <1>2 DEF LinksServeOnce, Holds, Enabled, DeleteUser
<1>10. /\ \A t \in Tokens : session'[t] # None => account'[session'[t].user].status # "deleted"
       /\ \A v \in Users : reset'[v] # None => account'[v].status # "deleted"
  BY <1>1, <1>2, <1>5 DEF Session
<1>11. RowsSound'
  BY <1>3, <1>6, <1>8, <1>9, <1>10 DEF DeleteUser, Fades
<1> QED
  BY <1>7, <1>8, <1>11, IInvPartsPrime DEF Notices

-----------------------------------------------------------------------------
(* The theorems *)

LEMMA NextKeepsIInv == IInv /\ [Next]_vars => IInv'
<1> SUFFICES ASSUME IInv, [Next]_vars PROVE IInv'
  OBVIOUS
<1>1. ASSUME NEW c \in Clients, Login(c) \/ Request(c) PROVE IInv'
  BY <1>1, FindByCanonicalEmailKeepsIInv, CreateVersionedKeepsIInv,
     LoginWithPrincipalKeepsIInv, SessionRowsFade, ResolveKeepsIInv, CurrentKeepsIInv,
     FindPrincipalKeepsIInv DEF Login, Request
<1>2. ASSUME NEW c \in Clients, Settings(c) \/ Recovery(c) \/ Abandon(c) PROVE IInv'
  BY <1>2, VerifyCurrentPasswordKeepsIInv, CompleteEmailChangeKeepsIInv,
     ChangePasswordKeepsIInv, FindPasswordResetTargetKeepsIInv, PreflightKeepsIInv,
     CompletePasswordResetKeepsIInv, AbandonKeepsIInv DEF Settings, Recovery
<1>3. ASSUME NEW u \in Users, Administration(u) PROVE IInv'
  BY <1>3, DeactivateKeepsIInv, ReactivateKeepsIInv, DeleteUserKeepsIInv DEF Administration
<1>4. CASE Maintenance
  BY <1>4, SessionRowsFade, ResetRowsFade DEF Maintenance
<1>5. CASE UNCHANGED vars
  <2>1. RowsSound'
    BY <1>5, IInvParts
    DEF vars, RowsSound, SessionsBehindAccounts, LinksServeOnce, Holds, Enabled
  <2>2. op' \in [Clients -> Op] /\ \A c \in Clients : OpSound(op[c])'
    BY <1>5, IInvParts DEF vars, OpSound
  <2> QED
    BY <2>1, <2>2, IInvPartsPrime
<1> QED
  BY <1>1, <1>2, <1>3, <1>4, <1>5, RequestPasswordResetKeepsIInv,
     RevokeUserSessionsKeepsIInv DEF Next

(* The inductive invariant holds in every reachable state. *)
THEOREM InvariantHolds == Spec => []IInv
  BY InitIInv, NextKeepsIInv, PTL DEF Spec

(* Types, ownership and the foreign keys, for every account, token, link   *)
(* and client.                                                             *)
THEOREM TypeCorrect == Spec => []TypeOK
<1>1. IInv => TypeOK
  BY DEF IInv
<1> QED
  BY <1>1, InvariantHolds, PTL

(* Every session that is accepted was obtained with the present password,  *)
(* by a login that saw the account after its last revocation.              *)
THEOREM LiveSessionsAreSound == Spec => []LiveSessionsAreCurrent
<1>1. IInv => LiveSessionsAreCurrent
  BY DEF IInv, SessionsBehindAccounts, LiveSessionsAreCurrent, Live
<1> QED
  BY <1>1, InvariantHolds, PTL

(* No request is served whose session was dead when it began. *)
THEOREM ServedRequestsAreEntitled == Spec => []RequestsAreEntitled
<1>1. IInv => RequestsAreEntitled
  BY DEF IInv
<1> QED
  BY <1>1, InvariantHolds, PTL

(* A usable reset link is the only one of its account, was issued for the  *)
(* present password, and works once.                                       *)
THEOREM LinksAreSingleUse == Spec => []LinksServeOnce
<1>1. IInv => LinksServeOnce
  BY DEF IInv
<1> QED
  BY <1>1, InvariantHolds, PTL

-----------------------------------------------------------------------------
(* What no step may do *)

(* A session that was drawn keeps its user and its version, does not get   *)
(* younger and does not lose its mark.                                     *)
Ages(t) ==
  session'[t] # None =>
    /\ session[t] # None
    /\ session'[t].user = session[t].user /\ session'[t].version = session[t].version
    /\ session'[t].fresh => session[t].fresh
    /\ session[t].revoked => session'[t].revoked

(* An account is enabled again under a later version only, and takes a new *)
(* password only as a step of the client of SomeoneKnew.                   *)
MovesOn(u) ==
  \/ account'[u].version > account[u].version
  \/ /\ account'[u].version = account[u].version
     /\ account'[u].status = "enabled" => account[u].status = "enabled"

SomeoneKnew(u) ==
  /\ Enabled(u)
  /\ \E c \in Clients :
       \/ /\ op[c].at = "changing" /\ op[c].user = u
          /\ op[c].password = account[u].password /\ ~op[c].late
       \/ /\ op[c].at = "hashed" /\ Holds(u, op[c].link)
          /\ letter[op[c].link].password = account[u].password

Justified(u) == account'[u].password # account[u].password => SomeoneKnew(u)

Orderly ==
  (\A t \in drawn : Ages(t)) /\ (\A u \in Users : MovesOn(u) /\ Justified(u))

LEMMA SameAccounts ==
  ASSUME IInv, UNCHANGED account
  PROVE  \A u \in Users : MovesOn(u) /\ Justified(u)
  BY IInvParts DEF RowsSound, MovesOn, Justified, Account

LEMMA SameSessions ==
  ASSUME UNCHANGED session
  PROVE  \A t \in drawn : Ages(t)
  BY DEF Ages

(* Replacing account u alone. *)
LEMMA OneAccount ==
  ASSUME IInv, NEW u \in Users, NEW a \in Account, account' = [account EXCEPT ![u] = a],
         MovesOn(u), Justified(u)
  PROVE  \A v \in Users : MovesOn(v) /\ Justified(v)
  BY IInvParts DEF RowsSound, MovesOn, Justified, Account

LEMMA ClientStepsOrderly ==
  ASSUME IInv, NEW c \in Clients, Login(c) \/ Request(c) \/ Settings(c) \/ Recovery(c) \/ Abandon(c)
  PROVE  Orderly
<1> USE IInvParts DEF RowsSound
<1>1. CASE \/ Abandon(c) \/ LoginWithPrincipal(c) \/ Current(c) \/ FindPrincipalByID(c)
           \/ VerifyCurrentPassword(c) \/ PreflightPasswordReset(c)
           \/ \E u \in Users : FindByCanonicalEmail(c, u)
           \/ \E t \in Tokens : ResolveAndTouchVersioned(c, t)
           \/ \E u \in Users, l \in Links : FindPasswordResetTarget(c, u, l)
  <2>1. UNCHANGED <<account, session>>
    BY <1>1 DEF Abandon, LoginWithPrincipal, Current, FindPrincipalByID,
       VerifyCurrentPassword, PreflightPasswordReset, FindByCanonicalEmail,
       ResolveAndTouchVersioned, FindPasswordResetTarget
  <2> QED
    BY <2>1, SameAccounts, SameSessions DEF Orderly
<1>2. CASE TakeBack(c) \/ DeleteStale(c)
  <2>1. UNCHANGED account
    BY <1>2 DEF TakeBack, DeleteStale
  <2>2. \A t \in drawn : Ages(t)
    BY <1>2 DEF TakeBack, DeleteStale, Ages
  <2> QED
    BY <2>1, <2>2, SameAccounts DEF Orderly
<1>3. ASSUME NEW t \in Tokens, CreateVersioned(c, t) PROVE Orderly
  <2>1. UNCHANGED account
    BY <1>3 DEF CreateVersioned
  <2>2. \A d \in drawn : Ages(d)
    BY <1>3 DEF CreateVersioned, Ages
  <2> QED
    BY <2>1, <2>2, SameAccounts DEF Orderly
<1>4. ASSUME NEW p \in Passwords, ChangePassword(c, p) PROVE Orderly
  <2> DEFINE u == op[c].user
             a == [Bumped(u) EXCEPT !.password = p]
  <2>1. /\ u \in Users /\ account[u].version < MaxVersion /\ account[u] \in Account
        /\ op[c].password = account[u].password /\ ~op[c].late
    BY <1>4 DEF ChangePassword, OpSound, RevokeBy, Reads
  <2>2. a \in Account /\ a.version = account[u].version + 1
    BY <2>1, BumpedAccounts DEF Account
  <2> HIDE DEF a
  <2>3. account' = [account EXCEPT ![u] = a]
    BY <1>4 DEF ChangePassword, a
  <2>4. MovesOn(u)
    BY <2>1, <2>2, <2>3 DEF MovesOn, Account
  <2>5. Justified(u)
    BY <1>4, <2>1 DEF Justified, SomeoneKnew, ChangePassword
  <2>6. \A t \in drawn : Ages(t)
    BY <1>4, SameSessions DEF ChangePassword
  <2> QED
    BY <2>1, <2>2, <2>3, <2>4, <2>5, <2>6, OneAccount DEF Orderly
<1>5. CASE CompleteEmailChange(c)
  <2> DEFINE u == op[c].user
  <2>1. u \in Users /\ account[u].version < MaxVersion /\ account[u] \in Account
    BY <1>5 DEF CompleteEmailChange, OpSound, RevokeBy
  <2>2. account' = [account EXCEPT ![u] = Bumped(u)]
    BY <1>5 DEF CompleteEmailChange
  <2>3. MovesOn(u) /\ Justified(u)
    BY <2>1, <2>2, BumpedAccounts DEF MovesOn, Justified, Account
  <2>4. \A t \in drawn : Ages(t)
    BY <1>5, SameSessions DEF CompleteEmailChange
  <2> QED
    BY <2>1, <2>2, <2>3, <2>4, BumpedAccounts, OneAccount DEF Orderly
<1>6. ASSUME NEW u \in Users, NEW p \in Passwords, CompletePasswordReset(c, u, p)
      PROVE  Orderly
  <2> DEFINE a == [Bumped(u) EXCEPT !.password = p]
  <2>1. account[u].version < MaxVersion /\ account[u] \in Account
    BY <1>6 DEF CompletePasswordReset, RevokeBy
  <2>2. a \in Account /\ a.version = account[u].version + 1
    BY <2>1, BumpedAccounts DEF Account
  <2> HIDE DEF a
  <2>3. account' = [account EXCEPT ![u] = a]
    BY <1>6 DEF CompletePasswordReset, a
  <2>4. MovesOn(u)
    BY <2>1, <2>2, <2>3 DEF MovesOn, Account
  <2> DEFINE l == op[c].link
  <2>0. reset[u] # None /\ reset[u].link = l
    BY <1>6 DEF CompletePasswordReset, Holds
  <2>5. letter[l] = [password |-> account[u].password, uses |-> 0]
    BY <2>0 DEF LinksServeOnce
  <2>8. letter[l].password = account[u].password
    BY <2>5
  <2>6. Justified(u)
    BY <1>6, <2>8 DEF Justified, SomeoneKnew, CompletePasswordReset
  <2>7. \A t \in drawn : Ages(t)
    BY <1>6, SameSessions DEF CompletePasswordReset
  <2> QED
    BY <2>2, <2>3, <2>4, <2>6, <2>7, OneAccount DEF Orderly
<1> QED
  BY <1>1, <1>2, <1>3, <1>4, <1>5, <1>6 DEF Login, Request, Settings, Recovery

LEMMA OtherStepsOrderly ==
  ASSUME IInv,
         \/ \E u \in Users, l \in Links : RequestPasswordReset(u, l)
         \/ \E us \in SUBSET Users : RevokeUserSessions(us)
         \/ \E u \in Users : Administration(u)
         \/ Maintenance
  PROVE  Orderly
<1> USE IInvParts DEF RowsSound
<1>1. ASSUME NEW u \in Users, NEW l \in Links,
             RequestPasswordReset(u, l) \/ LinkLapses(u) \/ SweepResets(u)
      PROVE  Orderly
  <2>1. UNCHANGED <<account, session>>
    BY <1>1 DEF RequestPasswordReset, LinkLapses, SweepResets
  <2> QED
    BY <2>1, SameAccounts, SameSessions DEF Orderly
<1>2. ASSUME NEW u \in Users, LinkLapses(u) \/ SweepResets(u) PROVE Orderly
  <2>1. UNCHANGED <<account, session>>
    BY <1>2 DEF LinkLapses, SweepResets
  <2> QED
    BY <2>1, SameAccounts, SameSessions DEF Orderly
<1>3. ASSUME NEW t \in Tokens, Logout(t) \/ SessionLapses(t) \/ CleanupExpiredSessions(t)
      PROVE  Orderly
  <2>1. UNCHANGED account
    BY <1>3 DEF Logout, SessionLapses, CleanupExpiredSessions
  <2>2. \A d \in drawn : session'[d] # None =>
          \/ session'[d] = session[d]
          \/ session[d] \in Session /\ session'[d] = [session[d] EXCEPT !.fresh = FALSE]
    BY <1>3 DEF Logout, SessionLapses, CleanupExpiredSessions
  <2>3. \A d \in drawn : Ages(d)
    BY <1>3, <2>2 DEF Ages, Session, Logout, SessionLapses, CleanupExpiredSessions
  <2> QED
    BY <2>1, <2>3, SameAccounts DEF Orderly
<1>4. ASSUME NEW us \in SUBSET Users, RevokeUserSessions(us) PROVE Orderly
  <2>1. \A u \in us : /\ Bumped(u).version = account[u].version + 1
                      /\ Bumped(u).password = account[u].password
    BY <1>4, BumpedAccounts DEF RevokeUserSessions, Revoke
  <2>2. \A u \in Users : account'[u] = IF u \in us THEN Bumped(u) ELSE account[u]
    BY <1>4 DEF RevokeUserSessions
  <2>3. \A u \in Users : MovesOn(u) /\ Justified(u)
    BY <2>1, <2>2 DEF MovesOn, Justified, Account
  <2> QED
    BY <1>4, <2>3, SameSessions DEF Orderly, RevokeUserSessions
<1>5. ASSUME NEW u \in Users, Deactivate(u) PROVE Orderly
  <2> DEFINE a == [Bumped(u) EXCEPT !.status = "disabled"]
  <2>1. /\ account[u] \in Account
        /\ a \in Account /\ a.version = account[u].version + 1
        /\ a.password = account[u].password
    BY <1>5, BumpedAccounts DEF Deactivate, Revoke, Account
  <2> HIDE DEF a
  <2>2. account' = [account EXCEPT ![u] = a]
    BY <1>5 DEF Deactivate, a
  <2>3. MovesOn(u) /\ Justified(u)
    BY <2>1, <2>2 DEF MovesOn, Justified, Account
  <2>4. \A t \in drawn : session'[t] = Marked(u, session[t]) /\ session[t] \in Session \cup {None}
    BY <1>5 DEF Deactivate
  <2>5. \A t \in drawn : Ages(t)
    BY <2>4 DEF Ages, Marked, Session
  <2> QED
    BY <2>1, <2>2, <2>3, <2>5, OneAccount DEF Orderly
<1>6. ASSUME NEW u \in Users, Reactivate(u) PROVE Orderly
  <2> DEFINE a == [Bumped(u) EXCEPT !.status = "enabled"]
  <2>1. /\ account[u] \in Account
        /\ a \in Account /\ a.version = account[u].version + 1
        /\ a.password = account[u].password
    BY <1>6, BumpedAccounts DEF Reactivate, Revoke, Account
  <2> HIDE DEF a
  <2>2. account' = [account EXCEPT ![u] = a]
    BY <1>6 DEF Reactivate, a
  <2>3. MovesOn(u) /\ Justified(u)
    BY <2>1, <2>2 DEF MovesOn, Justified, Account
  <2> QED
    BY <1>6, <2>1, <2>2, <2>3, OneAccount, SameSessions DEF Orderly, Reactivate
<1>7. ASSUME NEW u \in Users, DeleteUser(u) PROVE Orderly
  <2> DEFINE a == [account[u] EXCEPT !.status = "deleted"]
  <2>1. /\ account[u] \in Account
        /\ a \in Account /\ a.version = account[u].version
        /\ a.password = account[u].password /\ a.status = "deleted"
    BY DEF Account
  <2> HIDE DEF a
  <2>2. account' = [account EXCEPT ![u] = a]
    BY <1>7 DEF DeleteUser, a
  <2>3. MovesOn(u) /\ Justified(u)
    BY <2>1, <2>2 DEF MovesOn, Justified
  <2>4. \A t \in drawn : Ages(t)
    BY <1>7 DEF DeleteUser, Ages
  <2> QED
    BY <2>1, <2>2, <2>3, <2>4, OneAccount DEF Orderly
<1> QED
  BY <1>1, <1>2, <1>3, <1>4, <1>5, <1>6, <1>7 DEF Administration, Maintenance

LEMMA StepsAreOrderly ==
  ASSUME IInv, [Next]_vars
  PROVE  Orderly
<1>1. CASE UNCHANGED vars
  BY <1>1, SameAccounts, SameSessions DEF vars, Orderly
<1> QED
  BY <1>1, ClientStepsOrderly, OtherStepsOrderly DEF Next

LEMMA NothingRevives ==
  ASSUME IInv, Orderly, NEW t \in drawn, Live(t)'
  PROVE  Live(t)
<1> USE IInvParts DEF RowsSound
<1> DEFINE s == session[t]
<1>1. t \in Tokens /\ session'[t] # None /\ Ages(t)
  BY DEF Orderly, Live
<1>2. s \in Session /\ s # None /\ s.user \in Users /\ MovesOn(s.user)
  BY <1>1 DEF Ages, Session, Orderly
<1>3. /\ session'[t].user = s.user /\ session'[t].version = s.version
      /\ s.fresh /\ ~s.revoked
  BY <1>1, <1>2 DEF Ages, Live, Session
<1>4. account'[s.user].status = "enabled" /\ s.version = account'[s.user].version
  BY <1>3 DEF Live, Enabled
<1>5. s.version <= account[s.user].version
  BY <1>1, <1>2 DEF SessionsBehindAccounts
<1>6. s.version \in Nat /\ account[s.user].version \in Nat
  BY <1>2 DEF Session, Account
<1> QED
  BY <1>2, <1>3, <1>4, <1>5, <1>6 DEF MovesOn, Live, Enabled

(* No session that ended is ever accepted again. *)
THEOREM NoSessionRevives == Spec => SessionsStayDead
<1>1. IInv /\ [Next]_vars => [\A t \in drawn : ~Live(t) => ~Live(t)']_vars
  BY StepsAreOrderly, NothingRevives
<1> QED
  BY <1>1, InvariantHolds, PTL DEF Spec, SessionsStayDead

(* Every password is replaced by someone entitled to. *)
THEOREM NoPasswordIsLost == Spec => PasswordsReplacedKnowingly
<1>1. ASSUME IInv, [Next]_vars, NEW u \in Users,
             account'[u].password # account[u].password
      PROVE  SomeoneKnew(u)
  BY <1>1, StepsAreOrderly DEF Orderly, Justified
<1>2. IInv /\ [Next]_vars =>
        [\A u \in Users : account'[u].password # account[u].password => SomeoneKnew(u)]_vars
  BY <1>1
<1> QED
  BY <1>2, InvariantHolds, PTL DEF Spec, PasswordsReplacedKnowingly, SomeoneKnew

=============================================================================
