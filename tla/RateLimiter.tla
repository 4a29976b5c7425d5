----------------------------- MODULE RateLimiter -----------------------------
(***************************************************************************)
(* The token buckets that slow down logins, mails and link attempts.       *)
(*                                                                         *)
(* A bucket is a row of auth_rate_limit_buckets.  A request locks the rows *)
(* it needs one after the other in one transaction, refills them for the   *)
(* time it read, takes a token from each or from none, and commits.  The   *)
(* login resets an e-mail bucket, the cleanup loop deletes rows that have  *)
(* had time to fill up, and a restart may bring another configuration.     *)
(*                                                                         *)
(* Rows of two namespaces never meet, so a behaviour follows one of them.  *)
(* Identities (addresses, account ids, sources) are compared by digest;    *)
(* here they are what is left after normalisation, "unknown" included.     *)
(***************************************************************************)
EXTENDS Integers, Sequences, FiniteSets, Functions

CONSTANTS
  Requests,      \* requests in progress
  Namespaces,    \* the operations of the instance that are limited
  Identity,      \* the identities of each kind
  Environments,  \* what the environment variables may say at a start
  Default,       \* the policy of a kind whose variables are not set
  MaxDuration,   \* the largest time.Duration
  MaxTime        \* bound on the clock

Kinds == {"global", "ip", "email", "actor", "recipient"}

(* A source bucket that is charged for every attempt, where there is one.  *)
SourceAware == {"login", "password-reset"}

(* The buckets that are charged for an admitted operation only.            *)
Business(n) ==
  CASE n \in SourceAware -> {"global", "email"}
    [] n \in {"password-reset-complete", "invitation-accept", "setup"} -> {"ip"}
    [] n \in {"invitation-send", "email-change"} -> {"actor", "recipient"}
    [] n = "test-email" -> {"global", "actor", "recipient"}

AllNamespaces == SourceAware \cup {"password-reset-complete", "invitation-accept", "setup",
                                   "invitation-send", "email-change", "test-email"}

KindsOf(n) == Business(n) \cup (IF n \in SourceAware THEN {"ip"} ELSE {})

(* rateLimitKindRank: the order in which business rows are locked.         *)
Rank == [global |-> 0, ip |-> 1, email |-> 2, actor |-> 3, recipient |-> 4]

Key == {k \in Kinds \X UNION {Identity[x] : x \in Kinds} : k[2] \in Identity[k[1]]}

Unset == 0
Unparsable == -1
Setting == Int
Policy == [capacity : Nat \ {0}, refill : Nat \ {0}]

ASSUME LimiterAssumption ==
  /\ Namespaces \subseteq AllNamespaces /\ Namespaces # {}
  /\ DOMAIN Identity = Kinds
  /\ Default \in [Kinds -> Policy]
  /\ Environments \subseteq [Kinds -> [capacity : Setting, refill : Setting]]
  /\ MaxDuration \in Nat /\ MaxTime \in Nat

VARIABLES
  namespace,  \* the operation this behaviour is about
  config,     \* the policy of each kind in the running process
  bucket,     \* auth_rate_limit_buckets
  request,    \* what each request is doing
  clock,      \* clock_timestamp() of the database
  spent       \* history: when tokens of a bucket were taken, under config

vars == <<namespace, config, bucket, request, clock, spent>>

-----------------------------------------------------------------------------
(* Configuration *)

(* config.Load with the fallbacks of parseInt and parseDuration.           *)
Loaded(environment) ==
  [k \in Kinds |->
    [f \in {"capacity", "refill"} |->
      IF environment[k][f] = Unset THEN Default[k][f] ELSE environment[k][f]]]

(* validateRateLimitSettings: capacity + 1 intervals must be a duration.   *)
Accepted(policy) ==
  /\ policy.capacity > 0 /\ policy.refill > 0
  /\ policy.capacity < MaxDuration \div policy.refill

Starts == {c \in {Loaded(e) : e \in Environments} : \A k \in Kinds : Accepted(c[k])}

(* bucketTTL: how long a bucket may take to fill up, and one interval.     *)
Retention(policy) ==
  IF policy.capacity >= MaxDuration \div policy.refill
    THEN MaxDuration
    ELSE (policy.capacity + 1) * policy.refill

-----------------------------------------------------------------------------
(* Buckets *)

Row == [tokens : Nat, last : Nat, expires : Nat]
NoRow == [tokens |-> 0, last |-> 0, expires |-> 0]

Written(tokens, last, policy) ==
  [tokens |-> tokens, last |-> last, expires |-> last + Retention(policy)]

(* refillRateLimitBucket: whole intervals only, never above the capacity,  *)
(* and nothing for a time before the last refill.                          *)
Refilled(row, policy, now) ==
  LET clipped == IF row.tokens > policy.capacity THEN policy.capacity ELSE row.tokens
      additions == IF now > row.last THEN (now - row.last) \div policy.refill ELSE 0
      full == clipped + additions > policy.capacity
  IN Written(IF full THEN policy.capacity ELSE clipped + additions,
             row.last + additions * policy.refill, policy)

Fresh(policy) == Written(policy.capacity, clock, policy)

Idle == [pc |-> "idle", plan |-> {}, rows |-> <<>>, now |-> 0]

Held(r) == DOMAIN request[r].rows

(* Mutant: INSERT ... DO NOTHING, which does not lock a row that is there. *)
LockedByNobody(k) == FALSE

Locked(k) == \E r \in Requests : k \in Held(r)

IsSource(k) == namespace \in SourceAware /\ k[1] = "ip"

Init ==
  /\ namespace \in Namespaces
  /\ config \in Starts
  /\ bucket = [k \in Key |-> NoRow]
  /\ request = [r \in Requests |-> Idle]
  /\ clock = 0
  /\ spent = [k \in Key |-> <<>>]

-----------------------------------------------------------------------------
(* Requests *)

(* One bucket of each kind the operation is limited by.                    *)
Begin(r) ==
  /\ request[r].pc = "idle"
  /\ \E who \in [KindsOf(namespace) -> UNION {Identity[k] : k \in Kinds}] :
       /\ \A k \in KindsOf(namespace) : who[k] \in Identity[k]
       /\ request' = [request EXCEPT ![r] =
            [Idle EXCEPT !.pc = "locking", !.plan = {<<k, who[k]>> : k \in KindsOf(namespace)}]]
  /\ UNCHANGED <<namespace, config, bucket, clock, spent>>

(* The source row comes first, the rest in the order of their ranks.       *)
IsNext(r, k) ==
  /\ request[r].pc = "locking"
  /\ k \in request[r].plan \ Held(r)
  /\ \A other \in request[r].plan \ Held(r) :
       \/ other = k
       \/ IsSource(k)
       \/ ~IsSource(other) /\ Rank[k[1]] < Rank[other[1]]

(* ensureRateLimitBucket: create the row or lock the one that is there.    *)
Ensured(k) == IF bucket[k] = NoRow THEN Fresh(config[k[1]]) ELSE bucket[k]

(* The time of a source-aware request is read here, once: it may be old    *)
(* when the other rows are locked.                                         *)
Lock(r, k) ==
  /\ IsNext(r, k)
  /\ ~Locked(k)
  /\ IsSource(k) => Refilled(Ensured(k), config[k[1]], clock).tokens >= 1
  /\ request' = [request EXCEPT
       ![r].rows = [x \in DOMAIN @ \cup {k} |-> IF x = k THEN Ensured(k) ELSE @[x]],
       ![r].now = IF IsSource(k) THEN clock ELSE @]
  /\ UNCHANGED <<namespace, config, bucket, clock, spent>>

(* An exhausted source: no other row is created, locked or charged.        *)
DenyAtSource(r, k) ==
  /\ IsNext(r, k) /\ IsSource(k)
  /\ ~Locked(k)
  /\ LET row == Refilled(Ensured(k), config[k[1]], clock)
     IN row.tokens < 1 /\ bucket' = [bucket EXCEPT ![k] = row]
  /\ request' = [request EXCEPT ![r] = Idle]
  /\ UNCHANGED <<namespace, config, clock, spent>>

(* Mutant: everything is charged for an attempt.                           *)
ChargedAnyway(k, allowed) == TRUE

(* Mutant: the shared bucket is charged like a source.                     *)
ChargedGlobalAnyway(k, allowed) == allowed \/ k[1] \in {"global", "ip"}

(* Tokens come from all business buckets or from none of them; a source    *)
(* pays for the attempt either way.                                        *)
Charged(k, allowed) == allowed \/ IsSource(k)

Decide(r) ==
  LET now == IF namespace \in SourceAware THEN request[r].now ELSE clock
      row(k) == Refilled(request[r].rows[k], config[k[1]], now)
      allowed == \A k \in Held(r) : row(k).tokens >= 1
  IN /\ request[r].pc = "locking" /\ Held(r) = request[r].plan
     /\ bucket' = [k \in Key |->
          IF k \notin Held(r) THEN bucket[k]
          ELSE [row(k) EXCEPT !.tokens = IF Charged(k, allowed) THEN @ - 1 ELSE @]]
     /\ spent' = [k \in Key |->
          IF k \in Held(r) /\ Charged(k, allowed)
            THEN Append(spent[k], [now |-> now, at |-> clock])
            ELSE spent[k]]
     /\ request' = [request EXCEPT ![r] =
          IF allowed /\ namespace = "login"
            THEN [Idle EXCEPT !.pc = "admitted", !.plan = request[r].plan]
            ELSE Idle]
     /\ UNCHANGED <<namespace, config, clock>>

(* The store's deadline, a lost connection or a client that went away.     *)
RollBack(r) ==
  /\ request[r].pc = "locking"
  /\ request' = [request EXCEPT ![r] = Idle]
  /\ UNCHANGED <<namespace, config, bucket, clock, spent>>

(* ResetEmail after the password was right: a statement of its own.        *)
ResetEmail(r) ==
  /\ request[r].pc = "admitted"
  /\ \E k \in request[r].plan :
       /\ k[1] = "email" /\ ~Locked(k)
       /\ bucket' = [bucket EXCEPT ![k] = NoRow]
       /\ spent' = [spent EXCEPT ![k] = <<>>]
  /\ request' = [request EXCEPT ![r] = Idle]
  /\ UNCHANGED <<namespace, config, clock>>

(* The password was wrong, or the account may not sign in.                 *)
FailLogin(r) ==
  /\ request[r].pc = "admitted"
  /\ request' = [request EXCEPT ![r] = Idle]
  /\ UNCHANGED <<namespace, config, bucket, clock, spent>>

-----------------------------------------------------------------------------
(* Cleanup and restart *)

(* rateLimitCleanupPolicies lists what cleanup knows the policy of.        *)
HasCleanupPolicy(n) == n \in AllNamespaces \ {"email-change"}

(* Mutant: the deadline an older configuration wrote.                      *)
DeadlineWritten(k) == bucket[k].expires

Deadline(k) ==
  IF HasCleanupPolicy(namespace)
    THEN bucket[k].last + Retention(config[k[1]])
    ELSE bucket[k].expires

Collectable(k) == bucket[k] # NoRow /\ Deadline(k) <= clock

(* CleanupExpiredRateLimitBuckets skips locked rows.  It deletes a batch;  *)
(* rows are independent, so a batch is several of these steps.             *)
Cleanup(k) ==
  /\ Collectable(k) /\ ~Locked(k)
  /\ bucket' = [bucket EXCEPT ![k] = NoRow]
  /\ UNCHANGED <<namespace, config, request, clock, spent>>

(* Open transactions are lost with the process.                            *)
Restart ==
  /\ config' \in Starts
  /\ request' = [r \in Requests |-> Idle]
  /\ spent' = [k \in Key |-> <<>>]
  /\ UNCHANGED <<namespace, bucket, clock>>

Tick ==
  /\ clock < MaxTime
  /\ clock' = clock + 1
  /\ UNCHANGED <<namespace, config, bucket, request, spent>>

Next ==
  \/ \E r \in Requests :
       \/ Begin(r) \/ Decide(r) \/ RollBack(r) \/ ResetEmail(r) \/ FailLogin(r)
       \/ \E k \in Key : Lock(r, k) \/ DenyAtSource(r, k)
  \/ \E k \in Key : Cleanup(k)
  \/ Restart
  \/ Tick

Spec == Init /\ [][Next]_vars

-----------------------------------------------------------------------------
(* Properties *)

(* Types of the rows, the requests and the running configuration.          *)
TypeOK ==
  /\ namespace \in Namespaces
  /\ config \in [Kinds -> Policy] /\ \A k \in Kinds : Accepted(config[k])
  /\ \A k \in Key : bucket[k] \in Row
  /\ \A r \in Requests :
       /\ request[r].pc \in {"idle", "locking", "admitted"}
       /\ request[r].plan \subseteq Key
       /\ Held(r) \subseteq request[r].plan /\ \A k \in Held(r) : request[r].rows[k] \in Row
       /\ request[r].now \in 0..clock
  /\ clock \in 0..MaxTime

(* The limit itself, on the database's clock and through every             *)
(* interleaving, old times, cleanup and re-creation: between two charges   *)
(* of a bucket there are no more charges than it holds, plus one for each  *)
(* interval that begins in between.  (A request's own time is the one it   *)
(* read, at most as late as the moment it commits.)                        *)
Ceiling(a, b) == (a + b - 1) \div b

BudgetHolds ==
  \A k \in Key : \A i, j \in DOMAIN spent[k] :
    i < j => j - i + 1 <= config[k[1]].capacity
                          + Ceiling(spent[k][j].at - spent[k][i].now, config[k[1]].refill)

(* What cleanup may delete would be full if it were kept, whatever policy  *)
(* it was written under: deleting a row gives nobody a token.  For the     *)
(* namespaces whose policy cleanup knows.                                  *)
WouldBeFull(k) ==
  Refilled(bucket[k], config[k[1]], clock).tokens = config[k[1]].capacity

CollectableIsFull ==
  HasCleanupPolicy(namespace) => \A k \in Key : Collectable(k) => WouldBeFull(k)

(* The same for every namespace, as the comment of                         *)
(* rateLimitCleanupPolicies has it ("mirrors the policies used by the      *)
(* limiter ... Otherwise lengthening an interval could delete a depleted   *)
(* bucket and let it recover immediately").                                *)
EveryCollectableIsFull == \A k \in Key : Collectable(k) => WouldBeFull(k)

(* "An email denial cannot drain the shared resource bucket, while source  *)
(* abuse still consumes source capacity": a step that takes a token of a   *)
(* business bucket takes one of every bucket the request is about.         *)
Took(k) == Len(spent'[k]) > Len(spent[k])

ChargedTogether ==
  [][\A k \in Key : Took(k) /\ ~IsSource(k) =>
       \E r \in Requests : k \in request[r].plan /\ \A other \in request[r].plan : Took(other)]_vars
=============================================================================
