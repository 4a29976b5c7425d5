------------------------------ MODULE MailOutbox ------------------------------
(***************************************************************************)
(* The transactional mail outbox and the dispatchers that drain it.        *)
(*                                                                         *)
(* `row` is the table auth_mail_outbox, `attempts` the table               *)
(* auth_mail_task_attempts.  Every API process runs one dispatcher (a      *)
(* worker here), which repeats ProcessOnce: sweep, clean up, claim one row *)
(* under a fresh lease token, deliver it over SMTP outside any             *)
(* transaction, and acknowledge the result by token.  An administrator     *)
(* retries and deletes rows concurrently.  Each action is one SQL          *)
(* transaction or one call that leaves the process.                        *)
(*                                                                         *)
(* Clocks are abstracted to events: a lease runs out, a back-off passes, a *)
(* legacy row reaches its deadline, a finished row outlives the retention. *)
(* A lease token is a random UUID, compared only together with the row's   *)
(* id; it is the ordinal of the claim among the claims of its row, which   *)
(* is as unique.                                                           *)
(***************************************************************************)
EXTENDS Naturals, FiniteSets

CONSTANTS
  Tasks,        \* mail tasks, in the database or still to be enqueued
  Legacy,       \* those without sealed material, left by an older release
  Workers,      \* dispatchers, one per API process
  RetryCounts,  \* the values the setting auto_retry_count takes
  MaxRounds,    \* bound: administrators open at most this many rounds
  MaxFaults,    \* bound: crashes, lost replies, leases outrun by their worker
  NoJob         \* the job of a worker that has claimed nothing

ASSUME LegacyAssumption == Legacy \subseteq Tasks
ASSUME RetryCountsAssumption == RetryCounts \subseteq Nat /\ RetryCounts # {}
ASSUME BoundsAssumption == MaxRounds \in Nat /\ MaxFaults \in Nat

VARIABLES
  row,         \* auth_mail_outbox
  attempts,    \* auth_mail_task_attempts
  retryCount,  \* auth_email_settings.auto_retry_count
  pc,          \* where each worker is in ProcessOnce
  job,         \* the MailJob each worker holds
  plan,        \* what each worker is about to write: the outcome it reached
  accepted,    \* observer: the attempts whose message SMTP took
  faults       \* observer: faults so far

vars == <<row, attempts, retryCount, pc, job, plan, accepted, faults>>
worker == <<pc, job, plan>>
observers == <<accepted, faults>>

-----------------------------------------------------------------------------
(* State *)

(* sent_at, dead_at and canceled_at, of which at most one is set; "none"   *)
(* and "gone" are rows not inserted yet and rows deleted.                  *)
Statuses == {"none", "open", "sent", "dead", "canceled", "gone"}

(* A timestamp column, relative to clock_timestamp(). *)
Times == {"null", "past", "future"}

Row == [status : Statuses,
        round  : Nat,       \* round_number
        tries  : Nat,       \* round_attempt_count
        total  : Nat,       \* attempt_count
        lease  : Nat,       \* lease_token, 0 for NULL
        until  : Times,     \* lease_expires_at
        from   : Times,     \* available_at
        expiry : Times]     \* expires_at, which only legacy rows heed

Job == [task : Tasks, round : Nat, number : Nat, lease : Nat]

Key == [task : Tasks, round : Nat, number : Nat]

Attempt == [task : Tasks, round : Nat, number : Nat, outcome : {"sent", "failed"}]

Places == {"idle", "cleanup", "claim", "deliver", "decide", "ack", "record"}
Busy == {"deliver", "decide", "ack", "record"}
Plans == {"none", "sent", "retry", "dead", "discard"}

Exists(t) == row[t].status \notin {"none", "gone"}
Open(t) == row[t].status = "open"
Finished(t) == row[t].status \in {"sent", "dead", "canceled"}
Leased(t) == row[t].lease # 0 /\ row[t].until = "future"

Recorded(t, r, n) == \E a \in attempts : a.task = t /\ a.round = r /\ a.number = n
Missing(t, r, n) == [task |-> t, round |-> r, number |-> n, outcome |-> "failed"]

(* INSERT ... ON CONFLICT DO UPDATE *)
Upsert(t, r, n, outcome) ==
  {a \in attempts : ~(a.task = t /\ a.round = r /\ a.number = n)}
    \cup {[task |-> t, round |-> r, number |-> n, outcome |-> outcome]}

InitialRow(t) ==
  [status |-> IF t \in Legacy THEN "open" ELSE "none", round |-> 1, tries |-> 0,
   total |-> 0, lease |-> 0, until |-> "null", from |-> "past", expiry |-> "future"]

Init ==
  /\ row = [t \in Tasks |-> InitialRow(t)]
  /\ attempts = {}
  /\ retryCount \in RetryCounts
  /\ pc = [w \in Workers |-> "idle"]
  /\ job = [w \in Workers |-> NoJob]
  /\ plan = [w \in Workers |-> "none"]
  /\ accepted = {}
  /\ faults = 0

-----------------------------------------------------------------------------
(* Rows come and go *)

(* EnqueueMailTask, or the INSERT of a flow that sends mail. *)
Enqueue(t) ==
  /\ row[t].status = "none"
  /\ row' = [row EXCEPT ![t].status = "open"]
  /\ UNCHANGED <<attempts, retryCount, worker, observers>>

(* A flow that replaces or consumes the credential a legacy row would mail *)
(* cancels the row, even under a live lease, and records no attempt.       *)
Supersede(t) ==
  /\ t \in Legacy /\ Open(t)
  /\ row' = [row EXCEPT ![t].status = "canceled", ![t].lease = 0, ![t].until = "null"]
  /\ UNCHANGED <<attempts, retryCount, worker, observers>>

(* DELETE of task rows; ON DELETE CASCADE takes their attempts along. *)
Remove(doomed) ==
  /\ row' = [t \in Tasks |-> IF t \in doomed
                             THEN [InitialRow(t) EXCEPT !.status = "gone"]
                             ELSE row[t]]
  /\ attempts' = {a \in attempts : a.task \notin doomed}

(* Mutant: deletes a task whose lease is active. *)
DeleteMailTaskWhileSending(t) ==
  /\ Exists(t)
  /\ Remove({t})
  /\ UNCHANGED <<retryCount, worker, observers>>

DeleteMailTask(t) ==
  /\ Exists(t)
  /\ ~(Open(t) /\ Leased(t))
  /\ Remove({t})
  /\ UNCHANGED <<retryCount, worker, observers>>

(* Mutant: resets the counter without opening a new round. *)
RetryMailTaskSameRound(t) ==
  /\ row[t].status \in {"canceled", "dead"}
  /\ row[t].round < MaxRounds
  /\ row' = [row EXCEPT ![t] =
       [row[t] EXCEPT !.status = "open", !.from = "past", !.lease = 0, !.until = "null", !.tries = 0]]
  /\ UNCHANGED <<attempts, retryCount, worker, observers>>

(* A new round: a fresh budget, the lifetime count of attempts kept. *)
RetryMailTask(t) ==
  /\ row[t].status \in {"canceled", "dead"}
  /\ row[t].round < MaxRounds
  /\ row' = [row EXCEPT ![t] =
       [row[t] EXCEPT !.status = "open", !.from = "past", !.lease = 0, !.until = "null",
                 !.round = row[t].round + 1, !.tries = 0]]
  /\ UNCHANGED <<attempts, retryCount, worker, observers>>

SetRetryCount(n) ==
  /\ n # retryCount
  /\ retryCount' = n
  /\ UNCHANGED <<row, attempts, worker, observers>>

-----------------------------------------------------------------------------
(* Time *)

Holds(w, t) == pc[w] \in Busy /\ job[w].task = t /\ job[w].lease = row[t].lease

(* A lease outrun by a worker that still holds its job is a fault; the     *)
(* lease of a lost job runs out in any case.                               *)
LeaseLapses(t) ==
  /\ Leased(t)
  /\ IF \E w \in Workers : Holds(w, t)
     THEN faults < MaxFaults /\ faults' = faults + 1
     ELSE faults' = faults
  /\ row' = [row EXCEPT ![t].until = "past"]
  /\ UNCHANGED <<attempts, retryCount, worker, accepted>>

BackoffPasses(t) ==
  /\ Open(t) /\ row[t].from = "future"
  /\ row' = [row EXCEPT ![t].from = "past"]
  /\ UNCHANGED <<attempts, retryCount, worker, observers>>

LegacyLapses(t) ==
  /\ t \in Legacy /\ Exists(t) /\ row[t].expiry = "future"
  /\ row' = [row EXCEPT ![t].expiry = "past"]
  /\ UNCHANGED <<attempts, retryCount, worker, observers>>

-----------------------------------------------------------------------------
(* ProcessOnce: maintenance, then one claim *)

Goto(w, place) == pc' = [pc EXCEPT ![w] = place]

(* Attempts that no worker is recording any more: the last one of a row    *)
(* whose lease is absent or over.                                          *)
Unclosed == {t \in Tasks : /\ Open(t) /\ row[t].tries > 0 /\ ~Leased(t)
                           /\ ~Recorded(t, row[t].round, row[t].tries)}

(* SweepMail is one transaction of several statements, each reading the    *)
(* clock: `expiring` are the legacy leases that run out after the first    *)
(* statement closed attempts and before the later ones cancel rows.  A row *)
(* the sweep skips as locked, or past its batch, is one that lapses later. *)
SweepMail(w) ==
  /\ pc[w] = "idle"
  /\ \E expiring \in SUBSET {t \in Legacy : Open(t) /\ Leased(t)} :
       row' = [t \in Tasks |->
                IF t \in Legacy /\ Open(t) /\ row[t].expiry = "past" /\ (Leased(t) => t \in expiring)
                THEN [row[t] EXCEPT !.status = "canceled", !.lease = 0, !.until = "null"]
                ELSE row[t]]
  /\ attempts' = attempts \cup {Missing(t, row[t].round, row[t].tries) : t \in Unclosed}
  /\ Goto(w, "cleanup")
  /\ UNCHANGED <<retryCount, job, plan, observers>>

(* `doomed` are the finished rows that have outlived the retention. *)
CleanupMail(w) ==
  /\ pc[w] = "cleanup"
  /\ \E doomed \in SUBSET {t \in Tasks : Finished(t)} : Remove(doomed)
  /\ Goto(w, "claim")
  /\ UNCHANGED <<retryCount, job, plan, observers>>

(* Mutants: a claim that ignores live leases, and one that waits for the   *)
(* lease to be cleared instead of letting it run out.                      *)
ClaimableUnderLease(t) ==
  /\ Open(t) /\ row[t].from = "past"
  /\ t \in Legacy => row[t].expiry = "future"

ClaimableUnleased(t) ==
  /\ Open(t) /\ row[t].from = "past" /\ row[t].lease = 0
  /\ t \in Legacy => row[t].expiry = "future"

Claimable(t) ==
  /\ Open(t) /\ row[t].from = "past" /\ ~Leased(t)
  /\ t \in Legacy => row[t].expiry = "future"

(* Mutant: closes the attempts before the previous one only. *)
BehindExceptLast(t) ==
  {n \in 1..row[t].tries :
     n < row[t].tries /\ \A a \in attempts :
       a.task = t /\ a.round = row[t].round => a.number < n}

(* Attempts of this round past the last one on record, up to the counter. *)
Behind(t) ==
  {n \in 1..row[t].tries :
     \A a \in attempts : a.task = t /\ a.round = row[t].round => a.number < n}

ClaimMail(w, t) ==
  /\ pc[w] = "claim"
  /\ Claimable(t)
  /\ attempts' = attempts \cup {Missing(t, row[t].round, n) : n \in Behind(t)}
  /\ row' = [row EXCEPT ![t] =
       [row[t] EXCEPT !.tries = row[t].tries + 1, !.total = row[t].total + 1,
                 !.lease = row[t].total + 1, !.until = "future"]]
  /\ job' = [job EXCEPT ![w] = [task |-> t, round |-> row[t].round,
                                number |-> row[t].tries + 1, lease |-> row[t].total + 1]]
  /\ Goto(w, "deliver")
  /\ UNCHANGED <<retryCount, plan, observers>>

ClaimNothing(w) ==
  /\ pc[w] = "claim"
  /\ \A t \in Tasks : ~Claimable(t)
  /\ Goto(w, "idle")
  /\ UNCHANGED <<row, attempts, retryCount, job, plan, observers>>

-----------------------------------------------------------------------------
(* ProcessOnce: delivery, outside any transaction *)

Reach(w, outcome, place) ==
  /\ pc[w] = "deliver"
  /\ plan' = [plan EXCEPT ![w] = outcome]
  /\ Goto(w, place)
  /\ UNCHANGED <<row, attempts, retryCount, job>>

(* Generated servers compose sealed tasks only. *)
Composable(w) == pc[w] = "deliver" /\ job[w].task \notin Legacy

Accept(w) ==
  accepted' = accepted \cup
    {[task |-> job[w].task, round |-> job[w].round, number |-> job[w].number]}

SendSucceeds(w) ==
  /\ Composable(w)
  /\ Reach(w, "sent", "ack")
  /\ Accept(w)
  /\ UNCHANGED faults

(* The server took the message and its reply was lost: a temporary failure *)
(* for the dispatcher.                                                     *)
SendReplyLost(w) ==
  /\ Composable(w)
  /\ faults < MaxFaults
  /\ Reach(w, "retry", "decide")
  /\ Accept(w)
  /\ faults' = faults + 1

(* SMTP refused for now, or composing or finding the mailer failed on a    *)
(* dependency; a row without material always ends here.                    *)
SendFailsTemporarily(w) ==
  /\ Reach(w, "retry", "decide")
  /\ UNCHANGED observers

(* SMTP refused for good, or mail is not configured. *)
SendFailsPermanently(w) ==
  /\ Composable(w)
  /\ Reach(w, "dead", "decide")
  /\ UNCHANGED observers

(* The material does not verify under the current keys. *)
MaterialInvalid(w) ==
  /\ Composable(w)
  /\ Reach(w, "discard", "ack")
  /\ UNCHANGED observers

Deliver(w) ==
  \/ SendSucceeds(w) \/ SendReplyLost(w) \/ SendFailsTemporarily(w)
  \/ SendFailsPermanently(w) \/ MaterialInvalid(w)

(* Mutant: counts the initial attempt as no attempt. *)
WithinBudgetInclusive(w) ==
  /\ job[w].number <= retryCount + 1
  /\ job[w].task \in Legacy => row[job[w].task].expiry = "future"

(* handleDeliveryFailure up to its write: the retry budget is the setting  *)
(* read now, and a row whose deadline passed is not retried.               *)
WithinBudget(w) ==
  /\ job[w].number < retryCount + 1
  /\ job[w].task \in Legacy => row[job[w].task].expiry = "future"

Decide(w) ==
  /\ pc[w] = "decide"
  /\ plan' = [plan EXCEPT ![w] = IF @ = "retry" /\ WithinBudget(w) THEN "retry" ELSE "dead"]
  /\ Goto(w, "ack")
  /\ UNCHANGED <<row, attempts, retryCount, job, observers>>

(* The policy could not be read: the round ends. *)
DecideBlind(w) ==
  /\ pc[w] = "decide"
  /\ plan' = [plan EXCEPT ![w] = "dead"]
  /\ Goto(w, "ack")
  /\ UNCHANGED <<row, attempts, retryCount, job, observers>>

-----------------------------------------------------------------------------
(* ProcessOnce: acknowledgement *)

Settle(w) ==
  /\ Goto(w, "idle")
  /\ job' = [job EXCEPT ![w] = NoJob]
  /\ plan' = [plan EXCEPT ![w] = "none"]

Outcome(w) == IF plan[w] = "sent" THEN "sent" ELSE "failed"

(* Mutant: acknowledges by id alone. *)
OwnsById(w) == Open(job[w].task)

(* The WHERE clause of every acknowledgement: id, lease_token, not terminal. *)
Owns(w) == Open(job[w].task) /\ row[job[w].task].lease = job[w].lease

(* Mutant: ends a round without giving the lease back. *)
AcknowledgedKeepingLease(r, outcome) ==
  CASE outcome = "sent"    -> [r EXCEPT !.status = "sent", !.lease = 0, !.until = "null"]
    [] outcome = "dead"    -> [r EXCEPT !.status = "dead"]
    [] outcome = "discard" -> [r EXCEPT !.status = "canceled", !.lease = 0, !.until = "null"]
    [] OTHER               -> [r EXCEPT !.from = "future", !.lease = 0, !.until = "null"]

Acknowledged(r, outcome) ==
  CASE outcome = "sent"    -> [r EXCEPT !.status = "sent", !.lease = 0, !.until = "null"]
    [] outcome = "dead"    -> [r EXCEPT !.status = "dead", !.lease = 0, !.until = "null"]
    [] outcome = "discard" -> [r EXCEPT !.status = "canceled", !.lease = 0, !.until = "null"]
    [] OTHER               -> [r EXCEPT !.from = "future", !.lease = 0, !.until = "null"]

(* MarkMailSent, RetryMail, DeadLetterMail and DiscardMail: the row and    *)
(* its attempt in one transaction.                                         *)
Acknowledge(w) ==
  LET t == job[w].task IN
  /\ pc[w] = "ack" /\ Owns(w)
  /\ row' = [row EXCEPT ![t] = Acknowledged(row[t], plan[w])]
  /\ attempts' = Upsert(t, row[t].round, row[t].tries, Outcome(w))
  /\ Settle(w)
  /\ UNCHANGED <<retryCount, observers>>

(* No row matched: another worker or an administrator moved the task on. *)
AcknowledgeTooLate(w) ==
  /\ pc[w] = "ack" /\ ~Owns(w)
  /\ Goto(w, "record")
  /\ UNCHANGED <<row, attempts, retryCount, job, plan, observers>>

(* Mutants: a late result filed under the row's latest attempt, and one    *)
(* inserted without the foreign key to its task.                           *)
RecordMailAttemptAsLatest(w) ==
  LET t == job[w].task IN
  /\ pc[w] = "record"
  /\ attempts' = IF Exists(t) THEN Upsert(t, row[t].round, row[t].tries, Outcome(w))
                              ELSE attempts
  /\ Settle(w)
  /\ UNCHANGED <<row, retryCount, observers>>

RecordMailAttemptUnchecked(w) ==
  /\ pc[w] = "record"
  /\ attempts' = Upsert(job[w].task, job[w].round, job[w].number, Outcome(w))
  /\ Settle(w)
  /\ UNCHANGED <<row, retryCount, observers>>

(* Keyed by the worker's own attempt; the foreign key refuses a deleted    *)
(* task, and the error is dropped.                                         *)
RecordMailAttempt(w) ==
  /\ pc[w] = "record"
  /\ attempts' = IF Exists(job[w].task)
                 THEN Upsert(job[w].task, job[w].round, job[w].number, Outcome(w))
                 ELSE attempts
  /\ Settle(w)
  /\ UNCHANGED <<row, retryCount, observers>>

(* The process dies, or a database error ends ProcessOnce: the job is      *)
(* forgotten.  An error before a claim only starts ProcessOnce over.       *)
LoseJob(w) ==
  /\ pc[w] \in Busy
  /\ faults < MaxFaults
  /\ faults' = faults + 1
  /\ Settle(w)
  /\ UNCHANGED <<row, attempts, retryCount, accepted>>

-----------------------------------------------------------------------------
Administer(t) == Enqueue(t) \/ Supersede(t) \/ DeleteMailTask(t) \/ RetryMailTask(t)

TimePasses(t) == LeaseLapses(t) \/ BackoffPasses(t) \/ LegacyLapses(t)

Claim(w) == ClaimNothing(w) \/ \E t \in Tasks : ClaimMail(w, t)

Choose(w) == Decide(w) \/ DecideBlind(w)

Finish(w) == Acknowledge(w) \/ AcknowledgeTooLate(w) \/ RecordMailAttempt(w)

ProcessOnce(w) ==
  SweepMail(w) \/ CleanupMail(w) \/ Claim(w) \/ Deliver(w) \/ Choose(w) \/ Finish(w)

Next ==
  \/ \E t \in Tasks : Administer(t) \/ TimePasses(t)
  \/ \E n \in RetryCounts : SetRetryCount(n)
  \/ \E w \in Workers : ProcessOnce(w) \/ LoseJob(w)

Spec == Init /\ [][Next]_vars

(* The dispatcher loop runs on a ticker, every call it makes is bounded by *)
(* the lease, and clocks advance.                                          *)
Orphaned(t) == Leased(t) /\ \A w \in Workers : ~Holds(w, t)

Fairness ==
  /\ \A w \in Workers : WF_vars(ProcessOnce(w))
  /\ \A t \in Tasks : WF_vars(Orphaned(t) /\ LeaseLapses(t)) /\ WF_vars(BackoffPasses(t))

FairSpec == Spec /\ Fairness

-----------------------------------------------------------------------------
(* Properties *)

(* Every variable holds values of its type, a busy worker holds a job, and *)
(* only an open row carries a lease (auth_mail_outbox_lease_pair and the   *)
(* updates that clear it).                                                 *)
TypeOK ==
  /\ row \in [Tasks -> Row]
  /\ attempts \subseteq Attempt
  /\ retryCount \in RetryCounts
  /\ pc \in [Workers -> Places]
  /\ job \in [Workers -> Job \cup {NoJob}]
  /\ \A w \in Workers : pc[w] \in Busy => job[w] \in Job
  /\ plan \in [Workers -> Plans]
  /\ accepted \subseteq Key
  /\ faults \in Nat
  /\ \A t \in Tasks : row[t].lease # 0 => Open(t)

(* An acknowledgement is written under the row's own round and counter     *)
(* (RETURNING round_number, round_attempt_count): whenever a worker's      *)
(* token still matches, they are those of the attempt it really made.      *)
LeaseIdentity ==
  \A w \in Workers :
    pc[w] \in Busy /\ Owns(w) =>
      /\ row[job[w].task].round = job[w].round
      /\ row[job[w].task].tries = job[w].number

(* ClaimMail: "recovery never leaves counters ahead of the durable attempt *)
(* projection".  In a sealed task every attempt of the round is recorded,  *)
(* except the latest while the row is open.                                *)
HistoryComplete ==
  \A t \in Tasks \ Legacy : Exists(t) =>
    \A n \in 1..row[t].tries :
      Recorded(t, row[t].round, n) \/ (n = row[t].tries /\ Open(t))

AttemptsOf(t) == {a \in attempts : a.task = t}

(* Over all rounds of a sealed task, the attempts on record are as many as *)
(* the lifetime counter says, once the task is finished.                   *)
HistoryMatchesCounter ==
  \A t \in Tasks \ Legacy : Finished(t) => Cardinality(AttemptsOf(t)) = row[t].total

(* A task shows "sent" only when SMTP took the message in its latest       *)
(* attempt, and no attempt claims a success SMTP did not grant.            *)
SentIsBacked ==
  /\ \A t \in Tasks : row[t].status = "sent" =>
       \E a \in attempts : /\ a.task = t /\ a.round = row[t].round
                           /\ a.number = row[t].tries /\ a.outcome = "sent"
  /\ \A a \in attempts : a.outcome = "sent" =>
       \E b \in accepted : b.task = a.task /\ b.round = a.round /\ b.number = a.number

Copies(t) == Cardinality({a \in accepted : a.task = t})

(* At-least-once delivery (README): each copy beyond the first is the work *)
(* of a fault, never of the dispatchers, retries and sweeps by themselves. *)
DuplicatesNeedFaults == \A t \in Tasks : Copies(t) <= 1 + faults

(* While nothing went wrong, no round makes more automatic attempts than   *)
(* the initial one and the largest retry count ever configured.            *)
BudgetKept ==
  faults = 0 => \A t \in Tasks : \E n \in RetryCounts : row[t].tries <= n + 1

(* CONTEXT.md, "Automatic email retry count": the maximum number of        *)
(* automatic delivery retries after the initial attempt, whatever happens. *)
RetryCountIsMaximum ==
  \A t \in Tasks : \E n \in RetryCounts : row[t].tries <= n + 1

(* An attempt recorded as sent is never rewritten by a sweep, by a later   *)
(* claim or by a worker that reports late; it goes only with its task.     *)
SentAttemptsStand ==
  [][\A a \in attempts : a.outcome = "sent" =>
        a \in attempts' \/ row'[a.task].status = "gone"]_vars

(* A deleted task stays deleted: no late result brings back its row or its *)
(* history (RecordMailAttempt: "cannot be resurrected").                   *)
DeletedStaysDeleted ==
  \A t \in Tasks : row[t].status = "gone" => \A a \in attempts : a.task # t

(* mailTaskStatusSQL, with the rows that do not exist. *)
Shown(t) ==
  CASE row[t].status = "none"                                  -> "absent"
    [] row[t].status = "gone"                                  -> "deleted"
    [] row[t].status = "sent"                                  -> "sent"
    [] row[t].status \in {"dead", "canceled"}                  -> "failed"
    [] Open(t) /\ Leased(t)                                    -> "sending"
    [] Open(t) /\ ~Leased(t) /\ row[t].from = "future"                  -> "waiting_retry"
    [] OTHER                                                   -> "queued"

Task == INSTANCE MailTask WITH
  shown <- [t \in Tasks |-> Shown(t)],
  delivered <- {a.task : a \in accepted}

(* The outbox implements the life of a task that administrators are shown. *)
ImplementsMailTask == Task!TaskSpec

(* Every task in the queue, legacy or sealed, is finished or deleted in    *)
(* the end: faults and new rounds are finite here, retries by their        *)
(* budget, and the lease of a lost job runs out.                           *)
EveryTaskFinishes == \A t \in Tasks : Open(t) ~> ~Open(t)

-----------------------------------------------------------------------------
(* The inductive invariant behind the properties above *)

(* <<r1, n1>> is the attempt <<r2, n2>> of a task or an earlier one. *)
NotAfter(r1, n1, r2, n2) == r1 < r2 \/ (r1 = r2 /\ n1 <= n2)

LeaseIsLatest == \A t \in Tasks : row[t].lease \in {0, row[t].total}

NewRowsUntried == \A t \in Tasks : row[t].status = "none" => row[t].tries = 0

JobsBehindRows ==
  \A w \in Workers : pc[w] \in Busy =>
    LET j == job[w]  r == row[job[w].task] IN
    /\ r.status # "none" /\ j.number > 0 /\ j.lease > 0
    /\ Exists(j.task) => j.lease <= r.total /\ NotAfter(j.round, j.number, r.round, r.tries)

SameAttempt(k1, k2) == k1.task = k2.task /\ k1.round = k2.round /\ k1.number = k2.number

JobsDistinct ==
  \A v, w \in Workers :
    v # w /\ pc[v] \in Busy /\ pc[w] \in Busy => ~SameAttempt(job[v], job[w])

AttemptsBehindRows ==
  \A a \in attempts :
    /\ Exists(a.task)
    /\ NotAfter(a.round, a.number, row[a.task].round, row[a.task].tries)

JobsNotRecordedSent ==
  \A w \in Workers, a \in attempts :
    pc[w] \in Busy /\ SameAttempt(a, job[w]) => a.outcome = "failed"

SuccessWasAccepted ==
  \A w \in Workers :
    pc[w] \in {"ack", "record"} /\ plan[w] = "sent" =>
      \E b \in accepted : SameAttempt(b, job[w])

IInv ==
  /\ TypeOK
  /\ LeaseIsLatest
  /\ NewRowsUntried
  /\ JobsBehindRows
  /\ LeaseIdentity
  /\ JobsDistinct
  /\ AttemptsBehindRows
  /\ JobsNotRecordedSent
  /\ SuccessWasAccepted
  /\ HistoryComplete
  /\ SentIsBacked

=============================================================================
