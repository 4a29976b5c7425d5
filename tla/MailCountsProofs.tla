-------------------------- MODULE MailCountsProofs --------------------------
(***************************************************************************)
(* What MailOutbox counts, for any tasks, dispatchers and settings:        *)
(* attempts of a round against the retry budget, copies of a message       *)
(* against faults, and the history against the lifetime counter.           *)
(*                                                                         *)
(* Budget: without faults a lease has a worker that holds it, so a row     *)
(* without one was given back under the budget.  Copies: a delivery is     *)
(* charged to a fault, but for the one a live lease still hopes for or a   *)
(* sent row has had.  History: one attempt per claim, missing at most the  *)
(* last one.                                                               *)
(***************************************************************************)
EXTENDS MailOutboxProofs, FiniteSetTheorems

-----------------------------------------------------------------------------
(* The retry budget *)

Affordable(n) == \E c \in RetryCounts : n <= c

(* A worker that has to record late lost its lease for good.               *)
LateWorkersDoNotOwn ==
  \A w \in Workers : pc[w] = "record" => row[job[w].task].lease # job[w].lease

PlansAreMade ==
  \A w \in Workers : pc[w] = "ack" => plan[w] # "none"

LeasesAreHeld ==
  \A t \in Tasks : row[t].lease # 0 => row[t].until = "future" /\ \E w \in Workers : Holds(w, t)

RowsAreAffordable ==
  \A t \in Tasks :
    /\ Open(t) /\ row[t].lease = 0 => Affordable(row[t].tries)
    /\ \E n \in RetryCounts : row[t].tries <= n + 1

RetriesAreAffordable ==
  \A w \in Workers : pc[w] = "ack" /\ plan[w] = "retry" => Affordable(job[w].number)

Frugal == LeasesAreHeld /\ RowsAreAffordable /\ RetriesAreAffordable

BudgetInv == LateWorkersDoNotOwn /\ PlansAreMade /\ (faults = 0 => Frugal)

LEMMA ZeroIsAffordable == Affordable(0) /\ \E n \in RetryCounts : 0 <= n + 1
<1>1. PICK n \in RetryCounts : n \in Nat
  BY RetryCountsAssumption
<1>2. 0 <= n /\ 0 <= n + 1
  BY <1>1
<1> QED
  BY <1>2 DEF Affordable

LEMMA InitBudget == Init => BudgetInv
<1> SUFFICES ASSUME Init PROVE BudgetInv
  OBVIOUS
<1>1. \A t \in Tasks : row[t].lease = 0 /\ row[t].tries = 0
  BY DEF Init, InitialRow
<1> QED
  BY <1>1, ZeroIsAffordable
     DEF Init, BudgetInv, LateWorkersDoNotOwn, PlansAreMade, Frugal, LeasesAreHeld,
         RowsAreAffordable, RetriesAreAffordable

(* Steps that hand out no lease and take the job of no worker: a row keeps *)
(* its lease and its counter, or loses the lease and its place in the      *)
(* queue, or starts a round.                                               *)
LEMMA RowStepsKeepBudget ==
  ASSUME IInv, BudgetInv, UNCHANGED <<job, plan, faults>>,
         \A w \in Workers : pc'[w] = pc[w] \/ (pc[w] \notin Busy /\ pc'[w] \notin Busy),
         \A t \in Tasks :
           \/ /\ row'[t].lease = row[t].lease /\ row'[t].until = row[t].until
              /\ row'[t].tries = row[t].tries
              /\ row'[t].status = row[t].status \/ row[t].tries = 0
           \/ /\ row'[t].lease = 0
              /\ row'[t].tries = 0 \/ (row'[t].status # "open" /\ row'[t].tries = row[t].tries)
  PROVE  BudgetInv'
<1>0. \A w \in Workers : pc[w] \in Busy => job[w].task \in Tasks /\ job[w].lease # 0
  BY DEF IInv, TypeOK, Busy, Job, JobsBehindRows
<1>1. LateWorkersDoNotOwn'
  BY <1>0 DEF BudgetInv, LateWorkersDoNotOwn, Busy
<1>2. PlansAreMade'
  BY DEF BudgetInv, PlansAreMade, Busy
<1>3. ASSUME faults = 0 PROVE LeasesAreHeld'
  <2>1. LeasesAreHeld
    BY <1>3 DEF BudgetInv, Frugal
  <2>2. ASSUME NEW t \in Tasks, row'[t].lease # 0
        PROVE  row'[t].until = "future" /\ \E w \in Workers : Holds(w, t)'
    <3>1. row'[t].lease = row[t].lease /\ row'[t].until = row[t].until
      BY <2>2
    <3>2. PICK w \in Workers : Holds(w, t)
      BY <2>1, <2>2, <3>1 DEF LeasesAreHeld
    <3>3. Holds(w, t)'
      BY <3>1, <3>2 DEF Holds
    <3> QED
      BY <2>1, <2>2, <3>1, <3>3 DEF LeasesAreHeld
  <2> QED
    BY <2>2 DEF LeasesAreHeld
<1>4. ASSUME faults = 0 PROVE RowsAreAffordable'
  <2>1. RowsAreAffordable
    BY <1>4 DEF BudgetInv, Frugal
  <2> QED
    BY <2>1, ZeroIsAffordable DEF RowsAreAffordable, Open, Affordable
<1>5. ASSUME faults = 0 PROVE RetriesAreAffordable'
  BY <1>5 DEF BudgetInv, Frugal, RetriesAreAffordable, Affordable, Busy
<1> QED
  BY <1>1, <1>2, <1>3, <1>4, <1>5 DEF BudgetInv, Frugal

LEMMA RowEventsKeepBudget ==
  ASSUME IInv, BudgetInv,
         \/ \E t \in Tasks : Enqueue(t) \/ Supersede(t) \/ RetryMailTask(t)
                             \/ BackoffPasses(t) \/ LegacyLapses(t)
         \/ \E w \in Workers : SweepMail(w) \/ ClaimNothing(w)
         \/ \E n \in RetryCounts : SetRetryCount(n)
  PROVE  BudgetInv'
<1>0. /\ row \in [Tasks -> Row] /\ pc \in [Workers -> Places]
      /\ \A t \in Tasks : row[t].status = "none" => row[t].tries = 0
  BY DEF IInv, TypeOK, NewRowsUntried
<1>1. UNCHANGED <<job, plan, faults>>
  BY DEF Enqueue, Supersede, RetryMailTask, BackoffPasses, LegacyLapses, SweepMail, ClaimNothing,
         SetRetryCount, worker, observers
<1>2. \A w \in Workers : pc'[w] = pc[w] \/ (pc[w] \notin Busy /\ pc'[w] \notin Busy)
  BY <1>0 DEF Enqueue, Supersede, RetryMailTask, BackoffPasses, LegacyLapses, SweepMail, ClaimNothing,
         SetRetryCount, worker, Goto, Busy
<1>3. ASSUME NEW t \in Tasks
      PROVE  \/ /\ row'[t].lease = row[t].lease /\ row'[t].until = row[t].until
                /\ row'[t].tries = row[t].tries
                /\ row'[t].status = row[t].status \/ row[t].tries = 0
             \/ /\ row'[t].lease = 0
                /\ row'[t].tries = 0 \/ (row'[t].status # "open" /\ row'[t].tries = row[t].tries)
  <2>1. row[t] \in Row
    BY <1>0
  <2>2. \/ row'[t] = row[t]
        \/ row[t].status = "none" /\ row'[t] = [row[t] EXCEPT !.status = "open"]
        \/ row'[t] = [row[t] EXCEPT !.status = "canceled", !.lease = 0, !.until = "null"]
        \/ row'[t] = [row[t] EXCEPT !.status = "open", !.from = "past", !.lease = 0, !.until = "null",
                         !.round = row[t].round + 1, !.tries = 0]
        \/ row'[t] = [row[t] EXCEPT !.from = "past"]
        \/ row'[t] = [row[t] EXCEPT !.expiry = "past"]
    <3>1. CASE \E s \in Tasks : Enqueue(s) \/ Supersede(s) \/ RetryMailTask(s)
      <4>1. PICK s \in Tasks : Enqueue(s) \/ Supersede(s) \/ RetryMailTask(s)
        BY <3>1
      <4>2. CASE t # s
        BY <1>0, <4>1, <4>2 DEF Enqueue, Supersede, RetryMailTask
      <4>3. CASE t = s
        BY <1>0, <4>1, <4>3 DEF Enqueue, Supersede, RetryMailTask
      <4> QED
        BY <4>2, <4>3
    <3>2. CASE \E s \in Tasks : BackoffPasses(s) \/ LegacyLapses(s)
      BY <1>0, <3>2 DEF BackoffPasses, LegacyLapses
    <3>3. CASE \E w \in Workers : SweepMail(w)
      BY <1>0, <3>3 DEF SweepMail
    <3>4. CASE UNCHANGED row
      BY <3>4
    <3> QED
      BY <3>1, <3>2, <3>3, <3>4 DEF ClaimNothing, SetRetryCount
  <2> QED
    BY <1>0, <2>1, <2>2 DEF Row
<1> QED
  BY <1>1, <1>2, <1>3, RowStepsKeepBudget

LEMMA RemovalKeepsBudget ==
  ASSUME IInv, BudgetInv, NEW doomed \in SUBSET Tasks, Remove(doomed),
         UNCHANGED <<job, plan, faults>>,
         \A w \in Workers : pc'[w] = pc[w] \/ (pc[w] \notin Busy /\ pc'[w] \notin Busy)
  PROVE  BudgetInv'
<1>1. \A t \in Tasks :
        row'[t] = row[t] \/ (row'[t].lease = 0 /\ row'[t].tries = 0)
  BY DEF Remove, InitialRow
<1> QED
  BY <1>1, RowStepsKeepBudget

(* A lease that lapses without a fault would have had a holder.            *)
LEMMA LapseKeepsBudget ==
  ASSUME IInv, BudgetInv, NEW t \in Tasks, LeaseLapses(t)
  PROVE  BudgetInv'
<1>1. faults' # 0
  BY DEF BudgetInv, Frugal, LeasesAreHeld, LeaseLapses, Leased, IInv, TypeOK
<1>2. /\ row \in [Tasks -> Row] /\ UNCHANGED <<pc, job, plan>>
      /\ \A s \in Tasks : row'[s].lease = row[s].lease
  BY DEF IInv, TypeOK, LeaseLapses, worker, Row
<1>3. \A w \in Workers : pc[w] = "record" => job[w].task \in Tasks
  BY DEF IInv, TypeOK, Busy, Job
<1> QED
  BY <1>1, <1>2, <1>3 DEF BudgetInv, LateWorkersDoNotOwn, PlansAreMade

(* A claim finds the row without a lease, hence affordable, and holds it.  *)
LEMMA ClaimKeepsBudget ==
  ASSUME IInv, BudgetInv, NEW w \in Workers, NEW t \in Tasks, ClaimMail(w, t)
  PROVE  BudgetInv'
<1>0. /\ row \in [Tasks -> Row] /\ row[t] \in Row /\ Open(t) /\ pc[w] = "claim"
      /\ pc \in [Workers -> Places] /\ job \in [Workers -> Job \cup {NoJob}]
      /\ UNCHANGED <<plan, faults>>
  BY DEF IInv, TypeOK, ClaimMail, Claimable, observers
<1>1. /\ row'[t].status = "open" /\ row'[t].tries = row[t].tries + 1
      /\ row'[t].lease = row[t].total + 1 /\ row'[t].until = "future"
      /\ \A s \in Tasks : s # t => row'[s] = row[s]
  <2>1. row' = [row EXCEPT ![t] =
          [row[t] EXCEPT !.tries = row[t].tries + 1, !.total = row[t].total + 1,
                    !.lease = row[t].total + 1, !.until = "future"]]
    BY DEF ClaimMail
  <2> QED
    BY <1>0, <2>1 DEF Row, Open
<1>2. /\ pc'[w] = "deliver" /\ job'[w].task = t /\ job'[w].lease = row[t].total + 1
      /\ \A v \in Workers : v # w => pc'[v] = pc[v] /\ job'[v] = job[v]
  BY <1>0 DEF ClaimMail, Goto
<1>3. row[t].tries \in Nat /\ row[t].total \in Nat
  BY <1>0 DEF Row
<1>4. LateWorkersDoNotOwn'
  <2> SUFFICES ASSUME NEW v \in Workers, pc'[v] = "record"
               PROVE  row'[job'[v].task].lease # job'[v].lease
    BY DEF LateWorkersDoNotOwn
  <2>1. v # w /\ pc[v] = "record" /\ job'[v] = job[v] /\ job[v] \in Job
    BY <1>2 DEF IInv, TypeOK, Busy
  <2>2. CASE job[v].task = t
    <3>1. job[v].lease <= row[t].total /\ job[v].lease \in Nat
      BY <1>0, <2>1, <2>2 DEF IInv, JobsBehindRows, Exists, Open, Busy, Job
    <3> QED
      BY <1>1, <1>3, <2>1, <2>2, <3>1
  <2>3. CASE job[v].task # t
    <3>1. row'[job[v].task] = row[job[v].task]
      BY <1>1, <2>1, <2>3 DEF Job
    <3> QED
      BY <2>1, <3>1 DEF BudgetInv, LateWorkersDoNotOwn
  <2> QED
    BY <2>2, <2>3
<1>5. PlansAreMade'
  BY <1>0, <1>2 DEF BudgetInv, PlansAreMade
<1>6. ASSUME faults = 0 PROVE Frugal'
  <2>0. LeasesAreHeld /\ RowsAreAffordable /\ RetriesAreAffordable
    BY <1>6 DEF BudgetInv, Frugal
  <2>1. row[t].lease = 0
    BY <2>0 DEF ClaimMail, Claimable, Leased, LeasesAreHeld
  <2>2. LeasesAreHeld'
    <3>1. \A s \in Tasks, v \in Workers : s # t /\ Holds(v, s) => Holds(v, s)'
      BY <1>0, <1>1, <1>2 DEF Holds, Busy
    <3>2. Holds(w, t)'
      BY <1>1, <1>2 DEF Holds, Busy
    <3> QED
      BY <1>1, <2>0, <3>1, <3>2 DEF LeasesAreHeld
  <2>3. RowsAreAffordable'
    <3>1. PICK c \in RetryCounts : row[t].tries <= c
      BY <1>0, <2>0, <2>1 DEF RowsAreAffordable, Affordable
    <3>2. row'[t].tries <= c + 1
      BY <1>1, <1>3, <3>1, RetryCountsAssumption
    <3> QED
      BY <1>1, <1>3, <2>0, <3>2 DEF RowsAreAffordable, Open, Affordable
  <2>4. RetriesAreAffordable'
    BY <1>0, <1>2, <2>0 DEF RetriesAreAffordable, Affordable
  <2> QED
    BY <2>2, <2>3, <2>4 DEF Frugal
<1> QED
  BY <1>0, <1>4, <1>5, <1>6 DEF BudgetInv

(* Steps of a worker that keeps its job.                                   *)
LEMMA WorkerEventsKeepBudget ==
  ASSUME IInv, BudgetInv, NEW w \in Workers,
         Deliver(w) \/ Choose(w) \/ AcknowledgeTooLate(w)
  PROVE  BudgetInv'
<1>0. /\ UNCHANGED <<row, job>> /\ pc[w] \in Busy /\ pc'[w] \in Busy /\ job[w] \in Job
      /\ pc \in [Workers -> Places] /\ plan \in [Workers -> Plans]
      /\ \A v \in Workers : v # w => pc'[v] = pc[v] /\ plan'[v] = plan[v]
      /\ faults' = 0 => faults = 0
  BY DEF IInv, TypeOK, Deliver, SendSucceeds, SendReplyLost, SendFailsTemporarily,
         SendFailsPermanently, MaterialInvalid, Reach, Composable, Accept, Choose, Decide,
         DecideBlind, AcknowledgeTooLate, Goto, observers, Busy
<1>1. /\ pc'[w] = "record" => row[job[w].task].lease # job[w].lease
      /\ pc'[w] = "ack" => plan'[w] # "none"
      /\ pc'[w] = "ack" /\ plan'[w] = "retry" => WithinBudget(w)
  <2>1. CASE Deliver(w)
    BY <1>0, <2>1 DEF Deliver, SendSucceeds, SendReplyLost, SendFailsTemporarily,
         SendFailsPermanently, MaterialInvalid, Reach, Goto
  <2>2. CASE Choose(w)
    BY <1>0, <2>2 DEF Choose, Decide, DecideBlind, Goto
  <2>3. CASE AcknowledgeTooLate(w)
    <3>1. /\ pc[w] = "ack" /\ ~Owns(w) /\ pc'[w] = "record" /\ job[w].lease # 0
          /\ job[w].task \in Tasks
      BY <1>0, <2>3 DEF AcknowledgeTooLate, Goto, IInv, JobsBehindRows, Busy, Job
    <3>2. row[job[w].task].lease # 0 => Open(job[w].task)
      BY <3>1 DEF IInv, TypeOK
    <3> QED
      BY <3>1, <3>2 DEF Owns
  <2> QED
    BY <2>1, <2>2, <2>3
<1>2. LateWorkersDoNotOwn' /\ PlansAreMade'
  BY <1>0, <1>1 DEF BudgetInv, LateWorkersDoNotOwn, PlansAreMade
<1>3. ASSUME faults' = 0 PROVE Frugal'
  <2>0. LeasesAreHeld /\ RowsAreAffordable /\ RetriesAreAffordable
    BY <1>0, <1>3 DEF BudgetInv, Frugal
  <2>1. \A v \in Workers, t \in Tasks : Holds(v, t) => Holds(v, t)'
    BY <1>0 DEF Holds
  <2>2. LeasesAreHeld' /\ RowsAreAffordable'
    BY <1>0, <2>0, <2>1 DEF LeasesAreHeld, RowsAreAffordable, Open, Affordable
  <2>3. WithinBudget(w) => Affordable(job[w].number)
    <3>1. job[w].number \in Nat /\ retryCount \in RetryCounts /\ retryCount \in Nat
      BY <1>0, RetryCountsAssumption DEF Job, IInv, TypeOK
    <3> QED
      BY <3>1 DEF WithinBudget, Affordable
  <2>4. RetriesAreAffordable'
    BY <1>0, <1>1, <2>0, <2>3 DEF RetriesAreAffordable, Affordable
  <2> QED
    BY <2>2, <2>4 DEF Frugal
<1> QED
  BY <1>2, <1>3 DEF BudgetInv

(* The attempt of a row that goes back to the queue was affordable.        *)
LEMMA AcknowledgeKeepsBudget ==
  ASSUME IInv, BudgetInv, NEW w \in Workers, Acknowledge(w)
  PROVE  BudgetInv'
<1> SUFFICES ASSUME NEW t, t = job[w].task PROVE BudgetInv'
  OBVIOUS
<1>0. /\ pc[w] = "ack" /\ t \in Tasks /\ row[t] \in Row /\ Open(t) /\ plan[w] \in Plans
      /\ row[t].tries = job[w].number /\ row \in [Tasks -> Row]
  BY DEF IInv, TypeOK, Acknowledge, Owns, Busy, Job, LeaseIdentity
<1>1. /\ pc'[w] = "idle" /\ faults' = faults
      /\ \A v \in Workers : v # w => pc'[v] = pc[v] /\ job'[v] = job[v] /\ plan'[v] = plan[v]
  BY DEF IInv, TypeOK, Acknowledge, Settle, Goto, observers
<1>2. /\ row'[t] = Acknowledged(row[t], plan[w]) /\ row'[t].lease = 0
      /\ row'[t].tries = row[t].tries
      /\ \A s \in Tasks : s # t => row'[s] = row[s]
  BY <1>0, AcknowledgedRow DEF Acknowledge
<1>3. LateWorkersDoNotOwn'
  <2>1. \A v \in Workers : pc[v] = "record" => job[v].task \in Tasks /\ job[v].lease # 0
    BY DEF IInv, TypeOK, Busy, Job, JobsBehindRows
  <2> QED
    BY <1>1, <1>2, <2>1 DEF BudgetInv, LateWorkersDoNotOwn
<1>4. PlansAreMade'
  BY <1>1 DEF BudgetInv, PlansAreMade
<1>5. ASSUME faults = 0 PROVE Frugal'
  <2>0. LeasesAreHeld /\ RowsAreAffordable /\ RetriesAreAffordable
    BY <1>5 DEF BudgetInv, Frugal
  <2>1. LeasesAreHeld'
    <3>1. \A s \in Tasks, v \in Workers : s # t /\ Holds(v, s) => Holds(v, s)'
      BY <1>1, <1>2 DEF Holds
    <3> QED
      BY <1>2, <2>0, <3>1 DEF LeasesAreHeld
  <2>2. row'[t].status = "open" => plan[w] = "retry"
    BY <1>0, <1>2 DEF Acknowledged, Row, Plans, BudgetInv, PlansAreMade
  <2>3. RowsAreAffordable'
    BY <1>0, <1>2, <2>0, <2>2 DEF RowsAreAffordable, RetriesAreAffordable, Open, Affordable
  <2>4. RetriesAreAffordable'
    BY <1>1, <2>0 DEF RetriesAreAffordable, Affordable
  <2> QED
    BY <2>1, <2>3, <2>4 DEF Frugal
<1> QED
  BY <1>1, <1>3, <1>4, <1>5 DEF BudgetInv

(* A worker that goes idle takes no lease along: it is late, or a fault.   *)
LEMMA SettlingKeepsBudget ==
  ASSUME IInv, BudgetInv, NEW w \in Workers, RecordMailAttempt(w) \/ LoseJob(w)
  PROVE  BudgetInv'
<1>0. /\ pc'[w] = "idle" /\ UNCHANGED row
      /\ \A v \in Workers : v # w => pc'[v] = pc[v] /\ job'[v] = job[v] /\ plan'[v] = plan[v]
      /\ faults' = 0 => faults = 0 /\ pc[w] = "record"
  BY DEF IInv, TypeOK, RecordMailAttempt, LoseJob, Settle, Goto, observers
<1>1. LateWorkersDoNotOwn' /\ PlansAreMade'
  BY <1>0 DEF BudgetInv, LateWorkersDoNotOwn, PlansAreMade
<1>2. ASSUME faults' = 0 PROVE Frugal'
  <2>0. LeasesAreHeld /\ RowsAreAffordable /\ RetriesAreAffordable
    BY <1>0, <1>2 DEF BudgetInv, Frugal
  <2>1. \A v \in Workers, t \in Tasks : Holds(v, t) => v # w
    BY <1>0, <1>2 DEF BudgetInv, LateWorkersDoNotOwn, Holds
  <2>2. LeasesAreHeld'
    <3>1. \A v \in Workers, t \in Tasks : Holds(v, t) => Holds(v, t)'
      BY <1>0, <2>1 DEF Holds
    <3> QED
      BY <1>0, <2>0, <3>1 DEF LeasesAreHeld
  <2>3. RowsAreAffordable' /\ RetriesAreAffordable'
    BY <1>0, <2>0 DEF RowsAreAffordable, RetriesAreAffordable, Open, Affordable
  <2> QED
    BY <2>2, <2>3 DEF Frugal
<1> QED
  BY <1>1, <1>2 DEF BudgetInv

LEMMA NextKeepsBudget ==
  ASSUME IInv, BudgetInv, [Next]_vars
  PROVE  BudgetInv'
<1>1. ASSUME NEW t \in Tasks, DeleteMailTask(t) PROVE BudgetInv'
  BY <1>1, RemovalKeepsBudget DEF DeleteMailTask, worker, observers
<1>2. ASSUME NEW w \in Workers, CleanupMail(w) PROVE BudgetInv'
  <2>1. PICK doomed \in SUBSET Tasks : Remove(doomed)
    BY <1>2 DEF CleanupMail
  <2>2. \A v \in Workers : pc'[v] = pc[v] \/ (pc[v] \notin Busy /\ pc'[v] \notin Busy)
    BY <1>2 DEF CleanupMail, Goto, Busy, IInv, TypeOK
  <2> QED
    BY <1>2, <2>1, <2>2, RemovalKeepsBudget DEF CleanupMail, observers
<1>3. ASSUME UNCHANGED vars PROVE BudgetInv'
  BY <1>3 DEF vars, BudgetInv, LateWorkersDoNotOwn, PlansAreMade, Frugal, LeasesAreHeld, Holds,
              RowsAreAffordable, RetriesAreAffordable, Affordable, Open
<1> QED
  BY <1>1, <1>2, <1>3, RowEventsKeepBudget, LapseKeepsBudget, ClaimKeepsBudget,
     WorkerEventsKeepBudget, AcknowledgeKeepsBudget, SettlingKeepsBudget
     DEF Next, Administer, TimePasses, ProcessOnce, Claim, Finish

(* MailDispatcher.handleDeliveryFailure reads the policy once per failure: *)
(* without crashes and outrun leases no round goes past the budget.        *)
THEOREM AttemptsStayInBudget == Spec => []BudgetKept
<1>1. IInv /\ BudgetInv => BudgetKept
  BY DEF BudgetInv, Frugal, RowsAreAffordable, BudgetKept
<1> QED
  BY <1>1, InitIInv, InitBudget, NextKeepsIInv, NextKeepsBudget, PTL DEF Spec

-----------------------------------------------------------------------------
(* Copies *)

KeyOf(w) == [task |-> job[w].task, round |-> job[w].round, number |-> job[w].number]

Delivering(w) == pc[w] = "deliver"

(* Messages SMTP has taken, and those it may be taking.                    *)
Charges(t) ==
  {a \in accepted : a.task = t} \cup {KeyOf(w) : w \in {v \in Workers : Delivering(v) /\ job[v].task = t}}

(* The worker that has the lease may yet write a success.                  *)
Promising(w) == pc[w] = "deliver" \/ (pc[w] = "ack" /\ plan[w] = "sent")

Hopeful(t) == Leased(t) /\ \E w \in Workers : Holds(w, t) /\ Promising(w)

Settled(t) == row[t].status \in {"sent", "gone"}

AcceptedBehindRows ==
  \A a \in accepted :
    /\ a.task \notin Legacy
    /\ row[a.task].status # "none"
    /\ Exists(a.task) => NotAfter(a.round, a.number, row[a.task].round, row[a.task].tries)

DeliveriesAreNew == \A w \in Workers : Delivering(w) => KeyOf(w) \notin accepted

Covered(t) ==
  /\ IsFiniteSet(Charges(t))
  /\ Cardinality(Charges(t)) <= faults + 1
  /\ Cardinality(Charges(t)) <= faults \/ Settled(t) \/ Hopeful(t)

ChargesAreCovered == \A t \in Tasks \ Legacy : Covered(t)

CopiesInv == AcceptedBehindRows /\ DeliveriesAreNew /\ ChargesAreCovered

LEMMA ChargesAre ==
  \A t, k : k \in Charges(t) <=>
    \/ k \in accepted /\ k.task = t
    \/ \E w \in Workers : Delivering(w) /\ job[w].task = t /\ k = KeyOf(w)
BY DEF Charges

LEMMA ChargesAreNext ==
  (\A t, k : k \in Charges(t) <=>
    \/ k \in accepted /\ k.task = t
    \/ \E w \in Workers : Delivering(w) /\ job[w].task = t /\ k = KeyOf(w))'
BY ChargesAre, PTL

LEMMA InitCopies == Init => CopiesInv
<1> SUFFICES ASSUME Init PROVE CopiesInv
  OBVIOUS
<1>1. AcceptedBehindRows /\ DeliveriesAreNew
  BY DEF Init, AcceptedBehindRows, DeliveriesAreNew, Delivering
<1>2. ASSUME NEW t \in Tasks \ Legacy PROVE Covered(t)
  <2>1. Charges(t) = {}
    BY ChargesAre DEF Init, Delivering
  <2> QED
    BY <2>1, FS_EmptySet DEF Covered, Init
<1> QED
  BY <1>1, <1>2 DEF CopiesInv, ChargesAreCovered

(* A task stays covered unless it is charged anew, or hope is lost without *)
(* a fault.                                                                *)
LEMMA NoChargeKeepsCovered ==
  ASSUME IInv, NEW t, Covered(t), Charges(t)' \subseteq Charges(t), faults' \in Nat, faults <= faults',
         Settled(t) => Settled(t)',
         Hopeful(t) => Hopeful(t)' \/ Settled(t)' \/ faults < faults'
  PROVE  Covered(t)'
<1> SUFFICES ASSUME NEW old, NEW new, old = Charges(t), new = Charges(t)'
             PROVE  Covered(t)'
  OBVIOUS
<1>1. /\ IsFiniteSet(new) /\ Cardinality(new) <= Cardinality(old)
      /\ Cardinality(new) \in Nat /\ Cardinality(old) \in Nat
  BY FS_Subset, FS_CardinalityType DEF Covered
<1>2. faults \in Nat
  BY DEF IInv, TypeOK
<1>3. Cardinality(new) <= faults' + 1
  BY <1>1, <1>2 DEF Covered
<1>4. Cardinality(new) <= faults' \/ Settled(t)' \/ Hopeful(t)'
  BY <1>1, <1>2 DEF Covered
<1> QED
  BY <1>1, <1>3, <1>4 DEF Covered

Undisturbed ==
  \A w \in Workers : pc'[w] = pc[w] \/ (pc[w] \notin Busy /\ pc'[w] \notin Busy)

(* Steps that change rows, but hand out no lease.                          *)
LEMMA RowStepsKeepCopies ==
  ASSUME IInv, CopiesInv, UNCHANGED <<accepted, job, plan>>, Undisturbed,
         faults' \in Nat, faults <= faults',
         \A t \in Tasks :
           /\ row[t].status # "none" => row'[t].status # "none"
           /\ Exists(t)' => \/ row[t].status = "none"
                            \/ /\ row[t].round \in Nat /\ row[t].tries \in Nat
                               /\ row'[t].round \in Nat /\ row'[t].tries \in Nat
                               /\ Exists(t)
                               /\ NotAfter(row[t].round, row[t].tries, row'[t].round, row'[t].tries)
           /\ t \notin Legacy /\ Settled(t) => Settled(t)'
           /\ t \notin Legacy /\ Leased(t) =>
                \/ row'[t].lease = row[t].lease /\ row'[t].until = row[t].until
                \/ Settled(t)' \/ faults < faults' \/ \A w \in Workers : ~Holds(w, t)
  PROVE  CopiesInv'
<1>1. AcceptedBehindRows'
  <2> SUFFICES ASSUME NEW a \in accepted
               PROVE  /\ a.task \notin Legacy
                      /\ row'[a.task].status # "none"
                      /\ Exists(a.task)' =>
                           NotAfter(a.round, a.number, row'[a.task].round, row'[a.task].tries)
    BY DEF AcceptedBehindRows, Exists
  <2>1. a.task \in Tasks /\ a.round \in Nat /\ a.number \in Nat
    BY DEF IInv, TypeOK, Key
  <2> QED
    BY <2>1 DEF CopiesInv, AcceptedBehindRows, NotAfter
<1>2. DeliveriesAreNew'
  BY DEF CopiesInv, DeliveriesAreNew, Delivering, KeyOf, Undisturbed, Busy
<1>3. ASSUME NEW t \in Tasks \ Legacy PROVE Covered(t)'
  <2>1. Charges(t)' \subseteq Charges(t)
    <3> SUFFICES ASSUME NEW k \in Charges(t)' PROVE k \in Charges(t)
      OBVIOUS
    <3>1. \A w \in Workers : Delivering(w)' => Delivering(w)
      BY DEF Undisturbed, Delivering, Busy
    <3> QED
      BY <3>1, ChargesAre, ChargesAreNext DEF KeyOf
  <2>2. Hopeful(t) => Hopeful(t)' \/ Settled(t)' \/ faults < faults'
    BY DEF Hopeful, Promising, Holds, Leased, Undisturbed, Busy
  <2> QED
    BY <2>1, <2>2, NoChargeKeepsCovered DEF CopiesInv, ChargesAreCovered
<1> QED
  BY <1>1, <1>2, <1>3 DEF CopiesInv, ChargesAreCovered

LEMMA RowEventsKeepCopies ==
  ASSUME IInv, CopiesInv,
         \/ \E t \in Tasks : Enqueue(t) \/ Supersede(t) \/ RetryMailTask(t) \/ TimePasses(t)
         \/ \E w \in Workers : SweepMail(w) \/ ClaimNothing(w)
         \/ \E n \in RetryCounts : SetRetryCount(n)
  PROVE  CopiesInv'
<1>0. /\ row \in [Tasks -> Row] /\ pc \in [Workers -> Places] /\ faults \in Nat
      /\ \A t \in Tasks : row[t].lease # 0 => row[t].status = "open"
  BY DEF IInv, TypeOK, Open
<1>1. UNCHANGED <<accepted, job, plan>> /\ faults' \in {faults, faults + 1}
  BY DEF Enqueue, Supersede, RetryMailTask, TimePasses, LeaseLapses, BackoffPasses,
         LegacyLapses, SweepMail, ClaimNothing, SetRetryCount, worker, observers
<1>2. Undisturbed
  BY <1>0 DEF Enqueue, Supersede, RetryMailTask, TimePasses, LeaseLapses, BackoffPasses,
         LegacyLapses, SweepMail, ClaimNothing, SetRetryCount, worker, Goto, Busy, Undisturbed
<1>3. ASSUME NEW t \in Tasks
      PROVE  \/ row'[t] = row[t]
             \/ row[t].status = "none" /\ row'[t] = [row[t] EXCEPT !.status = "open"]
             \/ /\ t \in Legacy /\ Open(t)
                /\ row'[t] = [row[t] EXCEPT !.status = "canceled", !.lease = 0, !.until = "null"]
             \/ /\ row[t].status \in {"canceled", "dead"}
                /\ row'[t] = [row[t] EXCEPT !.status = "open", !.from = "past", !.lease = 0,
                                !.until = "null", !.round = row[t].round + 1, !.tries = 0]
             \/ row'[t] = [row[t] EXCEPT !.from = "past"]
             \/ row'[t] = [row[t] EXCEPT !.expiry = "past"]
             \/ /\ row'[t] = [row[t] EXCEPT !.until = "past"]
                /\ faults < faults' \/ \A w \in Workers : ~Holds(w, t)
  <2>1. ASSUME NEW s \in Tasks,
               Enqueue(s) \/ Supersede(s) \/ RetryMailTask(s) \/ TimePasses(s), t # s
        PROVE  row'[t] = row[t]
    BY <1>0, <2>1 DEF Enqueue, Supersede, RetryMailTask, TimePasses, LeaseLapses, BackoffPasses,
                      LegacyLapses
  <2>2. CASE Enqueue(t) \/ Supersede(t) \/ RetryMailTask(t)
    BY <1>0, <2>2 DEF Enqueue, Supersede, RetryMailTask
  <2>3. CASE TimePasses(t)
    BY <1>0, <2>3 DEF TimePasses, LeaseLapses, BackoffPasses, LegacyLapses
  <2>4. CASE \E w \in Workers : SweepMail(w)
    BY <1>0, <2>4 DEF SweepMail
  <2>5. CASE UNCHANGED row
    BY <2>5
  <2> QED
    BY <2>1, <2>2, <2>3, <2>4, <2>5 DEF ClaimNothing, SetRetryCount
<1>4. ASSUME NEW t \in Tasks
      PROVE  /\ row[t].status # "none" => row'[t].status # "none"
             /\ Exists(t)' => \/ row[t].status = "none"
                              \/ /\ row[t].round \in Nat /\ row[t].tries \in Nat
                                 /\ row'[t].round \in Nat /\ row'[t].tries \in Nat
                                 /\ Exists(t)
                                 /\ NotAfter(row[t].round, row[t].tries, row'[t].round, row'[t].tries)
             /\ t \notin Legacy /\ Settled(t) => Settled(t)'
             /\ t \notin Legacy /\ Leased(t) =>
                  \/ row'[t].lease = row[t].lease /\ row'[t].until = row[t].until
                  \/ Settled(t)' \/ faults < faults' \/ \A w \in Workers : ~Holds(w, t)
  <2>1. row[t] \in Row
    BY <1>0
  <2>2. row[t].round \in Nat /\ row[t].tries \in Nat
    BY <2>1 DEF Row
  <2>3. CASE \/ row'[t] = row[t]
             \/ row'[t] = [row[t] EXCEPT !.from = "past"]
             \/ row'[t] = [row[t] EXCEPT !.expiry = "past"]
    <3>1. /\ row'[t].status = row[t].status /\ row'[t].round = row[t].round
          /\ row'[t].tries = row[t].tries /\ row'[t].lease = row[t].lease
          /\ row'[t].until = row[t].until
      BY <2>1, <2>3 DEF Row
    <3> QED
      BY <2>2, <3>1 DEF Exists, Settled, NotAfter
  <2>4. CASE row[t].status = "none" /\ row'[t] = [row[t] EXCEPT !.status = "open"]
    <3>1. row'[t].status = "open"
      BY <2>1, <2>4 DEF Row
    <3> QED
      BY <1>0, <2>4, <3>1 DEF Settled, Leased
  <2>5. CASE /\ t \in Legacy /\ Open(t)
             /\ row'[t] = [row[t] EXCEPT !.status = "canceled", !.lease = 0, !.until = "null"]
    <3>1. row'[t].status = "canceled" /\ row'[t].round = row[t].round /\ row'[t].tries = row[t].tries
      BY <2>1, <2>5 DEF Row
    <3> QED
      BY <2>2, <2>5, <3>1 DEF Exists, Open, NotAfter
  <2>6. CASE /\ row[t].status \in {"canceled", "dead"}
             /\ row'[t] = [row[t] EXCEPT !.status = "open", !.from = "past", !.lease = 0,
                             !.until = "null", !.round = row[t].round + 1, !.tries = 0]
    <3>1. row'[t].status = "open" /\ row'[t].round = row[t].round + 1 /\ row'[t].tries = 0
      BY <2>1, <2>6 DEF Row
    <3> QED
      BY <1>0, <2>2, <2>6, <3>1 DEF Exists, Settled, Leased, NotAfter
  <2>7. CASE /\ row'[t] = [row[t] EXCEPT !.until = "past"]
             /\ faults < faults' \/ \A w \in Workers : ~Holds(w, t)
    <3>1. row'[t].status = row[t].status /\ row'[t].round = row[t].round /\ row'[t].tries = row[t].tries
      BY <2>1, <2>7 DEF Row
    <3> QED
      BY <2>2, <2>7, <3>1 DEF Exists, Settled, NotAfter
  <2> QED
    BY <1>3, <2>3, <2>4, <2>5, <2>6, <2>7
<1>5. faults' \in Nat /\ faults <= faults'
  BY <1>0, <1>1
<1> QED
  BY <1>1, <1>2, <1>4, <1>5, RowStepsKeepCopies

LEMMA RemovalKeepsCopies ==
  ASSUME IInv, CopiesInv, NEW doomed \in SUBSET Tasks, Remove(doomed),
         UNCHANGED <<accepted, job, plan, faults>>, Undisturbed
  PROVE  CopiesInv'
<1>1. row \in [Tasks -> Row] /\ faults \in Nat
  BY DEF IInv, TypeOK
<1>2. \A t \in Tasks : row'[t] = row[t] \/ row'[t].status = "gone"
  BY DEF Remove, InitialRow
<1>3. ASSUME NEW t \in Tasks
      PROVE  /\ row[t].status # "none" => row'[t].status # "none"
             /\ Exists(t)' => \/ row[t].status = "none"
                              \/ /\ row[t].round \in Nat /\ row[t].tries \in Nat
                                 /\ row'[t].round \in Nat /\ row'[t].tries \in Nat
                                 /\ Exists(t)
                                 /\ NotAfter(row[t].round, row[t].tries, row'[t].round, row'[t].tries)
             /\ t \notin Legacy /\ Settled(t) => Settled(t)'
             /\ t \notin Legacy /\ Leased(t) =>
                  \/ row'[t].lease = row[t].lease /\ row'[t].until = row[t].until
                  \/ Settled(t)' \/ faults < faults' \/ \A w \in Workers : ~Holds(w, t)
  <2>1. row[t] \in Row
    BY <1>1
  <2> QED
    BY <1>2, <2>1 DEF Row, Exists, Settled, NotAfter
<1> QED
  BY <1>1, <1>3, RowStepsKeepCopies

(* A claim is charged to the hope that it ends well.                       *)
LEMMA ClaimKeepsCopies ==
  ASSUME IInv, CopiesInv, NEW w \in Workers, NEW t \in Tasks, ClaimMail(w, t)
  PROVE  CopiesInv'
<1>0. /\ row \in [Tasks -> Row] /\ row[t] \in Row /\ Open(t) /\ ~Leased(t) /\ pc[w] = "claim"
      /\ pc \in [Workers -> Places] /\ job \in [Workers -> Job \cup {NoJob}]
      /\ faults \in Nat /\ UNCHANGED <<plan, accepted, faults>>
  BY DEF IInv, TypeOK, ClaimMail, Claimable, observers
<1>1. /\ row'[t].status = "open" /\ row'[t].tries = row[t].tries + 1
      /\ row'[t].round = row[t].round
      /\ row'[t].lease = row[t].total + 1 /\ row'[t].until = "future"
      /\ \A s \in Tasks : s # t => row'[s] = row[s]
  <2>1. row' = [row EXCEPT ![t] =
          [row[t] EXCEPT !.tries = row[t].tries + 1, !.total = row[t].total + 1,
                    !.lease = row[t].total + 1, !.until = "future"]]
    BY DEF ClaimMail
  <2> QED
    BY <1>0, <2>1 DEF Row, Open
<1>2. /\ pc'[w] = "deliver"
      /\ job'[w] = [task |-> t, round |-> row[t].round, number |-> row[t].tries + 1,
                    lease |-> row[t].total + 1]
      /\ \A v \in Workers : v # w => pc'[v] = pc[v] /\ job'[v] = job[v]
  BY <1>0 DEF ClaimMail, Goto
<1>3. row[t].round \in Nat /\ row[t].tries \in Nat /\ row[t].total \in Nat
  BY <1>0 DEF Row
<1>4. AcceptedBehindRows'
  <2> SUFFICES ASSUME NEW a \in accepted
               PROVE  /\ a.task \notin Legacy
                      /\ row'[a.task].status # "none"
                      /\ Exists(a.task)' =>
                           NotAfter(a.round, a.number, row'[a.task].round, row'[a.task].tries)
    BY <1>0 DEF AcceptedBehindRows, Exists
  <2>1. a.task \in Tasks /\ a.round \in Nat /\ a.number \in Nat
    BY DEF IInv, TypeOK, Key
  <2> QED
    BY <1>0, <1>1, <1>3, <2>1 DEF CopiesInv, AcceptedBehindRows, NotAfter, Exists, Open
<1>5. KeyOf(w)' = [task |-> t, round |-> row[t].round, number |-> row[t].tries + 1]
  BY <1>2 DEF KeyOf
<1>6. KeyOf(w)' \notin accepted
  BY <1>0, <1>3, <1>5 DEF CopiesInv, AcceptedBehindRows, NotAfter, Exists, Open
<1>7. DeliveriesAreNew'
  <2>1. \A v \in Workers : v # w => (Delivering(v)' <=> Delivering(v)) /\ KeyOf(v)' = KeyOf(v)
    BY <1>2 DEF Delivering, KeyOf
  <2> QED
    BY <1>0, <1>6, <2>1 DEF CopiesInv, DeliveriesAreNew
<1>8. ASSUME NEW s \in Tasks \ Legacy, s # t PROVE Covered(s)'
  <2>1. Charges(s)' \subseteq Charges(s)
    <3> SUFFICES ASSUME NEW k \in Charges(s)' PROVE k \in Charges(s)
      OBVIOUS
    <3>1. CASE k \in accepted /\ k.task = s
      BY <3>1, ChargesAre
    <3>2. ASSUME NEW v \in Workers, Delivering(v)', job'[v].task = s, k = KeyOf(v)'
          PROVE  k \in Charges(s)
      <4>1. v # w /\ Delivering(v) /\ job[v].task = s /\ k = KeyOf(v)
        BY <1>2, <1>8, <3>2 DEF Delivering, KeyOf
      <4> QED
        BY <4>1, ChargesAre
    <3> QED
      BY <1>0, <3>1, <3>2, ChargesAreNext
  <2>2. Hopeful(s) => Hopeful(s)'
    BY <1>0, <1>1, <1>2, <1>8 DEF Hopeful, Promising, Holds, Leased, Busy
  <2>3. Settled(s) => Settled(s)'
    BY <1>1, <1>8 DEF Settled
  <2> QED
    BY <1>0, <2>1, <2>2, <2>3, NoChargeKeepsCovered DEF CopiesInv, ChargesAreCovered
<1>9. ASSUME t \notin Legacy PROVE Covered(t)'
  <2> SUFFICES ASSUME NEW old, NEW new, NEW k, old = Charges(t), new = Charges(t)', k = KeyOf(w)'
               PROVE  Covered(t)'
    OBVIOUS
  <2>1. IsFiniteSet(old) /\ Cardinality(old) <= faults
    BY <1>0, <1>9 DEF CopiesInv, ChargesAreCovered, Covered, Settled, Hopeful, Open
  <2>2. new \subseteq old \cup {k}
    <3> SUFFICES ASSUME NEW c \in new, c # k PROVE c \in old
      OBVIOUS
    <3>1. CASE c \in accepted /\ c.task = t
      BY <3>1, ChargesAre
    <3>2. ASSUME NEW v \in Workers, Delivering(v)', job'[v].task = t, c = KeyOf(v)'
          PROVE  c \in old
      <4>1. v # w
        BY <3>2
      <4>2. Delivering(v) /\ job[v].task = t /\ c = KeyOf(v)
        BY <1>2, <3>2, <4>1 DEF Delivering, KeyOf
      <4> QED
        BY <4>2, ChargesAre
    <3> QED
      BY <1>0, <3>1, <3>2, ChargesAreNext
  <2>3. /\ IsFiniteSet(old \cup {k}) /\ Cardinality(old) \in Nat
        /\ Cardinality(old \cup {k}) <= Cardinality(old) + 1
    <3>1. /\ IsFiniteSet(old \cup {k})
          /\ Cardinality(old \cup {k}) = IF k \in old THEN Cardinality(old) ELSE Cardinality(old) + 1
      BY <2>1, FS_AddElement
    <3>2. Cardinality(old) \in Nat
      BY <2>1, FS_CardinalityType
    <3> QED
      BY <3>1, <3>2
  <2>4. /\ IsFiniteSet(new) /\ Cardinality(new) \in Nat
        /\ Cardinality(new) <= Cardinality(old \cup {k})
    BY <2>2, <2>3, FS_Subset, FS_CardinalityType
  <2>5. Cardinality(old \cup {k}) \in Nat
    BY <2>3, FS_CardinalityType
  <2>6. Cardinality(new) <= faults' + 1
    BY <1>0, <2>1, <2>3, <2>4, <2>5
  <2>7. Hopeful(t)'
    BY <1>1, <1>2, <1>3 DEF Hopeful, Promising, Holds, Leased, Busy
  <2> QED
    BY <2>4, <2>6, <2>7 DEF Covered
<1> QED
  BY <1>4, <1>7, <1>8, <1>9 DEF CopiesInv, ChargesAreCovered

(* Steps of one worker that leave the rows alone: it gives up its job, or  *)
(* keeps it, and starts no delivery.                                       *)
WorkerMoved(w) ==
  /\ UNCHANGED row
  /\ ~Delivering(w)'
  /\ pc'[w] \in Busy => pc[w] \in Busy /\ job'[w] = job[w]
  /\ \A v \in Workers : v # w => pc'[v] = pc[v] /\ job'[v] = job[v] /\ plan'[v] = plan[v]

LEMMA WorkerMovedCharges ==
  ASSUME NEW w \in Workers, WorkerMoved(w), NEW t,
         \A a \in accepted' : a \in accepted \/ (Delivering(w) /\ a = KeyOf(w))
  PROVE  Charges(t)' \subseteq Charges(t)
<1> SUFFICES ASSUME NEW k \in Charges(t)' PROVE k \in Charges(t)
  OBVIOUS
<1>1. CASE k \in accepted' /\ k.task = t
  <2>1. Delivering(w) /\ k = KeyOf(w) => job[w].task = t
    BY <1>1 DEF KeyOf
  <2> QED
    BY <1>1, <2>1, ChargesAre
<1>2. ASSUME NEW v \in Workers, Delivering(v)', job'[v].task = t, k = KeyOf(v)'
      PROVE  k \in Charges(t)
  <2>1. Delivering(v) /\ job[v].task = t /\ k = KeyOf(v)
    BY <1>2 DEF WorkerMoved, Delivering, KeyOf
  <2> QED
    BY <2>1, ChargesAre
<1> QED
  BY <1>1, <1>2, ChargesAreNext

(* A worker that made no promise, keeps it, or breaks it by a fault.       *)
LEMMA WorkerMovedCovered ==
  ASSUME IInv, CopiesInv, NEW w \in Workers, WorkerMoved(w), faults' \in {faults, faults + 1},
         \A a \in accepted' : a \in accepted \/ (Delivering(w) /\ a = KeyOf(w)),
         NEW t \in Tasks \ Legacy,
         \/ faults < faults'
         \/ ~(Holds(w, t) /\ Promising(w) /\ Leased(t))
         \/ pc'[w] = "ack" /\ plan'[w] = "sent"
  PROVE  Covered(t)'
<1>1. faults' \in Nat /\ faults <= faults'
  BY DEF IInv, TypeOK
<1>2. Charges(t)' \subseteq Charges(t)
  BY WorkerMovedCharges
<1>3. Settled(t) => Settled(t)'
  BY DEF WorkerMoved, Settled
<1>4. Hopeful(t) => Hopeful(t)' \/ Settled(t)' \/ faults < faults'
  <2> SUFFICES ASSUME Leased(t), NEW v \in Workers, Holds(v, t), Promising(v), ~(faults < faults')
               PROVE  Hopeful(t)'
    BY DEF Hopeful
  <2>1. Leased(t)'
    BY DEF WorkerMoved, Leased
  <2>2. Holds(v, t)' /\ Promising(v)'
    BY DEF WorkerMoved, Holds, Promising, Busy
  <2> QED
    BY <2>1, <2>2 DEF Hopeful
<1> QED
  BY <1>1, <1>2, <1>3, <1>4, NoChargeKeepsCovered DEF CopiesInv, ChargesAreCovered

LEMMA WorkerMovedAccepted ==
  ASSUME IInv, CopiesInv, NEW w \in Workers, WorkerMoved(w),
         \A a \in accepted' : a \in accepted \/ (Composable(w) /\ a = KeyOf(w))
  PROVE  AcceptedBehindRows' /\ DeliveriesAreNew'
<1>1. ASSUME Composable(w)
      PROVE  /\ KeyOf(w).task \notin Legacy
             /\ row[KeyOf(w).task].status # "none"
             /\ Exists(KeyOf(w).task) =>
                  NotAfter(KeyOf(w).round, KeyOf(w).number, row[KeyOf(w).task].round, row[KeyOf(w).task].tries)
  BY <1>1 DEF Composable, KeyOf, IInv, JobsBehindRows, Busy
<1>2. AcceptedBehindRows'
  BY <1>1 DEF CopiesInv, AcceptedBehindRows, WorkerMoved, Exists
<1>3. DeliveriesAreNew'
  <2> SUFFICES ASSUME NEW v \in Workers, Delivering(v)' PROVE KeyOf(v)' \notin accepted'
    BY DEF DeliveriesAreNew
  <2>1. v # w /\ Delivering(v) /\ KeyOf(v)' = KeyOf(v)
    BY DEF WorkerMoved, Delivering, KeyOf
  <2>2. KeyOf(v) \notin accepted
    BY <2>1 DEF CopiesInv, DeliveriesAreNew
  <2>3. Composable(w) => KeyOf(v) # KeyOf(w)
    BY <2>1 DEF IInv, JobsDistinct, SameAttempt, KeyOf, Composable, Delivering, Busy
  <2> QED
    BY <2>1, <2>2, <2>3
<1> QED
  BY <1>2, <1>3

(* SMTP took the message: the charge stands, and the worker will say so,   *)
(* or a fault keeps it from knowing.                                       *)
LEMMA AcceptKeepsCopies ==
  ASSUME IInv, CopiesInv, NEW w \in Workers, SendSucceeds(w) \/ SendReplyLost(w)
  PROVE  CopiesInv'
<1>0. pc \in [Workers -> Places] /\ plan \in [Workers -> Plans] /\ faults \in Nat
  BY DEF IInv, TypeOK
<1>1. WorkerMoved(w) /\ faults' \in {faults, faults + 1} /\ Composable(w) /\ Delivering(w)
  BY <1>0 DEF SendSucceeds, SendReplyLost, Composable, Reach, Goto, WorkerMoved, Delivering, Busy
<1>2. \A a \in accepted' : a \in accepted \/ a = KeyOf(w)
  BY DEF SendSucceeds, SendReplyLost, Accept, KeyOf
<1>3. faults < faults' \/ (pc'[w] = "ack" /\ plan'[w] = "sent")
  BY <1>0 DEF SendSucceeds, SendReplyLost, Reach, Goto
<1>4. \A t \in Tasks \ Legacy : Covered(t)'
  BY <1>1, <1>2, <1>3, WorkerMovedCovered
<1>5. AcceptedBehindRows' /\ DeliveriesAreNew'
  BY <1>1, <1>2, WorkerMovedAccepted
<1> QED
  BY <1>4, <1>5 DEF CopiesInv, ChargesAreCovered

(* A delivery that failed gives its charge back.                           *)
LEMMA RefusalKeepsCopies ==
  ASSUME IInv, CopiesInv, NEW w \in Workers,
         SendFailsTemporarily(w) \/ SendFailsPermanently(w) \/ MaterialInvalid(w)
  PROVE  CopiesInv'
<1>0. /\ pc \in [Workers -> Places] /\ plan \in [Workers -> Plans] /\ faults \in Nat
      /\ UNCHANGED <<accepted, faults>>
  BY DEF IInv, TypeOK, SendFailsTemporarily, SendFailsPermanently, MaterialInvalid, observers
<1>1. WorkerMoved(w) /\ Delivering(w)
  BY <1>0 DEF SendFailsTemporarily, SendFailsPermanently, MaterialInvalid, Reach, Goto, WorkerMoved,
              Delivering, Busy
<1>2. AcceptedBehindRows' /\ DeliveriesAreNew'
  BY <1>0, <1>1, WorkerMovedAccepted
<1>3. ASSUME NEW t \in Tasks \ Legacy, t # job[w].task PROVE Covered(t)'
  <2>1. ~Holds(w, t)
    BY <1>3 DEF Holds
  <2> QED
    BY <1>0, <1>1, <2>1, WorkerMovedCovered
<1>4. ASSUME NEW t \in Tasks \ Legacy, t = job[w].task PROVE Covered(t)'
  <2> SUFFICES ASSUME NEW old, NEW new, NEW k, old = Charges(t), new = Charges(t)', k = KeyOf(w)
               PROVE  Covered(t)'
    OBVIOUS
  <2>1. IsFiniteSet(old) /\ Cardinality(old) <= faults + 1
    BY DEF CopiesInv, ChargesAreCovered, Covered
  <2>2. k \in old
    BY <1>1, <1>4, ChargesAre
  <2>3. new \subseteq old
    BY <1>0, <1>1, WorkerMovedCharges
  <2>4. k \notin new
    <3>1. k \notin accepted
      BY <1>1 DEF CopiesInv, DeliveriesAreNew
    <3>2. ASSUME NEW v \in Workers, Delivering(v)' PROVE k # KeyOf(v)'
      <4>1. v # w /\ Delivering(v) /\ KeyOf(v)' = KeyOf(v)
        BY <1>1, <3>2 DEF WorkerMoved, Delivering, KeyOf
      <4> QED
        BY <1>1, <4>1 DEF IInv, JobsDistinct, SameAttempt, KeyOf, Delivering, Busy
    <3> QED
      BY <1>0, <3>1, <3>2, ChargesAreNext
  <2>5. /\ IsFiniteSet(old \ {k}) /\ Cardinality(old) \in Nat
        /\ Cardinality(old \ {k}) = Cardinality(old) - 1
    BY <2>1, <2>2, FS_RemoveElement, FS_CardinalityType
  <2>6. new \in SUBSET (old \ {k})
    BY <2>3, <2>4
  <2>7. IsFiniteSet(new) /\ Cardinality(new) <= Cardinality(old \ {k})
    BY <2>5, <2>6, FS_Subset
  <2>8. Cardinality(new) \in Nat
    BY <2>7, FS_CardinalityType
  <2>9. Cardinality(new) <= faults'
    BY <1>0, <2>1, <2>5, <2>7, <2>8
  <2>10. Cardinality(new) <= faults' + 1
    BY <1>0, <2>8, <2>9
  <2> QED
    BY <2>7, <2>9, <2>10 DEF Covered
<1> QED
  BY <1>2, <1>3, <1>4 DEF CopiesInv, ChargesAreCovered

(* A worker decides, comes too late, reports late, or is lost.             *)
LEMMA WorkerEventsKeepCopies ==
  ASSUME IInv, CopiesInv, NEW w \in Workers,
         Choose(w) \/ AcknowledgeTooLate(w) \/ RecordMailAttempt(w) \/ LoseJob(w)
  PROVE  CopiesInv'
<1>0. /\ pc \in [Workers -> Places] /\ plan \in [Workers -> Plans] /\ faults \in Nat
      /\ job \in [Workers -> Job \cup {NoJob}]
      /\ UNCHANGED accepted /\ faults' \in {faults, faults + 1}
  BY DEF IInv, TypeOK, Choose, Decide, DecideBlind, AcknowledgeTooLate, RecordMailAttempt, LoseJob,
         observers
<1>1. WorkerMoved(w)
  BY <1>0 DEF Choose, Decide, DecideBlind, AcknowledgeTooLate, RecordMailAttempt, LoseJob, Settle,
              Goto, WorkerMoved, Delivering, Busy
<1>2. ASSUME NEW t \in Tasks, Holds(w, t), Promising(w), Leased(t)
      PROVE  faults < faults'
  <2>1. AcknowledgeTooLate(w) => Owns(w)
    BY <1>2 DEF IInv, TypeOK, Holds, Leased, Owns
  <2> QED
    BY <1>0, <1>2, <2>1 DEF Choose, Decide, DecideBlind, AcknowledgeTooLate, RecordMailAttempt,
                       LoseJob, Promising
<1>3. \A t \in Tasks \ Legacy : Covered(t)'
  BY <1>0, <1>1, <1>2, WorkerMovedCovered
<1> QED
  BY <1>0, <1>1, <1>3, WorkerMovedAccepted DEF CopiesInv, ChargesAreCovered

(* The owner of the lease is alone with it, and keeps its promise.         *)
LEMMA AcknowledgeKeepsCopies ==
  ASSUME IInv, CopiesInv, NEW w \in Workers, Acknowledge(w)
  PROVE  CopiesInv'
<1> SUFFICES ASSUME NEW t, t = job[w].task PROVE CopiesInv'
  OBVIOUS
<1>0. /\ pc[w] = "ack" /\ t \in Tasks /\ row[t] \in Row /\ Open(t) /\ plan[w] \in Plans
      /\ row \in [Tasks -> Row] /\ Owns(w) /\ faults \in Nat
  BY DEF IInv, TypeOK, Acknowledge, Owns, Busy, Job
<1>1. /\ pc'[w] = "idle" /\ UNCHANGED <<accepted, faults>>
      /\ \A v \in Workers : v # w => pc'[v] = pc[v] /\ job'[v] = job[v] /\ plan'[v] = plan[v]
  BY DEF IInv, TypeOK, Acknowledge, Settle, Goto, observers
<1>2. /\ row'[t].round = row[t].round /\ row'[t].tries = row[t].tries
      /\ row'[t].status # "none" /\ plan[w] = "sent" => Settled(t)'
      /\ \A s \in Tasks : s # t => row'[s] = row[s]
  <2>1. row'[t] = Acknowledged(row[t], plan[w]) /\ \A s \in Tasks : s # t => row'[s] = row[s]
    BY <1>0 DEF Acknowledge
  <2> QED
    BY <1>0, <2>1, AcknowledgedRow DEF Open, Settled
<1>3. row'[t].status # "none"
  BY <1>0, AcknowledgedRow DEF Acknowledge, Open
<1>4. AcceptedBehindRows'
  <2> SUFFICES ASSUME NEW a \in accepted
               PROVE  /\ a.task \notin Legacy
                      /\ row'[a.task].status # "none"
                      /\ Exists(a.task)' =>
                           NotAfter(a.round, a.number, row'[a.task].round, row'[a.task].tries)
    BY <1>1 DEF AcceptedBehindRows, Exists
  <2>1. a.task \in Tasks
    BY DEF IInv, TypeOK, Key
  <2> QED
    BY <1>0, <1>2, <1>3, <2>1 DEF CopiesInv, AcceptedBehindRows, Exists, Open
<1>5. DeliveriesAreNew'
  BY <1>1 DEF CopiesInv, DeliveriesAreNew, Delivering, KeyOf
<1>6. \A s : Charges(s)' \subseteq Charges(s)
  <2> SUFFICES ASSUME NEW s, NEW k \in Charges(s)' PROVE k \in Charges(s)
    OBVIOUS
  <2>1. ASSUME NEW v \in Workers, Delivering(v)', job'[v].task = s, k = KeyOf(v)'
        PROVE  Delivering(v) /\ job[v].task = s /\ k = KeyOf(v)
    BY <1>1, <2>1 DEF Delivering, KeyOf
  <2> QED
    BY <1>1, <2>1, ChargesAre, ChargesAreNext
<1>7. ASSUME NEW s \in Tasks \ Legacy, s # t PROVE Covered(s)'
  <2>1. Settled(s) => Settled(s)'
    BY <1>2, <1>7 DEF Settled
  <2>2. Hopeful(s) => Hopeful(s)'
    BY <1>1, <1>2, <1>7 DEF Hopeful, Promising, Holds, Leased
  <2> QED
    BY <1>0, <1>1, <1>6, <2>1, <2>2, NoChargeKeepsCovered DEF CopiesInv, ChargesAreCovered
<1>8. ASSUME t \notin Legacy PROVE Covered(t)'
  <2>1. ~Settled(t)
    BY <1>0 DEF Settled, Open
  <2>2. \A v \in Workers : Holds(v, t) => v = w
    <3> SUFFICES ASSUME NEW v \in Workers, Holds(v, t) PROVE v = w
      OBVIOUS
    <3>1. pc[v] \in Busy /\ Owns(v) /\ job[v].task = t
      BY <1>0 DEF Holds, Owns
    <3>2. SameAttempt(job[v], job[w])
      BY <1>0, <3>1 DEF IInv, LeaseIdentity, SameAttempt, Busy
    <3> QED
      BY <1>0, <3>1, <3>2 DEF IInv, JobsDistinct, Busy
  <2>3. Hopeful(t) => plan[w] = "sent"
    BY <1>0, <2>2 DEF Hopeful, Promising
  <2> QED
    BY <1>0, <1>1, <1>2, <1>3, <1>6, <1>8, <2>1, <2>3, NoChargeKeepsCovered
       DEF CopiesInv, ChargesAreCovered
<1> QED
  BY <1>4, <1>5, <1>7, <1>8 DEF CopiesInv, ChargesAreCovered

LEMMA NextKeepsCopies ==
  ASSUME IInv, CopiesInv, [Next]_vars
  PROVE  CopiesInv'
<1>1. ASSUME NEW t \in Tasks, DeleteMailTask(t) PROVE CopiesInv'
  BY <1>1, RemovalKeepsCopies DEF DeleteMailTask, worker, observers, Undisturbed
<1>2. ASSUME NEW w \in Workers, CleanupMail(w) PROVE CopiesInv'
  <2>1. PICK doomed \in SUBSET Tasks : Remove(doomed)
    BY <1>2 DEF CleanupMail
  <2>2. Undisturbed
    BY <1>2 DEF CleanupMail, Goto, Busy, IInv, TypeOK, Undisturbed
  <2> QED
    BY <1>2, <2>1, <2>2, RemovalKeepsCopies DEF CleanupMail, observers
<1>3. ASSUME UNCHANGED vars PROVE CopiesInv'
  BY <1>3 DEF vars, CopiesInv, AcceptedBehindRows, Exists, DeliveriesAreNew, Delivering, KeyOf,
              ChargesAreCovered, Covered, Charges, Settled, Hopeful, Promising, Holds, Leased
<1> QED
  BY <1>1, <1>2, <1>3, RowEventsKeepCopies, ClaimKeepsCopies, AcceptKeepsCopies,
     RefusalKeepsCopies, WorkerEventsKeepCopies, AcknowledgeKeepsCopies
     DEF Next, Administer, ProcessOnce, Claim, Deliver, Finish

(* At-least-once delivery, for any number of dispatchers: every copy of a  *)
(* message beyond the first is the work of a crash, a lost reply or a      *)
(* lease that ran out under its worker (README, MailDispatcher).           *)
THEOREM CopiesAreFaults == Spec => []DuplicatesNeedFaults
<1>1. ASSUME IInv, CopiesInv PROVE DuplicatesNeedFaults
  <2> SUFFICES ASSUME NEW t \in Tasks PROVE Copies(t) <= 1 + faults
    BY DEF DuplicatesNeedFaults
  <2>0. faults \in Nat
    BY <1>1 DEF IInv, TypeOK
  <2> SUFFICES ASSUME NEW taken, taken = {a \in accepted : a.task = t}
               PROVE  Cardinality(taken) <= 1 + faults
    BY DEF Copies
  <2>1. CASE t \in Legacy
    <3>1. taken = {}
      BY <1>1, <2>1 DEF CopiesInv, AcceptedBehindRows
    <3> QED
      BY <2>0, <3>1, FS_EmptySet
  <2>2. CASE t \notin Legacy
    <3> SUFFICES ASSUME NEW all, all = Charges(t) PROVE Cardinality(taken) <= 1 + faults
      OBVIOUS
    <3>1. IsFiniteSet(all) /\ Cardinality(all) <= faults + 1
      BY <1>1, <2>2 DEF CopiesInv, ChargesAreCovered, Covered
    <3>2. taken \in SUBSET all
      BY ChargesAre
    <3>3. Cardinality(taken) <= Cardinality(all) /\ IsFiniteSet(taken)
      BY <3>1, <3>2, FS_Subset
    <3>4. Cardinality(taken) \in Nat /\ Cardinality(all) \in Nat
      BY <3>1, <3>3, FS_CardinalityType
    <3> QED
      BY <2>0, <3>1, <3>3, <3>4
  <2> QED
    BY <2>1, <2>2
<1> QED
  BY <1>1, InitIInv, InitCopies, NextKeepsIInv, NextKeepsCopies, PTL DEF Spec

-----------------------------------------------------------------------------
(* History *)

AttemptsAreUnique == \A a, b \in attempts : SameAttempt(a, b) => a = b

NewRowsUncounted == \A t \in Tasks : row[t].status = "none" => row[t].total = 0

(* What a worker holds is on record, or it is the attempt of its row.      *)
JobsAreRecorded ==
  \A w \in Workers :
    pc[w] \in Busy /\ job[w].task \notin Legacy /\ Exists(job[w].task) =>
      \/ Recorded(job[w].task, job[w].round, job[w].number)
      \/ job[w].round = row[job[w].task].round /\ job[w].number = row[job[w].task].tries

Complete(t) == row[t].tries = 0 \/ Recorded(t, row[t].round, row[t].tries)

(* The lifetime counter is ahead of the history by the attempt under way.  *)
Counted(t) ==
  /\ IsFiniteSet(AttemptsOf(t))
  /\ Complete(t) => Cardinality(AttemptsOf(t)) = row[t].total
  /\ ~Complete(t) => Cardinality(AttemptsOf(t)) + 1 = row[t].total

CountersMatch == \A t \in Tasks \ Legacy : Exists(t) => Counted(t)

RecordsInv == AttemptsAreUnique /\ NewRowsUncounted /\ JobsAreRecorded /\ CountersMatch

LEMMA InitRecords == Init => RecordsInv
BY DEF Init, InitialRow, RecordsInv, AttemptsAreUnique, NewRowsUncounted, JobsAreRecorded, Busy,
       CountersMatch, Exists

(* A record more, or one in the place of another.                          *)
LEMMA OneMore ==
  ASSUME NEW S, IsFiniteSet(S), NEW x, x \notin S
  PROVE  IsFiniteSet(S \cup {x}) /\ Cardinality(S \cup {x}) = Cardinality(S) + 1
BY FS_AddElement

LEMMA OneReplaced ==
  ASSUME NEW S, IsFiniteSet(S), NEW x \in S, NEW y, y \notin S \ {x}
  PROVE  /\ IsFiniteSet((S \ {x}) \cup {y})
         /\ Cardinality((S \ {x}) \cup {y}) = Cardinality(S)
<1>1. /\ IsFiniteSet(S \ {x}) /\ Cardinality(S \ {x}) = Cardinality(S) - 1
      /\ Cardinality(S) \in Nat
  BY FS_RemoveElement, FS_CardinalityType
<1>2. /\ IsFiniteSet((S \ {x}) \cup {y})
      /\ Cardinality((S \ {x}) \cup {y}) = Cardinality(S \ {x}) + 1
  BY <1>1, OneMore
<1> QED
  BY <1>1, <1>2

LEMMA CountedStays ==
  ASSUME NEW t, Counted(t), AttemptsOf(t)' = AttemptsOf(t),
         row'[t].round = row[t].round, row'[t].tries = row[t].tries, row'[t].total = row[t].total
  PROVE  Counted(t)'
<1>1. \A r, n : Recorded(t, r, n)' <=> Recorded(t, r, n)
  <2>1. \A a : a \in attempts' /\ a.task = t <=> a \in attempts /\ a.task = t
    BY DEF AttemptsOf
  <2> QED
    BY <2>1 DEF Recorded
<1>2. Complete(t)' <=> Complete(t)
  BY <1>1 DEF Complete
<1> QED
  BY <1>2 DEF Counted

(* INSERT ... ON CONFLICT DO UPDATE keeps the key of the table a key, and  *)
(* adds to the count of its task when the key is new.                      *)
LEMMA UpsertCounts ==
  ASSUME IInv, AttemptsAreUnique, NEW t, NEW r, NEW n, NEW outcome,
         attempts' = Upsert(t, r, n, outcome), IsFiniteSet(AttemptsOf(t))
  PROVE  /\ AttemptsAreUnique'
         /\ \A s, q, m : Recorded(s, q, m)' <=> Recorded(s, q, m) \/ (s = t /\ q = r /\ m = n)
         /\ \A s : s # t => AttemptsOf(s)' = AttemptsOf(s)
         /\ IsFiniteSet(AttemptsOf(t)')
         /\ Recorded(t, r, n) => Cardinality(AttemptsOf(t)') = Cardinality(AttemptsOf(t))
         /\ ~Recorded(t, r, n) => Cardinality(AttemptsOf(t)') = Cardinality(AttemptsOf(t)) + 1
<1> PICK new : new = [task |-> t, round |-> r, number |-> n, outcome |-> outcome]
  OBVIOUS
<1>0. /\ attempts' = {a \in attempts : ~(a.task = t /\ a.round = r /\ a.number = n)} \cup {new}
      /\ new.task = t /\ new.round = r /\ new.number = n
  BY DEF Upsert
<1>1. AttemptsAreUnique'
  BY <1>0 DEF AttemptsAreUnique, SameAttempt
<1>2. \A s, q, m : Recorded(s, q, m)' <=> Recorded(s, q, m) \/ (s = t /\ q = r /\ m = n)
  BY <1>0 DEF Recorded
<1>3. ASSUME NEW s, s # t PROVE AttemptsOf(s)' = AttemptsOf(s)
  BY <1>0, <1>3 DEF AttemptsOf
<1>4. CASE Recorded(t, r, n)
  <2>1. PICK old \in attempts : old.task = t /\ old.round = r /\ old.number = n
    BY <1>4 DEF Recorded
  <2>2. AttemptsOf(t)' = (AttemptsOf(t) \ {old}) \cup {new}
    BY <1>0, <2>1 DEF AttemptsOf, AttemptsAreUnique, SameAttempt
  <2>3. old \in AttemptsOf(t) /\ new \notin AttemptsOf(t) \ {old}
    BY <1>0, <2>1 DEF AttemptsOf, AttemptsAreUnique, SameAttempt
  <2> QED
    BY <1>1, <1>2, <1>3, <1>4, <2>2, <2>3, OneReplaced
<1>5. CASE ~Recorded(t, r, n)
  <2>1. AttemptsOf(t)' = AttemptsOf(t) \cup {new} /\ new \notin AttemptsOf(t)
    BY <1>0, <1>5 DEF AttemptsOf, Recorded
  <2> QED
    BY <1>1, <1>2, <1>3, <1>5, <2>1, OneMore
<1> QED
  BY <1>4, <1>5

(* Steps that touch no history and no counter.                             *)
LEMMA QuietStepsKeepRecords ==
  ASSUME IInv, RecordsInv, UNCHANGED attempts,
         \A w \in Workers : pc'[w] \in Busy => pc[w] \in Busy /\ job'[w] = job[w],
         \A t \in Tasks :
           /\ row'[t].round = row[t].round /\ row'[t].tries = row[t].tries
           /\ row'[t].total = row[t].total
           /\ row'[t].status = "none" => row[t].status = "none"
           /\ Exists(t)' => Exists(t) \/ row[t].status = "none"
  PROVE  RecordsInv'
<1>0. \A w \in Workers : pc[w] \in Busy => job[w].task \in Tasks /\ row[job[w].task].status # "none"
  BY DEF IInv, TypeOK, Job, JobsBehindRows
<1>1. AttemptsAreUnique' /\ NewRowsUncounted'
  BY DEF RecordsInv, AttemptsAreUnique, NewRowsUncounted
<1>2. JobsAreRecorded'
  BY <1>0 DEF RecordsInv, JobsAreRecorded, Exists, Recorded
<1>3. ASSUME NEW t \in Tasks \ Legacy, Exists(t)' PROVE Counted(t)'
  <2>1. AttemptsOf(t)' = AttemptsOf(t)
    BY DEF AttemptsOf
  <2>2. CASE Exists(t)
    BY <2>1, <2>2, CountedStays DEF RecordsInv, CountersMatch
  <2>3. CASE row[t].status = "none"
    <3>1. AttemptsOf(t) = {}
      BY <2>3 DEF IInv, AttemptsBehindRows, AttemptsOf, Exists
    <3>2. row[t].tries = 0 /\ row[t].total = 0
      BY <2>3 DEF IInv, NewRowsUntried, RecordsInv, NewRowsUncounted
    <3> QED
      BY <2>1, <3>1, <3>2, FS_EmptySet DEF Counted, Complete
  <2> QED
    BY <1>3, <2>2, <2>3
<1> QED
  BY <1>1, <1>2, <1>3 DEF RecordsInv, CountersMatch

LEMMA RowEventsKeepRecords ==
  ASSUME IInv, RecordsInv, NEW t \in Tasks, Enqueue(t) \/ Supersede(t) \/ TimePasses(t)
  PROVE  RecordsInv'
<1>1. UNCHANGED <<attempts, pc, job>>
  BY DEF Enqueue, Supersede, TimePasses, LeaseLapses, BackoffPasses, LegacyLapses, worker
<1>2. ASSUME NEW s \in Tasks
      PROVE  /\ row'[s].round = row[s].round /\ row'[s].tries = row[s].tries
             /\ row'[s].total = row[s].total
             /\ row'[s].status = "none" => row[s].status = "none"
             /\ Exists(s)' => Exists(s) \/ row[s].status = "none"
  <2>1. row \in [Tasks -> Row] /\ row[s] \in Row
    BY DEF IInv, TypeOK
  <2>2. \/ row'[s] = row[s]
        \/ row[s].status = "none" /\ row'[s] = [row[s] EXCEPT !.status = "open"]
        \/ Open(s) /\ row'[s] = [row[s] EXCEPT !.status = "canceled", !.lease = 0, !.until = "null"]
        \/ row'[s] = [row[s] EXCEPT !.from = "past"]
        \/ row'[s] = [row[s] EXCEPT !.expiry = "past"]
        \/ row'[s] = [row[s] EXCEPT !.until = "past"]
    BY <2>1 DEF Enqueue, Supersede, TimePasses, LeaseLapses, BackoffPasses, LegacyLapses
  <2> QED
    BY <2>1, <2>2 DEF Row, Exists, Open
<1> QED
  BY <1>1, <1>2, QuietStepsKeepRecords

LEMMA WorkerEventsKeepRecords ==
  ASSUME IInv, RecordsInv,
         \/ \E w \in Workers : \/ ClaimNothing(w) \/ Deliver(w) \/ Choose(w)
                              \/ AcknowledgeTooLate(w) \/ LoseJob(w)
         \/ \E n \in RetryCounts : SetRetryCount(n)
  PROVE  RecordsInv'
<1>1. UNCHANGED <<row, attempts>>
  BY DEF ClaimNothing, Deliver, SendSucceeds, SendReplyLost, SendFailsTemporarily,
         SendFailsPermanently, MaterialInvalid, Reach, Choose, Decide, DecideBlind,
         AcknowledgeTooLate, LoseJob, SetRetryCount
<1>2. \A w \in Workers : pc'[w] \in Busy => pc[w] \in Busy /\ job'[w] = job[w]
  BY DEF IInv, TypeOK, ClaimNothing, Deliver, SendSucceeds, SendReplyLost, SendFailsTemporarily,
         SendFailsPermanently, MaterialInvalid, Composable, Reach, Choose, Decide, DecideBlind,
         AcknowledgeTooLate, LoseJob, SetRetryCount, Settle, Goto, worker, Busy
<1> QED
  BY <1>1, <1>2, QuietStepsKeepRecords DEF Exists

LEMMA RemovalKeepsRecords ==
  ASSUME IInv, RecordsInv, NEW doomed \in SUBSET Tasks, Remove(doomed), UNCHANGED job, Undisturbed
  PROVE  RecordsInv'
<1>0. /\ \A t \in Tasks : IF t \in doomed THEN row'[t].status = "gone" ELSE row'[t] = row[t]
      /\ attempts' = {a \in attempts : a.task \notin doomed}
  BY DEF Remove, InitialRow
<1>1. AttemptsAreUnique' /\ NewRowsUncounted'
  BY <1>0 DEF RecordsInv, AttemptsAreUnique, NewRowsUncounted
<1>2. JobsAreRecorded'
  <2>1. \A w \in Workers : pc[w] \in Busy => job[w].task \in Tasks
    BY DEF IInv, TypeOK, Job
  <2> QED
    BY <1>0, <2>1 DEF RecordsInv, JobsAreRecorded, Exists, Recorded, Undisturbed
<1>3. ASSUME NEW t \in Tasks \ Legacy, Exists(t)' PROVE Counted(t)'
  <2>1. t \notin doomed
    BY <1>0, <1>3 DEF Exists
  <2>2. AttemptsOf(t)' = AttemptsOf(t) /\ row'[t] = row[t]
    BY <1>0, <2>1 DEF AttemptsOf
  <2> QED
    BY <1>3, <2>2, CountedStays DEF RecordsInv, CountersMatch, Exists
<1> QED
  BY <1>1, <1>2, <1>3 DEF RecordsInv, CountersMatch

(* A finished round is on record to its last attempt.                      *)
LEMMA FinishedIsComplete ==
  ASSUME IInv, NEW t \in Tasks \ Legacy, Exists(t), ~Open(t)
  PROVE  Complete(t)
<1>1. row[t].tries \in Nat
  BY DEF IInv, TypeOK, Row
<1> QED
  BY <1>1 DEF IInv, HistoryComplete, Complete

LEMMA RetryKeepsRecords ==
  ASSUME IInv, RecordsInv, NEW t \in Tasks, RetryMailTask(t)
  PROVE  RecordsInv'
<1>0. /\ row \in [Tasks -> Row] /\ row[t] \in Row /\ Exists(t) /\ ~Open(t)
      /\ UNCHANGED <<attempts, pc, job>>
  BY DEF IInv, TypeOK, RetryMailTask, Exists, Open, worker
<1>1. /\ row'[t].status = "open" /\ row'[t].tries = 0 /\ row'[t].total = row[t].total
      /\ \A s \in Tasks : s # t => row'[s] = row[s]
  <2>1. row'[t] = [row[t] EXCEPT !.status = "open", !.from = "past", !.lease = 0, !.until = "null",
                     !.round = row[t].round + 1, !.tries = 0]
    BY <1>0 DEF RetryMailTask
  <2>2. \A s \in Tasks : s # t => row'[s] = row[s]
    BY <1>0 DEF RetryMailTask
  <2> QED
    BY <1>0, <2>1, <2>2 DEF Row
<1>2. t \notin Legacy => Complete(t)
  BY <1>0, FinishedIsComplete
<1>3. AttemptsAreUnique' /\ NewRowsUncounted'
  BY <1>0, <1>1 DEF RecordsInv, AttemptsAreUnique, NewRowsUncounted
<1>4. JobsAreRecorded'
  <2>1. \A w \in Workers : pc[w] \in Busy => job[w].task \in Tasks /\ job[w].number # 0
    BY DEF IInv, TypeOK, Job, JobsBehindRows
  <2>2. ASSUME NEW w \in Workers, pc[w] \in Busy, job[w].task \notin Legacy, Exists(job[w].task)'
        PROVE  \/ Recorded(job[w].task, job[w].round, job[w].number)
               \/ /\ job[w].round = row'[job[w].task].round
                  /\ job[w].number = row'[job[w].task].tries
    <3>1. CASE job[w].task = t
      <4>1. \/ Recorded(t, job[w].round, job[w].number)
            \/ job[w].round = row[t].round /\ job[w].number = row[t].tries
        BY <1>0, <2>2, <3>1 DEF RecordsInv, JobsAreRecorded
      <4>2. row[t].tries = 0 \/ Recorded(t, row[t].round, row[t].tries)
        BY <1>2, <2>2, <3>1 DEF Complete
      <4> QED
        BY <2>1, <2>2, <3>1, <4>1, <4>2
    <3>2. CASE job[w].task # t
      BY <1>0, <1>1, <2>1, <2>2, <3>2 DEF RecordsInv, JobsAreRecorded, Exists
    <3> QED
      BY <3>1, <3>2
  <2> QED
    BY <1>0, <2>2 DEF JobsAreRecorded, Recorded
<1>5. ASSUME NEW s \in Tasks \ Legacy, Exists(s)' PROVE Counted(s)'
  <2>1. AttemptsOf(s)' = AttemptsOf(s)
    BY <1>0 DEF AttemptsOf
  <2>2. CASE s = t
    BY <1>0, <1>1, <1>2, <2>1, <2>2 DEF RecordsInv, CountersMatch, Counted, Complete
  <2>3. CASE s # t
    BY <1>1, <1>5, <2>1, <2>3, CountedStays DEF RecordsInv, CountersMatch, Exists
  <2> QED
    BY <2>2, <2>3
<1> QED
  BY <1>3, <1>4, <1>5 DEF RecordsInv, CountersMatch

(* The attempts a sweep or a claim closes: one of the row, if it misses.   *)
LEMMA BehindIsLatest ==
  ASSUME IInv, NEW t \in Tasks \ Legacy, Open(t)
  PROVE  /\ Complete(t) => Behind(t) = {}
         /\ ~Complete(t) => Behind(t) = {row[t].tries}
<1>0. row[t].tries \in Nat /\ row[t].round \in Nat /\ Exists(t)
  BY DEF IInv, TypeOK, Row, Open, Exists
<1>1. ASSUME NEW n \in Behind(t) PROVE n = row[t].tries /\ ~Complete(t)
  <2>1. /\ n \in 1..row[t].tries
        /\ \A a \in attempts : a.task = t /\ a.round = row[t].round => a.number < n
    BY DEF Behind
  <2>2. ~Recorded(t, row[t].round, n)
    BY <1>0, <2>1 DEF Recorded
  <2>3. n = row[t].tries
    BY <1>0, <2>1, <2>2 DEF IInv, HistoryComplete
  <2> QED
    BY <1>0, <2>1, <2>2, <2>3 DEF Complete
<1>2. ASSUME ~Complete(t) PROVE row[t].tries \in Behind(t)
  <2>1. \A a \in attempts : a.task = t /\ a.round = row[t].round => a.number < row[t].tries
    <3> SUFFICES ASSUME NEW a \in attempts, a.task = t, a.round = row[t].round
                 PROVE  a.number < row[t].tries
      OBVIOUS
    <3>1. a.number <= row[t].tries
      BY <1>0 DEF IInv, AttemptsBehindRows, NotAfter
    <3>2. a.number # row[t].tries /\ a.number \in Nat
      BY <1>2 DEF Complete, Recorded, IInv, TypeOK, Attempt
    <3> QED
      BY <1>0, <3>1, <3>2
  <2> QED
    BY <1>0, <1>2, <2>1 DEF Behind, Complete
<1> QED
  BY <1>1, <1>2

(* A missing attempt, added once.                                          *)
LEMMA MissingCounts ==
  ASSUME IInv, RecordsInv, NEW t \in Tasks \ Legacy, Exists(t), ~Complete(t),
         NEW r, NEW n, r = row[t].round, n = row[t].tries,
         AttemptsOf(t)' = AttemptsOf(t) \cup {Missing(t, r, n)}
  PROVE  /\ IsFiniteSet(AttemptsOf(t)')
         /\ Cardinality(AttemptsOf(t)') = row[t].total
         /\ Recorded(t, r, n)'
<1>1. Missing(t, r, n) \notin AttemptsOf(t)
  BY DEF Complete, Recorded, AttemptsOf, Missing
<1>2. IsFiniteSet(AttemptsOf(t)) /\ Cardinality(AttemptsOf(t)) + 1 = row[t].total
  BY DEF RecordsInv, CountersMatch, Counted
<1>3. Recorded(t, r, n)'
  <2>1. Missing(t, r, n) \in attempts'
    BY DEF AttemptsOf
  <2> QED
    BY <2>1 DEF Missing, Recorded
<1>4. IsFiniteSet(AttemptsOf(t)') /\ Cardinality(AttemptsOf(t)') = Cardinality(AttemptsOf(t)) + 1
  BY <1>1, <1>2, OneMore
<1> QED
  BY <1>2, <1>3, <1>4

(* The worker of every attempt that is not the last one has reported.      *)
LEMMA SweepKeepsRecords ==
  ASSUME IInv, RecordsInv, NEW w \in Workers, SweepMail(w)
  PROVE  RecordsInv'
<1>0. /\ attempts' = attempts \cup {Missing(t, row[t].round, row[t].tries) : t \in Unclosed}
      /\ \A v \in Workers : pc'[v] \in Busy => pc[v] \in Busy /\ job'[v] = job[v]
  BY DEF IInv, TypeOK, SweepMail, Goto, Busy
<1>1. ASSUME NEW t \in Tasks
      PROVE  /\ row'[t].round = row[t].round /\ row'[t].tries = row[t].tries
             /\ row'[t].total = row[t].total
             /\ row'[t].status = "none" => row[t].status = "none"
             /\ Exists(t)' => Exists(t)
  <2>1. row[t] \in Row
    BY DEF IInv, TypeOK
  <2>2. \/ row'[t] = row[t]
        \/ Open(t) /\ row'[t] = [row[t] EXCEPT !.status = "canceled", !.lease = 0, !.until = "null"]
    BY DEF SweepMail
  <2> QED
    BY <2>1, <2>2 DEF Row, Exists, Open
<1>2. AttemptsAreUnique'
  <2> SUFFICES ASSUME NEW a \in attempts', NEW b \in attempts', SameAttempt(a, b) PROVE a = b
    BY DEF AttemptsAreUnique
  <2>1. ASSUME NEW c \in attempts', c \notin attempts
        PROVE  c = Missing(c.task, c.round, c.number) /\ ~Recorded(c.task, c.round, c.number)
    <3>1. PICK t \in Unclosed : c = Missing(t, row[t].round, row[t].tries)
      BY <1>0, <2>1
    <3> QED
      BY <3>1 DEF Missing, Unclosed
  <2>2. CASE a \in attempts /\ b \in attempts
    BY <2>2 DEF RecordsInv, AttemptsAreUnique
  <2>3. CASE a \in attempts /\ b \notin attempts
    BY <2>1, <2>3 DEF SameAttempt, Recorded
  <2>4. CASE a \notin attempts /\ b \in attempts
    BY <2>1, <2>4 DEF SameAttempt, Recorded
  <2>5. CASE a \notin attempts /\ b \notin attempts
    BY <2>1, <2>5 DEF SameAttempt
  <2> QED
    BY <2>2, <2>3, <2>4, <2>5
<1>3. NewRowsUncounted'
  BY <1>1 DEF RecordsInv, NewRowsUncounted
<1>4. JobsAreRecorded'
  <2>1. \A v \in Workers : pc[v] \in Busy => job[v].task \in Tasks
    BY DEF IInv, TypeOK, Job
  <2> QED
    BY <1>0, <1>1, <2>1 DEF RecordsInv, JobsAreRecorded, Exists, Recorded
<1>5. ASSUME NEW t \in Tasks \ Legacy, Exists(t)' PROVE Counted(t)'
  <2>0. Exists(t) /\ Counted(t)
    BY <1>1, <1>5 DEF RecordsInv, CountersMatch
  <2>1. CASE t \notin Unclosed
    <3>1. AttemptsOf(t)' = AttemptsOf(t)
      BY <1>0, <2>1 DEF AttemptsOf, Missing
    <3> QED
      BY <1>1, <2>0, <3>1, CountedStays
  <2>2. CASE t \in Unclosed
    <3> PICK r, n : r = row[t].round /\ n = row[t].tries
      OBVIOUS
    <3>1. AttemptsOf(t)' = AttemptsOf(t) \cup {Missing(t, r, n)}
      BY <1>0, <2>2 DEF AttemptsOf, Missing
    <3>2. ~Complete(t)
      BY <2>2 DEF Unclosed, Complete
    <3>3. /\ IsFiniteSet(AttemptsOf(t)') /\ Cardinality(AttemptsOf(t)') = row[t].total
          /\ Recorded(t, r, n)'
      BY <2>0, <3>1, <3>2, MissingCounts
    <3>4. Complete(t)'
      BY <1>1, <3>3 DEF Complete
    <3> QED
      BY <1>1, <3>3, <3>4 DEF Counted
  <2> QED
    BY <2>1, <2>2
<1> QED
  BY <1>2, <1>3, <1>4, <1>5 DEF RecordsInv, CountersMatch

(* A claim closes the attempt before it and starts one that is missing.    *)
LEMMA ClaimKeepsRecords ==
  ASSUME IInv, RecordsInv, NEW w \in Workers, NEW t \in Tasks, ClaimMail(w, t)
  PROVE  RecordsInv'
<1>0. /\ row \in [Tasks -> Row] /\ row[t] \in Row /\ Open(t) /\ Exists(t) /\ pc[w] = "claim"
      /\ pc \in [Workers -> Places] /\ job \in [Workers -> Job \cup {NoJob}]
      /\ row[t].round \in Nat /\ row[t].tries \in Nat /\ row[t].total \in Nat
  BY DEF IInv, TypeOK, ClaimMail, Claimable, Open, Exists, Row
<1>1. /\ row'[t].status = "open" /\ row'[t].round = row[t].round
      /\ row'[t].tries = row[t].tries + 1 /\ row'[t].total = row[t].total + 1
      /\ \A s \in Tasks : s # t => row'[s] = row[s]
  <2>1. row' = [row EXCEPT ![t] =
          [row[t] EXCEPT !.tries = row[t].tries + 1, !.total = row[t].total + 1,
                    !.lease = row[t].total + 1, !.until = "future"]]
    BY DEF ClaimMail
  <2> QED
    BY <1>0, <2>1 DEF Row, Open
<1>2. /\ job'[w].task = t /\ job'[w].round = row[t].round /\ job'[w].number = row[t].tries + 1
      /\ \A v \in Workers : v # w => pc'[v] = pc[v] /\ job'[v] = job[v]
  BY <1>0 DEF ClaimMail, Goto
<1>3. attempts' = attempts \cup {Missing(t, row[t].round, n) : n \in Behind(t)}
  BY DEF ClaimMail
<1>4. AttemptsAreUnique'
  <2> SUFFICES ASSUME NEW a \in attempts', NEW b \in attempts', SameAttempt(a, b) PROVE a = b
    BY DEF AttemptsAreUnique
  <2>1. ASSUME NEW c \in attempts', c \notin attempts
        PROVE  c = Missing(c.task, c.round, c.number) /\ ~Recorded(c.task, c.round, c.number)
    <3>1. PICK n \in Behind(t) : c = Missing(t, row[t].round, n)
      BY <1>3, <2>1
    <3>2. ~Recorded(t, row[t].round, n)
      BY <1>0 DEF Behind, Recorded
    <3> QED
      BY <3>1, <3>2 DEF Missing
  <2>2. CASE a \in attempts /\ b \in attempts
    BY <2>2 DEF RecordsInv, AttemptsAreUnique
  <2>3. CASE a \in attempts /\ b \notin attempts
    BY <2>1, <2>3 DEF SameAttempt, Recorded
  <2>4. CASE a \notin attempts /\ b \in attempts
    BY <2>1, <2>4 DEF SameAttempt, Recorded
  <2>5. CASE a \notin attempts /\ b \notin attempts
    BY <2>1, <2>5 DEF SameAttempt
  <2> QED
    BY <2>2, <2>3, <2>4, <2>5
<1>5. NewRowsUncounted'
  BY <1>1 DEF RecordsInv, NewRowsUncounted
<1>6. ASSUME t \notin Legacy
      PROVE  /\ IsFiniteSet(AttemptsOf(t)') /\ Cardinality(AttemptsOf(t)') = row[t].total
             /\ \A r, n : r = row[t].round /\ n = row[t].tries =>
                  n = 0 \/ Recorded(t, r, n)'
  <2> PICK r, n : r = row[t].round /\ n = row[t].tries
    OBVIOUS
  <2>0. Counted(t)
    BY <1>0, <1>6 DEF RecordsInv, CountersMatch
  <2>1. CASE Complete(t)
    <3>1. Behind(t) = {}
      BY <1>0, <1>6, <2>1, BehindIsLatest
    <3>2. attempts' = attempts
      BY <1>3, <3>1
    <3> QED
      BY <2>0, <2>1, <3>2 DEF Counted, Complete, Recorded, AttemptsOf
  <2>2. CASE ~Complete(t)
    <3>1. Behind(t) = {n}
      BY <1>0, <1>6, <2>2, BehindIsLatest
    <3>2. AttemptsOf(t)' = AttemptsOf(t) \cup {Missing(t, r, n)}
      BY <1>3, <3>1 DEF AttemptsOf, Missing
    <3> QED
      BY <1>0, <1>6, <2>2, <3>2, MissingCounts
  <2> QED
    BY <2>1, <2>2
<1>7. ~Complete(t)'
  <2> PICK r, n : r = row[t].round /\ n = row[t].tries + 1
    OBVIOUS
  <2>1. ~Recorded(t, r, n)'
    <3> SUFFICES ASSUME NEW a \in attempts', a.task = t, a.round = r, a.number = n PROVE FALSE
      BY DEF Recorded
    <3>1. CASE a \in attempts
      BY <1>0, <3>1 DEF IInv, AttemptsBehindRows, NotAfter
    <3>2. CASE a \notin attempts
      <4>1. PICK m \in Behind(t) : a = Missing(t, row[t].round, m)
        BY <1>3, <3>2
      <4> QED
        BY <1>0, <4>1 DEF Behind, Missing
    <3> QED
      BY <3>1, <3>2
  <2>2. row'[t].round = r /\ row'[t].tries = n /\ n # 0
    BY <1>0, <1>1
  <2> QED
    BY <2>1, <2>2 DEF Complete
<1>8. JobsAreRecorded'
  <2> SUFFICES ASSUME NEW v \in Workers, pc'[v] \in Busy, NEW k, k = job'[v],
                      k.task \notin Legacy, Exists(k.task)'
               PROVE  \/ Recorded(k.task, k.round, k.number)'
                      \/ k.round = row'[k.task].round /\ k.number = row'[k.task].tries
    BY DEF JobsAreRecorded, Exists, Recorded
  <2>1. CASE v = w
    BY <1>1, <1>2, <2>1
  <2>2. CASE v # w
    <3>1. k = job[v] /\ pc[v] \in Busy /\ k.task \in Tasks /\ k.number > 0 /\ k.number \in Nat
      BY <1>2, <2>2 DEF IInv, TypeOK, Job, JobsBehindRows
    <3>2. Exists(k.task)
      BY <1>0, <1>1, <3>1 DEF Exists
    <3>3. \/ Recorded(k.task, k.round, k.number)
          \/ k.round = row[k.task].round /\ k.number = row[k.task].tries
      BY <3>1, <3>2 DEF RecordsInv, JobsAreRecorded
    <3>4. Recorded(k.task, k.round, k.number) => Recorded(k.task, k.round, k.number)'
      BY <1>3 DEF Recorded
    <3>5. CASE k.task # t
      BY <1>1, <3>1, <3>3, <3>4, <3>5
    <3>6. CASE k.task = t
      BY <1>6, <3>1, <3>3, <3>4, <3>6
    <3> QED
      BY <3>5, <3>6
  <2> QED
    BY <2>1, <2>2
<1>9. ASSUME NEW s \in Tasks \ Legacy, Exists(s)' PROVE Counted(s)'
  <2>1. CASE s = t
    <3>1. Cardinality(AttemptsOf(t)') + 1 = row'[t].total
      BY <1>1, <1>6, <1>9, <2>1
    <3> QED
      BY <1>6, <1>7, <1>9, <2>1, <3>1 DEF Counted
  <2>2. CASE s # t
    <3>1. AttemptsOf(s)' = AttemptsOf(s)
      BY <1>3, <2>2 DEF AttemptsOf, Missing
    <3> QED
      BY <1>1, <1>9, <2>2, <3>1, CountedStays DEF RecordsInv, CountersMatch, Exists
  <2> QED
    BY <2>1, <2>2
<1> QED
  BY <1>4, <1>5, <1>8, <1>9 DEF RecordsInv, CountersMatch

(* A worker writes the result of its attempt, which is on record already   *)
(* or the last one of its row, and goes idle.                              *)
LEMMA ResultKeepsRecords ==
  ASSUME IInv, RecordsInv, NEW w \in Workers, NEW t \in Tasks, NEW r, NEW n, NEW outcome,
         Exists(t), n # 0,
         attempts' = Upsert(t, r, n, outcome),
         pc'[w] = "idle", \A v \in Workers : v # w => pc'[v] = pc[v] /\ job'[v] = job[v],
         t \notin Legacy => Recorded(t, r, n) \/ (r = row[t].round /\ n = row[t].tries),
         \A s \in Tasks :
           /\ row'[s].round = row[s].round /\ row'[s].tries = row[s].tries
           /\ row'[s].total = row[s].total
           /\ row'[s].status = "none" => row[s].status = "none"
           /\ Exists(s)' => Exists(s)
  PROVE  RecordsInv'
<1>0. AttemptsAreUnique
  BY DEF RecordsInv
<1>1. AttemptsAreUnique'
  BY <1>0 DEF AttemptsAreUnique, Upsert, SameAttempt
<1>2. NewRowsUncounted'
  BY DEF RecordsInv, NewRowsUncounted
<1>3. JobsAreRecorded'
  <2> SUFFICES ASSUME NEW v \in Workers, pc'[v] \in Busy, NEW k, k = job'[v],
                      k.task \notin Legacy, Exists(k.task)'
               PROVE  \/ Recorded(k.task, k.round, k.number)'
                      \/ k.round = row'[k.task].round /\ k.number = row'[k.task].tries
    BY DEF JobsAreRecorded, Exists, Recorded
  <2>1. v # w /\ k = job[v] /\ pc[v] \in Busy /\ k.task \in Tasks
    BY DEF IInv, TypeOK, Job, Busy
  <2>2. \/ Recorded(k.task, k.round, k.number)
        \/ k.round = row[k.task].round /\ k.number = row[k.task].tries
    BY <2>1 DEF RecordsInv, JobsAreRecorded
  <2>3. ASSUME Recorded(k.task, k.round, k.number) PROVE Recorded(k.task, k.round, k.number)'
    <3>1. PICK a \in attempts : a.task = k.task /\ a.round = k.round /\ a.number = k.number
      BY <2>3 DEF Recorded
    <3>2. CASE a.task = t /\ a.round = r /\ a.number = n
      <4> PICK new : new = [task |-> t, round |-> r, number |-> n, outcome |-> outcome]
        OBVIOUS
      <4>1. new \in attempts' /\ new.task = t /\ new.round = r /\ new.number = n
        BY DEF Upsert
      <4> QED
        BY <3>1, <3>2, <4>1 DEF Recorded
    <3>3. CASE ~(a.task = t /\ a.round = r /\ a.number = n)
      BY <3>1, <3>3 DEF Recorded, Upsert
    <3> QED
      BY <3>2, <3>3
  <2> QED
    BY <2>1, <2>2, <2>3
<1>4. ASSUME NEW s \in Tasks \ Legacy, s # t, Exists(s)' PROVE Counted(s)'
  <2>1. AttemptsOf(s)' = AttemptsOf(s)
    BY <1>4 DEF AttemptsOf, Upsert
  <2> QED
    BY <1>4, <2>1, CountedStays DEF RecordsInv, CountersMatch
<1>5. ASSUME t \notin Legacy PROVE Counted(t)'
  <2>0. Counted(t)
    BY <1>5 DEF RecordsInv, CountersMatch
  <2>1. /\ \A s, q, m : Recorded(s, q, m)' <=> Recorded(s, q, m) \/ (s = t /\ q = r /\ m = n)
        /\ IsFiniteSet(AttemptsOf(t)')
        /\ Recorded(t, r, n) => Cardinality(AttemptsOf(t)') = Cardinality(AttemptsOf(t))
        /\ ~Recorded(t, r, n) => Cardinality(AttemptsOf(t)') = Cardinality(AttemptsOf(t)) + 1
    BY <1>0, <2>0, UpsertCounts DEF Counted
  <2>2. \A q, m : q = row[t].round /\ m = row[t].tries =>
          (Complete(t)' <=> m = 0 \/ Recorded(t, q, m)')
    BY DEF Complete
  <2>3. CASE Recorded(t, r, n)
    <3>1. Complete(t)' <=> Complete(t)
      BY <2>1, <2>2, <2>3 DEF Complete
    <3> QED
      BY <2>0, <2>1, <2>3, <3>1 DEF Counted
  <2>4. CASE ~Recorded(t, r, n)
    <3>1. ~Complete(t) /\ Complete(t)'
      BY <1>5, <2>1, <2>2, <2>4 DEF Complete
    <3> QED
      BY <2>0, <2>1, <2>4, <3>1 DEF Counted
  <2> QED
    BY <2>3, <2>4
<1> QED
  BY <1>1, <1>2, <1>3, <1>4, <1>5 DEF RecordsInv, CountersMatch

LEMMA AcknowledgeKeepsRecords ==
  ASSUME IInv, RecordsInv, NEW w \in Workers, Acknowledge(w)
  PROVE  RecordsInv'
<1> PICK t : t = job[w].task
  OBVIOUS
<1>0. /\ pc[w] = "ack" /\ t \in Tasks /\ row[t] \in Row /\ Open(t) /\ plan[w] \in Plans
      /\ row \in [Tasks -> Row] /\ row[t].tries = job[w].number /\ row[t].tries # 0
  BY DEF IInv, TypeOK, Acknowledge, Owns, Busy, Job, LeaseIdentity, JobsBehindRows
<1>1. /\ pc'[w] = "idle"
      /\ \A v \in Workers : v # w => pc'[v] = pc[v] /\ job'[v] = job[v]
      /\ attempts' = Upsert(t, row[t].round, row[t].tries, Outcome(w))
  BY DEF IInv, TypeOK, Acknowledge, Settle, Goto
<1>2. /\ row'[t] = Acknowledged(row[t], plan[w])
      /\ \A s \in Tasks : s # t => row'[s] = row[s]
  BY <1>0 DEF Acknowledge
<1>3. /\ row'[t].round = row[t].round /\ row'[t].tries = row[t].tries
      /\ row'[t].total = row[t].total /\ row'[t].status \notin {"none", "gone"}
  BY <1>0, <1>2, AcknowledgedRow DEF Open
<1>4. \A s \in Tasks :
        /\ row'[s].round = row[s].round /\ row'[s].tries = row[s].tries
        /\ row'[s].total = row[s].total
        /\ row'[s].status = "none" => row[s].status = "none"
        /\ Exists(s)' => Exists(s)
  BY <1>0, <1>2, <1>3 DEF Exists, Open
<1> QED
  BY <1>0, <1>1, <1>4, ResultKeepsRecords DEF Exists, Open

LEMMA RecordKeepsRecords ==
  ASSUME IInv, RecordsInv, NEW w \in Workers, RecordMailAttempt(w)
  PROVE  RecordsInv'
<1> PICK j : j = job[w]
  OBVIOUS
<1>0. /\ pc[w] = "record" /\ j \in Job /\ j.task \in Tasks /\ j.number # 0
  BY DEF IInv, TypeOK, RecordMailAttempt, Busy, Job, JobsBehindRows
<1>1. /\ pc'[w] = "idle" /\ UNCHANGED row
      /\ \A v \in Workers : v # w => pc'[v] = pc[v] /\ job'[v] = job[v]
      /\ Exists(j.task) => attempts' = Upsert(j.task, j.round, j.number, Outcome(w))
      /\ ~Exists(j.task) => attempts' = attempts
  BY DEF IInv, TypeOK, RecordMailAttempt, Settle, Goto
<1>2. CASE Exists(j.task)
  <2>1. j.task \notin Legacy =>
          \/ Recorded(j.task, j.round, j.number)
          \/ j.round = row[j.task].round /\ j.number = row[j.task].tries
    BY <1>0, <1>2 DEF RecordsInv, JobsAreRecorded, Busy
  <2> QED
    BY <1>0, <1>1, <1>2, <2>1, ResultKeepsRecords DEF Exists
<1>3. CASE ~Exists(j.task)
  <2>1. \A v \in Workers : pc'[v] \in Busy => pc[v] \in Busy /\ job'[v] = job[v]
    BY <1>1 DEF Busy
  <2> QED
    BY <1>1, <1>3, <2>1, QuietStepsKeepRecords DEF Exists
<1> QED
  BY <1>2, <1>3

LEMMA NextKeepsRecords ==
  ASSUME IInv, RecordsInv, [Next]_vars
  PROVE  RecordsInv'
<1>1. ASSUME NEW t \in Tasks, DeleteMailTask(t) PROVE RecordsInv'
  BY <1>1, RemovalKeepsRecords DEF DeleteMailTask, worker, Undisturbed
<1>2. ASSUME NEW w \in Workers, CleanupMail(w) PROVE RecordsInv'
  <2>1. PICK doomed \in SUBSET Tasks : Remove(doomed)
    BY <1>2 DEF CleanupMail
  <2>2. Undisturbed
    BY <1>2 DEF CleanupMail, Goto, Busy, IInv, TypeOK, Undisturbed
  <2> QED
    BY <1>2, <2>1, <2>2, RemovalKeepsRecords DEF CleanupMail
<1>3. CASE UNCHANGED vars
  BY <1>3, QuietStepsKeepRecords DEF vars, Exists
<1> QED
  BY <1>1, <1>2, <1>3, RowEventsKeepRecords, WorkerEventsKeepRecords, RetryKeepsRecords,
     SweepKeepsRecords, ClaimKeepsRecords, AcknowledgeKeepsRecords, RecordKeepsRecords
     DEF Next, Administer, ProcessOnce, Claim, Finish

(* The history of a finished task has one attempt for every claim of its   *)
(* life, whoever recorded it: the worker in time, the worker late, a later *)
(* claim or a sweep (ClaimMail, SweepMail, RecordMailAttempt).             *)
THEOREM HistoryAddsUp == Spec => []HistoryMatchesCounter
<1>1. ASSUME IInv, RecordsInv PROVE HistoryMatchesCounter
  <2> SUFFICES ASSUME NEW t \in Tasks \ Legacy, Finished(t)
               PROVE  Cardinality(AttemptsOf(t)) = row[t].total
    BY DEF HistoryMatchesCounter
  <2>1. Exists(t) /\ ~Open(t)
    BY DEF Finished, Exists, Open
  <2>2. Complete(t)
    BY <1>1, <2>1, FinishedIsComplete
  <2> QED
    BY <1>1, <2>1, <2>2 DEF RecordsInv, CountersMatch, Counted
<1> QED
  BY <1>1, InitIInv, InitRecords, NextKeepsIInv, NextKeepsRecords, PTL DEF Spec
=============================================================================
