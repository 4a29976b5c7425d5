--------------------------- MODULE MailOutboxProofs ---------------------------
(***************************************************************************)
(* Proofs about MailOutbox, for any set of tasks, workers and retry counts *)
(* and any bounds: IInv is inductive, the properties that follow, and that *)
(* the outbox implements MailTask.                                         *)
(***************************************************************************)
EXTENDS MailOutbox, TLAPS

-----------------------------------------------------------------------------
(* The inductive invariant *)

(* Before anything happened there is nothing to be inconsistent. *)
LEMMA InitIInv == Init => IInv
<1> SUFFICES ASSUME Init PROVE IInv
  OBVIOUS
<1> USE LegacyAssumption, RetryCountsAssumption
<1>1. TypeOK
  BY DEF Init, InitialRow, TypeOK, Row, Statuses, Times, Places, Busy, Plans, Open
<1>2. LeaseIsLatest /\ NewRowsUntried /\ JobsBehindRows /\ LeaseIdentity /\ JobsDistinct
  BY DEF Init, InitialRow, Busy, LeaseIsLatest, NewRowsUntried, JobsBehindRows, LeaseIdentity, JobsDistinct
<1>3. AttemptsBehindRows /\ JobsNotRecordedSent /\ SuccessWasAccepted
  BY DEF Init, Busy, AttemptsBehindRows, JobsNotRecordedSent, SuccessWasAccepted
<1>4. HistoryComplete /\ SentIsBacked
  BY DEF Init, InitialRow, HistoryComplete, SentIsBacked
<1>5. QED
  BY <1>1, <1>2, <1>3, <1>4 DEF IInv

(* The updates of a row yield rows. *)
LEMMA RowUpdates ==
  ASSUME NEW r \in Row, NEW n \in Nat, NEW m \in Nat
  PROVE  /\ [r EXCEPT !.status = "open", !.from = "past", !.lease = 0, !.until = "null",
                      !.round = n, !.tries = 0] \in Row
         /\ [r EXCEPT !.tries = n, !.total = m, !.lease = m, !.until = "future"] \in Row
         /\ \A outcome \in Plans : Acknowledged(r, outcome) \in Row
BY DEF Row, Statuses, Times, Acknowledged

(* Rows keep their counters, legacy rows may be canceled. *)
RowsKept ==
  /\ row' \in [Tasks -> Row]
  /\ \A t \in Tasks :
       /\ row'[t].round = row[t].round
       /\ row'[t].tries = row[t].tries
       /\ row'[t].total = row[t].total
       /\ \/ row'[t].status = row[t].status /\ row'[t].lease = row[t].lease
          \/ row[t].status = "none" /\ row'[t].status = "open" /\ row'[t].lease = row[t].lease
          \/ t \in Legacy /\ Open(t) /\ row'[t].status = "canceled" /\ row'[t].lease = 0

(* History grows by failed attempts under the counters of open rows. *)
HistoryGrows ==
  /\ attempts \subseteq attempts'
  /\ \A a \in attempts' \ attempts :
       /\ a \in Attempt /\ a.outcome = "failed" /\ Open(a.task)
       /\ a.round = row[a.task].round /\ a.number = row[a.task].tries

(* No worker gets a job; one may give its job up. *)
WorkersKept ==
  /\ pc' \in [Workers -> Places]
  /\ job' \in [Workers -> Job \cup {NoJob}]
  /\ plan' \in [Workers -> Plans]
  /\ \A w \in Workers : pc'[w] \in Busy =>
       pc'[w] = pc[w] /\ job'[w] = job[w] /\ plan'[w] = plan[w]
  /\ retryCount' \in RetryCounts /\ faults' \in Nat
  /\ accepted' = accepted

(* Everything a step under this frame does leaves the invariant true. *)
LEMMA FrameKeepsIInv ==
  ASSUME IInv, RowsKept, HistoryGrows, WorkersKept
  PROVE  IInv'
<1> USE LegacyAssumption, RetryCountsAssumption DEF RowsKept, HistoryGrows, WorkersKept
<1>1. TypeOK'
  BY DEF IInv, TypeOK, Attempt, Open, Busy
<1>2. LeaseIsLatest' /\ NewRowsUntried'
  BY DEF IInv, TypeOK, Row, Open, LeaseIsLatest, NewRowsUntried, Busy, Job, Owns
<1>3. JobsBehindRows'
  <2> SUFFICES ASSUME NEW w \in Workers, pc'[w] \in Busy
               PROVE  /\ row'[job[w].task].status # "none"
                      /\ job[w].number > 0 /\ job[w].lease > 0
                      /\ Exists(job[w].task)' =>
                           /\ job[w].lease <= row[job[w].task].total
                           /\ NotAfter(job[w].round, job[w].number,
                                       row[job[w].task].round, row[job[w].task].tries)
    BY DEF IInv, TypeOK, Job, Busy, JobsBehindRows, Exists
  <2>1. job[w].task \in Tasks
    BY DEF IInv, TypeOK, Job
  <2>2. QED
    BY <2>1 DEF IInv, JobsBehindRows, Exists, Open
<1>4. LeaseIdentity'
  BY DEF IInv, TypeOK, Row, Open, Exists, Job, Busy, Places, LeaseIsLatest, JobsBehindRows, LeaseIdentity, Owns
<1>5. JobsDistinct'
  BY DEF IInv, TypeOK, Row, Open, Exists, Job, Busy, Places, JobsBehindRows, JobsDistinct, SameAttempt, NotAfter
<1>6. AttemptsBehindRows'
  BY DEF IInv, TypeOK, Row, Open, Exists, Job, Attempt, Busy, AttemptsBehindRows, NotAfter, JobsBehindRows, LeaseIdentity, Owns
<1>7. JobsNotRecordedSent'
  BY DEF IInv, TypeOK, Row, Open, Exists, Job, Attempt, Busy, Places, AttemptsBehindRows, JobsNotRecordedSent, JobsDistinct, LeaseIdentity, Owns, SameAttempt, NotAfter
<1>8. SuccessWasAccepted'
  BY DEF IInv, TypeOK, Busy, Places, Job, Key, SuccessWasAccepted, SameAttempt
<1>9. HistoryComplete'
  BY DEF IInv, TypeOK, Row, Open, Exists, Attempt, AttemptsBehindRows, NotAfter, HistoryComplete, NewRowsUntried, Recorded, Busy, Job, LeaseIdentity, Owns
<1>10. SentIsBacked'
  <2>1. ASSUME NEW t \in Tasks, row'[t].status = "sent"
        PROVE  \E a \in attempts' : /\ a.task = t /\ a.round = row'[t].round
                                    /\ a.number = row'[t].tries /\ a.outcome = "sent"
    BY <2>1 DEF IInv, SentIsBacked, Open
  <2>2. QED
    BY <2>1 DEF IInv, SentIsBacked
<1>11. QED
  BY <1>1, <1>2, <1>3, <1>4, <1>5, <1>6, <1>7, <1>8, <1>9, <1>10 DEF IInv

LEMMA RowEventsKeepIInv ==
  ASSUME IInv, NEW t \in Tasks, Enqueue(t) \/ Supersede(t) \/ TimePasses(t)
  PROVE  IInv'
<1>1. RowsKept
  BY DEF IInv, TypeOK, RowsKept, Row, Statuses, Times, Open, Enqueue, Supersede, TimePasses,
         LeaseLapses, BackoffPasses, LegacyLapses
<1>2. HistoryGrows /\ WorkersKept
  BY DEF IInv, TypeOK, HistoryGrows, WorkersKept, Enqueue, Supersede, TimePasses,
         LeaseLapses, BackoffPasses, LegacyLapses, worker, observers
<1>3. QED
  BY <1>1, <1>2, FrameKeepsIInv

LEMMA SweepKeepsIInv ==
  ASSUME IInv, NEW w \in Workers, SweepMail(w)
  PROVE  IInv'
<1>1. PICK expiring \in SUBSET {t \in Legacy : Open(t) /\ Leased(t)} :
        row' = [t \in Tasks |->
          IF t \in Legacy /\ Open(t) /\ row[t].expiry = "past" /\ (Leased(t) => t \in expiring)
          THEN [row[t] EXCEPT !.status = "canceled", !.lease = 0, !.until = "null"]
          ELSE row[t]]
  BY DEF SweepMail
<1>2. RowsKept
  <2>1. ASSUME NEW t \in Tasks
        PROVE  [row[t] EXCEPT !.status = "canceled", !.lease = 0, !.until = "null"] \in Row
    BY DEF IInv, TypeOK, Row, Statuses, Times
  <2>2. row' \in [Tasks -> Row]
    BY <1>1, <2>1 DEF IInv, TypeOK
  <2>3. QED
    BY <1>1, <2>2 DEF IInv, TypeOK, RowsKept, Row
<1>3. HistoryGrows
  <2>1. ASSUME NEW a \in attempts' \ attempts
        PROVE  /\ a \in Attempt /\ a.outcome = "failed" /\ Open(a.task)
               /\ a.round = row[a.task].round /\ a.number = row[a.task].tries
    <3>1. PICK t \in Unclosed : a = Missing(t, row[t].round, row[t].tries)
      BY <2>1 DEF SweepMail
    <3>2. t \in Tasks /\ Open(t) /\ row[t] \in Row
      BY DEF IInv, TypeOK, Unclosed
    <3>3. row[t].round \in Nat /\ row[t].tries \in Nat
      BY <3>2 DEF Row
    <3>4. QED
      BY <3>1, <3>2, <3>3 DEF Missing, Attempt
  <2>2. attempts \subseteq attempts'
    BY DEF SweepMail
  <2>3. QED
    BY <2>1, <2>2 DEF HistoryGrows
<1>4. WorkersKept
  BY DEF IInv, TypeOK, WorkersKept, SweepMail, Goto, observers, Places, Busy
<1>5. QED
  BY <1>2, <1>3, <1>4, FrameKeepsIInv

LEMMA QuietStepsKeepIInv ==
  ASSUME IInv,
         \/ \E n \in RetryCounts : SetRetryCount(n)
         \/ \E w \in Workers : ClaimNothing(w) \/ LoseJob(w)
  PROVE  IInv'
<1>1. RowsKept /\ HistoryGrows
  BY DEF IInv, TypeOK, RowsKept, HistoryGrows, SetRetryCount, ClaimNothing, LoseJob
<1>2. WorkersKept
  BY DEF IInv, TypeOK, WorkersKept, SetRetryCount, ClaimNothing, LoseJob, Settle, Goto,
         worker, observers, Places, Busy, Plans
<1>3. QED
  BY <1>1, <1>2, FrameKeepsIInv

(* A removal takes rows and their attempts together. *)
LEMMA RemovalKeepsIInv ==
  ASSUME IInv, NEW doomed \in SUBSET Tasks, Remove(doomed),
         UNCHANGED <<retryCount, job, plan, accepted, faults>>,
         pc' \in [Workers -> Places],
         \A w \in Workers : pc'[w] = pc[w] \/ (pc[w] \notin Busy /\ pc'[w] \notin Busy)
  PROVE  IInv'
<1> USE LegacyAssumption, RetryCountsAssumption DEF Remove, InitialRow
<1>1. TypeOK'
  <2>1. row' \in [Tasks -> Row]
    BY DEF IInv, TypeOK, Row, Statuses, Times
  <2>2. attempts' \subseteq Attempt
    BY DEF IInv, TypeOK, Row, Attempt, Job, Busy
  <2>3. QED
    BY <2>1, <2>2 DEF IInv, TypeOK, Row, Open, Places, Busy, Plans, Job, Key
<1>2. LeaseIsLatest' /\ NewRowsUntried'
  BY DEF IInv, TypeOK, Row, Open, LeaseIsLatest, NewRowsUntried, Busy, Job, Owns
<1>3. JobsBehindRows'
  BY DEF IInv, TypeOK, Row, Statuses, Open, Exists, Job, Busy, Places, LeaseIsLatest, JobsBehindRows, NotAfter, Owns, LeaseIdentity
<1>4. LeaseIdentity'
  BY DEF IInv, TypeOK, Row, Open, Exists, Job, Busy, Places, LeaseIsLatest, JobsBehindRows, LeaseIdentity, Owns
<1>5. JobsDistinct'
  BY DEF IInv, TypeOK, Row, Open, Exists, Job, Busy, Places, JobsBehindRows, JobsDistinct, SameAttempt, NotAfter
<1>6. AttemptsBehindRows'
  BY DEF IInv, TypeOK, Row, Open, Exists, Job, Attempt, Busy, AttemptsBehindRows, NotAfter, JobsBehindRows, LeaseIdentity, Owns
<1>7. JobsNotRecordedSent'
  BY DEF IInv, TypeOK, Row, Open, Exists, Job, Attempt, Busy, Places, AttemptsBehindRows, JobsNotRecordedSent, JobsDistinct, LeaseIdentity, Owns, SameAttempt, NotAfter
<1>8. SuccessWasAccepted'
  BY DEF IInv, TypeOK, Busy, Places, Job, Key, SuccessWasAccepted, SameAttempt
<1>9. HistoryComplete'
  BY DEF IInv, TypeOK, Row, Open, Exists, Attempt, AttemptsBehindRows, NotAfter, HistoryComplete, NewRowsUntried, Recorded, Busy, Job, LeaseIdentity, Owns
<1>10. SentIsBacked'
  BY DEF IInv, TypeOK, Row, Open, Exists, Attempt, Job, Busy, SentIsBacked, SuccessWasAccepted, LeaseIdentity, JobsNotRecordedSent, AttemptsBehindRows, Owns, SameAttempt, NotAfter
<1>11. QED
  BY <1>1, <1>2, <1>3, <1>4, <1>5, <1>6, <1>7, <1>8, <1>9, <1>10 DEF IInv

(* A new round starts with nothing to record. *)
LEMMA RetryKeepsIInv ==
  ASSUME IInv, NEW t \in Tasks, RetryMailTask(t)
  PROVE  IInv'
<1> USE LegacyAssumption, RetryCountsAssumption DEF RetryMailTask, worker, observers
<1>1. TypeOK'
  <2>1. row'[t] \in Row
    <3>1. row[t] \in Row /\ row[t].round + 1 \in Nat
      BY DEF IInv, TypeOK, Row
    <3>2. QED
      BY <3>1, RowUpdates DEF IInv, TypeOK
  <2>2. row' \in [Tasks -> Row]
    BY <2>1 DEF IInv, TypeOK
  <2>3. QED
    BY <2>2 DEF IInv, TypeOK, Row, Open, Places, Busy, Plans, Job, Key, Attempt
<1>2. LeaseIsLatest' /\ NewRowsUntried'
  BY DEF IInv, TypeOK, Row, Open, LeaseIsLatest, NewRowsUntried, Busy, Job, Owns
<1>3. JobsBehindRows'
  BY DEF IInv, TypeOK, Row, Statuses, Open, Exists, Job, Busy, Places, LeaseIsLatest, JobsBehindRows, NotAfter, Owns, LeaseIdentity
<1>4. LeaseIdentity'
  BY DEF IInv, TypeOK, Row, Open, Exists, Job, Busy, Places, LeaseIsLatest, JobsBehindRows, LeaseIdentity, Owns
<1>5. JobsDistinct'
  BY DEF IInv, TypeOK, Row, Open, Exists, Job, Busy, Places, JobsBehindRows, JobsDistinct, SameAttempt, NotAfter
<1>6. AttemptsBehindRows'
  BY DEF IInv, TypeOK, Row, Open, Exists, Job, Attempt, Busy, AttemptsBehindRows, NotAfter, JobsBehindRows, LeaseIdentity, Owns
<1>7. JobsNotRecordedSent'
  BY DEF IInv, TypeOK, Row, Open, Exists, Job, Attempt, Busy, Places, AttemptsBehindRows, JobsNotRecordedSent, JobsDistinct, LeaseIdentity, Owns, SameAttempt, NotAfter
<1>8. SuccessWasAccepted'
  BY DEF IInv, TypeOK, Busy, Places, Job, Key, SuccessWasAccepted, SameAttempt
<1>9. HistoryComplete'
  BY DEF IInv, TypeOK, Row, Open, Exists, Attempt, AttemptsBehindRows, NotAfter, HistoryComplete, NewRowsUntried, Recorded, Busy, Job, LeaseIdentity, Owns
<1>10. SentIsBacked'
  BY DEF IInv, TypeOK, Row, Open, Exists, Attempt, Job, Busy, SentIsBacked, SuccessWasAccepted, LeaseIdentity, JobsNotRecordedSent, AttemptsBehindRows, Owns, SameAttempt, NotAfter
<1>11. QED
  BY <1>1, <1>2, <1>3, <1>4, <1>5, <1>6, <1>7, <1>8, <1>9, <1>10 DEF IInv

(* A claim moves its row one attempt on, after closing the previous one. *)
LEMMA ClaimKeepsIInv ==
  ASSUME IInv, NEW w \in Workers, NEW t \in Tasks, ClaimMail(w, t)
  PROVE  IInv'
<1> USE LegacyAssumption, RetryCountsAssumption DEF ClaimMail, Claimable, Behind, Missing, Goto, observers
<1>1. TypeOK'
  <2>1. row'[t] \in Row
    <3>1. row[t] \in Row /\ row[t].tries + 1 \in Nat /\ row[t].total + 1 \in Nat
      BY DEF IInv, TypeOK, Row
    <3>2. QED
      BY <3>1, RowUpdates DEF IInv, TypeOK
  <2>2. row' \in [Tasks -> Row]
    BY <2>1 DEF IInv, TypeOK
  <2>3. QED
    BY <2>2 DEF IInv, TypeOK, Row, Open, Places, Busy, Plans, Job, Key, Attempt
<1>2. LeaseIsLatest' /\ NewRowsUntried'
  BY DEF IInv, TypeOK, Row, Open, LeaseIsLatest, NewRowsUntried, Busy, Job, Owns
<1>3. JobsBehindRows'
  BY DEF IInv, TypeOK, Row, Statuses, Open, Exists, Job, Busy, Places, LeaseIsLatest, JobsBehindRows, NotAfter, Owns, LeaseIdentity
<1>4. LeaseIdentity'
  BY DEF IInv, TypeOK, Row, Open, Exists, Job, Busy, Places, LeaseIsLatest, JobsBehindRows, LeaseIdentity, Owns
<1>5. JobsDistinct'
  BY DEF IInv, TypeOK, Row, Open, Exists, Job, Busy, Places, JobsBehindRows, JobsDistinct, SameAttempt, NotAfter
<1>6. AttemptsBehindRows'
  BY DEF IInv, TypeOK, Row, Open, Exists, Job, Attempt, Busy, AttemptsBehindRows, NotAfter, JobsBehindRows, LeaseIdentity, Owns
<1>7. JobsNotRecordedSent'
  BY DEF IInv, TypeOK, Row, Open, Exists, Job, Attempt, Busy, Places, AttemptsBehindRows, JobsNotRecordedSent, JobsDistinct, LeaseIdentity, Owns, SameAttempt, NotAfter
<1>8. SuccessWasAccepted'
  BY DEF IInv, TypeOK, Busy, Places, Job, Key, SuccessWasAccepted, SameAttempt
<1>9. HistoryComplete'
  <2>1. ASSUME NEW s \in Tasks \ Legacy, s # t, Exists(s)', NEW n \in 1..row'[s].tries
        PROVE  Recorded(s, row[s].round, n)' \/ (n = row'[s].tries /\ Open(s)')
    BY <2>1 DEF IInv, TypeOK, HistoryComplete, Recorded, Exists, Open
  <2>2. ASSUME t \notin Legacy, NEW n \in 1..row[t].tries
        PROVE  Recorded(t, row[t].round, n)'
    <3>1. CASE Recorded(t, row[t].round, n)
      BY <3>1 DEF IInv, TypeOK, Recorded
    <3>2. CASE ~Recorded(t, row[t].round, n)
      <4>1. n = row[t].tries
        BY <2>2, <3>2 DEF IInv, HistoryComplete, Exists, Open
      <4>2. \A a \in attempts : a.task = t /\ a.round = row[t].round => a.number < n
        BY <3>2, <4>1 DEF IInv, TypeOK, Row, Attempt, AttemptsBehindRows, NotAfter, Recorded
      <4>3. Missing(t, row[t].round, n) \in attempts'
        BY <4>2
      <4>4. QED
        BY <4>3 DEF IInv, TypeOK, Row, Recorded
    <3>3. QED
      BY <3>1, <3>2
  <2>3. row'[t].tries = row[t].tries + 1 /\ row'[t].round = row[t].round /\ Open(t)'
    BY DEF IInv, TypeOK, Row, Open
  <2>4. QED
    BY <2>1, <2>2, <2>3 DEF IInv, TypeOK, Row, HistoryComplete
<1>10. SentIsBacked'
  BY DEF IInv, TypeOK, Row, Open, Exists, Attempt, Job, Busy, SentIsBacked, SuccessWasAccepted, LeaseIdentity, JobsNotRecordedSent, AttemptsBehindRows, Owns, SameAttempt, NotAfter
<1>11. QED
  BY <1>1, <1>2, <1>3, <1>4, <1>5, <1>6, <1>7, <1>8, <1>9, <1>10 DEF IInv

(* Steps of a worker that write no table. *)
LEMMA WorkerEventsKeepIInv ==
  ASSUME IInv, NEW w \in Workers,
         Deliver(w) \/ Choose(w) \/ AcknowledgeTooLate(w)
  PROVE  IInv'
<1> USE LegacyAssumption, RetryCountsAssumption DEF Deliver, SendSucceeds, SendReplyLost, SendFailsTemporarily,
           SendFailsPermanently, MaterialInvalid, Reach, Composable, Accept,
           Choose, Decide, DecideBlind, AcknowledgeTooLate, Goto, observers
<1>1. TypeOK'
  <2>1. row' \in [Tasks -> Row]
    BY DEF IInv, TypeOK, Row, Statuses, Times
  <2>2. attempts' \subseteq Attempt
    BY DEF IInv, TypeOK, Row, Attempt, Job, Busy
  <2>3. QED
    BY <2>1, <2>2 DEF IInv, TypeOK, Row, Open, Places, Busy, Plans, Job, Key
<1>2. LeaseIsLatest' /\ NewRowsUntried'
  BY DEF IInv, TypeOK, Row, Open, LeaseIsLatest, NewRowsUntried, Busy, Job, Owns
<1>3. JobsBehindRows'
  BY DEF IInv, TypeOK, Row, Statuses, Open, Exists, Job, Busy, Places, LeaseIsLatest, JobsBehindRows, NotAfter, Owns, LeaseIdentity
<1>4. LeaseIdentity'
  BY DEF IInv, TypeOK, Row, Open, Exists, Job, Busy, Places, LeaseIsLatest, JobsBehindRows, LeaseIdentity, Owns
<1>5. JobsDistinct'
  BY DEF IInv, TypeOK, Row, Open, Exists, Job, Busy, Places, JobsBehindRows, JobsDistinct, SameAttempt, NotAfter
<1>6. AttemptsBehindRows'
  BY DEF IInv, TypeOK, Row, Open, Exists, Job, Attempt, Busy, AttemptsBehindRows, NotAfter, JobsBehindRows, LeaseIdentity, Owns
<1>7. JobsNotRecordedSent'
  BY DEF IInv, TypeOK, Row, Open, Exists, Job, Attempt, Busy, Places, AttemptsBehindRows, JobsNotRecordedSent, JobsDistinct, LeaseIdentity, Owns, SameAttempt, NotAfter
<1>8. SuccessWasAccepted'
  <2>1. accepted \subseteq accepted' /\ job' = job
    OBVIOUS
  <2>2. ASSUME NEW v \in Workers, pc'[v] \in {"ack", "record"}, plan'[v] = "sent"
        PROVE  \/ pc[v] \in {"ack", "record"} /\ plan[v] = "sent"
               \/ \E b \in accepted' : SameAttempt(b, job[v])
    <3>1. CASE v # w
      BY <2>2, <3>1 DEF IInv, TypeOK
    <3>2. CASE v = w /\ SendSucceeds(w)
      <4> DEFINE b == [task |-> job[w].task, round |-> job[w].round, number |-> job[w].number]
      <4>1. b \in accepted'
        BY <3>2
      <4>2. SameAttempt(b, job[w])
        BY DEF SameAttempt
      <4>3. QED
        BY <3>2, <4>1, <4>2
    <3>3. CASE v = w /\ AcknowledgeTooLate(w)
      BY <2>2, <3>3 DEF IInv, TypeOK
    <3>4. CASE v = w /\ ~SendSucceeds(w) /\ ~AcknowledgeTooLate(w)
      <4>1. plan'[w] # "sent"
        BY <3>4 DEF IInv, TypeOK
      <4>2. QED
        BY <2>2, <3>4, <4>1
    <3>5. QED
      BY <3>1, <3>2, <3>3, <3>4
  <2>3. QED
    BY <2>1, <2>2 DEF IInv, SuccessWasAccepted
<1>9. HistoryComplete'
  BY DEF IInv, TypeOK, Row, Open, Exists, Attempt, AttemptsBehindRows, NotAfter, HistoryComplete, NewRowsUntried, Recorded, Busy, Job, LeaseIdentity, Owns
<1>10. SentIsBacked'
  BY DEF IInv, TypeOK, Row, Open, Exists, Attempt, Job, Busy, SentIsBacked, SuccessWasAccepted, LeaseIdentity, JobsNotRecordedSent, AttemptsBehindRows, Owns, SameAttempt, NotAfter
<1>11. QED
  BY <1>1, <1>2, <1>3, <1>4, <1>5, <1>6, <1>7, <1>8, <1>9, <1>10 DEF IInv

(* What an acknowledgement makes of a row. *)
LEMMA AcknowledgedRow ==
  ASSUME NEW r \in Row, NEW outcome \in Plans
  PROVE  LET a == Acknowledged(r, outcome) IN
         /\ a \in Row
         /\ a.round = r.round /\ a.tries = r.tries /\ a.total = r.total /\ a.lease = 0
         /\ r.status = "open" => a.status \in {"open", "sent", "dead", "canceled"}
         /\ r.status = "open" => (a.status = "sent" <=> outcome = "sent")
<1>1. Acknowledged(r, outcome) \in Row
  BY RowUpdates
<1>2. CASE outcome = "sent"
  BY <1>1, <1>2 DEF Acknowledged, Row
<1>3. CASE outcome = "dead"
  BY <1>1, <1>3 DEF Acknowledged, Row
<1>4. CASE outcome = "discard"
  BY <1>1, <1>4 DEF Acknowledged, Row
<1>5. CASE outcome \notin {"sent", "dead", "discard"}
  BY <1>1, <1>5 DEF Acknowledged, Row
<1>6. QED
  BY <1>2, <1>3, <1>4, <1>5

(* The owner of the lease writes the row and the attempt it made. *)
LEMMA AcknowledgeKeepsIInv ==
  ASSUME IInv, NEW w \in Workers, Acknowledge(w)
  PROVE  IInv'
<1> DEFINE t == job[w].task
           new == [task |-> t, round |-> row[t].round, number |-> row[t].tries,
                   outcome |-> Outcome(w)]
<1>1. /\ t \in Tasks /\ job[w] \in Job /\ plan[w] \in Plans
      /\ row[t] \in Row /\ row[t].status = "open"
      /\ row[t].round = job[w].round /\ row[t].tries = job[w].number
  BY DEF IInv, TypeOK, Job, Busy, Acknowledge, Owns, Open, LeaseIdentity
<1>2. \A s \in Tasks : s # t => row'[s] = row[s]
  BY DEF IInv, TypeOK, Acknowledge
<1>3. /\ row'[t] \in Row
      /\ row'[t].round = row[t].round /\ row'[t].tries = row[t].tries
      /\ row'[t].total = row[t].total /\ row'[t].lease = 0
      /\ row'[t].status \in {"open", "sent", "dead", "canceled"}
      /\ row'[t].status = "sent" <=> plan[w] = "sent"
  <2>1. row'[t] = Acknowledged(row[t], plan[w])
    BY <1>1 DEF IInv, TypeOK, Acknowledge
  <2>2. QED
    BY <1>1, <2>1, AcknowledgedRow
<1>4. row' \in [Tasks -> Row]
  BY <1>1, <1>3 DEF IInv, TypeOK, Acknowledge
<1>5. attempts' = {a \in attempts : ~SameAttempt(a, new)} \cup {new}
  BY DEF Acknowledge, Upsert, SameAttempt
<1>6. new \in Attempt
  BY <1>1 DEF Attempt, Row, Outcome
<1>7. /\ pc' \in [Workers -> Places] /\ pc'[w] = "idle"
      /\ job' \in [Workers -> Job \cup {NoJob}] /\ plan' \in [Workers -> Plans]
      /\ \A v \in Workers : v # w => pc'[v] = pc[v] /\ job'[v] = job[v] /\ plan'[v] = plan[v]
      /\ retryCount' = retryCount /\ accepted' = accepted /\ faults' = faults
  BY DEF IInv, TypeOK, Acknowledge, Settle, Goto, Places, Plans, observers
<1>8. \A v \in Workers : pc'[v] \in Busy =>
        v # w /\ pc[v] \in Busy /\ job'[v] = job[v] /\ plan'[v] = plan[v] /\ pc'[v] = pc[v]
        /\ job[v] \in Job /\ job[v].task \in Tasks
  BY <1>7 DEF IInv, TypeOK, Busy, Job
<1>9. TypeOK'
  <2>1. attempts' \subseteq Attempt
    BY <1>5, <1>6 DEF IInv, TypeOK
  <2>2. \A s \in Tasks : row'[s].lease # 0 => Open(s)'
    BY <1>2, <1>3 DEF IInv, TypeOK, Open
  <2>3. QED
    BY <1>4, <1>7, <1>8, <2>1, <2>2 DEF IInv, TypeOK
<1>10. LeaseIsLatest' /\ NewRowsUntried'
  BY <1>2, <1>3 DEF IInv, LeaseIsLatest, NewRowsUntried
<1>11. JobsBehindRows'
  BY <1>1, <1>2, <1>3, <1>8 DEF IInv, JobsBehindRows, Exists
<1>12. LeaseIdentity'
  BY <1>1, <1>2, <1>3, <1>8 DEF IInv, LeaseIdentity, JobsBehindRows, Owns, Open, Job
<1>13. JobsDistinct'
  BY <1>8 DEF IInv, JobsDistinct
<1>14. AttemptsBehindRows'
  BY <1>1, <1>2, <1>3, <1>5 DEF IInv, TypeOK, Attempt, Row, AttemptsBehindRows, Exists, NotAfter
<1>15. JobsNotRecordedSent'
  <2>1. ASSUME NEW v \in Workers, pc'[v] \in Busy
        PROVE  ~SameAttempt(new, job[v])
    BY <1>1, <1>8, <2>1 DEF IInv, JobsDistinct, SameAttempt, Acknowledge, Busy
  <2>2. QED
    BY <1>5, <1>8, <2>1 DEF IInv, JobsNotRecordedSent
<1>16. SuccessWasAccepted'
  BY <1>7, <1>8 DEF IInv, SuccessWasAccepted, Busy
<1>17. HistoryComplete'
  <2>1. ASSUME NEW s \in Tasks, NEW r, NEW n, Recorded(s, r, n)
        PROVE  Recorded(s, r, n)'
    BY <1>5, <2>1 DEF Recorded, SameAttempt
  <2>2. ASSUME NEW s \in Tasks \ Legacy, Exists(s)', NEW n \in 1..row'[s].tries
        PROVE  Recorded(s, row[s].round, n)' \/ (n = row'[s].tries /\ Open(s)')
    <3>1. CASE s # t
      <4>1. row'[s] = row[s]
        BY <1>2, <3>1
      <4>2. Recorded(s, row[s].round, n) \/ (n = row[s].tries /\ Open(s))
        BY <2>2, <4>1 DEF IInv, HistoryComplete, Exists
      <4>3. QED
        BY <2>1, <4>1, <4>2 DEF Open, Recorded
    <3>2. CASE s = t /\ n = row[t].tries
      BY <1>3, <1>5, <3>2 DEF Recorded
    <3>3. CASE s = t /\ n # row[t].tries
      <4>1. Recorded(s, row[s].round, n)
        BY <1>1, <1>3, <2>2, <3>3 DEF IInv, HistoryComplete, Exists
      <4>2. QED
        BY <1>3, <2>1, <3>3, <4>1 DEF Recorded
    <3>4. QED
      BY <3>1, <3>2, <3>3
  <2>3. QED
    BY <2>2 DEF HistoryComplete
<1>18. SentIsBacked'
  <2>1. ASSUME plan[w] = "sent"
        PROVE  \E b \in accepted : SameAttempt(b, new)
    BY <1>1, <2>1 DEF IInv, SuccessWasAccepted, Acknowledge, SameAttempt
  <2>2. ASSUME NEW a \in attempts', a.outcome = "sent"
        PROVE  \E b \in accepted : SameAttempt(b, a)
    BY <1>5, <2>1, <2>2 DEF IInv, SentIsBacked, SameAttempt, Outcome
  <2>3. ASSUME NEW s \in Tasks, row'[s].status = "sent"
        PROVE  \E a \in attempts' : /\ a.task = s /\ a.round = row'[s].round
                                    /\ a.number = row'[s].tries /\ a.outcome = "sent"
    <3>1. CASE s = t
      BY <1>3, <1>5, <2>3, <3>1 DEF Outcome
    <3>2. CASE s # t
      BY <1>2, <1>5, <2>3, <3>2 DEF IInv, SentIsBacked, SameAttempt
    <3>3. QED
      BY <3>1, <3>2
  <2>4. QED
    BY <1>7, <2>2, <2>3 DEF SentIsBacked, SameAttempt
<1>19. QED
  BY <1>9, <1>10, <1>11, <1>12, <1>13, <1>14, <1>15, <1>16, <1>17, <1>18 DEF IInv

(* A late result goes to the attempt of its own worker. *)
LEMMA RecordKeepsIInv ==
  ASSUME IInv, NEW w \in Workers, RecordMailAttempt(w)
  PROVE  IInv'
<1> USE LegacyAssumption, RetryCountsAssumption DEF RecordMailAttempt, Upsert, Outcome, Settle, Goto, observers
<1>1. TypeOK'
  <2>1. row' \in [Tasks -> Row]
    BY DEF IInv, TypeOK, Row, Statuses, Times
  <2>2. attempts' \subseteq Attempt
    BY DEF IInv, TypeOK, Row, Attempt, Job, Busy
  <2>3. QED
    BY <2>1, <2>2 DEF IInv, TypeOK, Row, Open, Places, Busy, Plans, Job, Key
<1>2. LeaseIsLatest' /\ NewRowsUntried'
  BY DEF IInv, TypeOK, Row, Open, LeaseIsLatest, NewRowsUntried, Busy, Job, Owns
<1>3. JobsBehindRows'
  BY DEF IInv, TypeOK, Row, Statuses, Open, Exists, Job, Busy, Places, LeaseIsLatest, JobsBehindRows, NotAfter, Owns, LeaseIdentity
<1>4. LeaseIdentity'
  BY DEF IInv, TypeOK, Row, Open, Exists, Job, Busy, Places, LeaseIsLatest, JobsBehindRows, LeaseIdentity, Owns
<1>5. JobsDistinct'
  BY DEF IInv, TypeOK, Row, Open, Exists, Job, Busy, Places, JobsBehindRows, JobsDistinct, SameAttempt, NotAfter
<1>6. AttemptsBehindRows'
  BY DEF IInv, TypeOK, Row, Open, Exists, Job, Attempt, Busy, AttemptsBehindRows, NotAfter, JobsBehindRows, LeaseIdentity, Owns
<1>7. JobsNotRecordedSent'
  BY DEF IInv, TypeOK, Row, Open, Exists, Job, Attempt, Busy, Places, AttemptsBehindRows, JobsNotRecordedSent, JobsDistinct, LeaseIdentity, Owns, SameAttempt, NotAfter
<1>8. SuccessWasAccepted'
  BY DEF IInv, TypeOK, Busy, Places, Job, Key, SuccessWasAccepted, SameAttempt
<1>9. HistoryComplete'
  <2>1. ASSUME NEW s \in Tasks, NEW r, NEW n, Recorded(s, r, n)
        PROVE  Recorded(s, r, n)'
    <3>1. PICK a \in attempts : a.task = s /\ a.round = r /\ a.number = n
      BY <2>1 DEF Recorded
    <3>2. CASE a \in attempts'
      BY <3>1, <3>2 DEF Recorded
    <3>3. CASE a \notin attempts'
      <4> DEFINE new == [task |-> job[w].task, round |-> job[w].round,
                         number |-> job[w].number, outcome |-> Outcome(w)]
      <4>1. new \in attempts' /\ SameAttempt(a, new)
        BY <3>3 DEF SameAttempt
      <4>2. QED
        BY <3>1, <4>1 DEF Recorded, SameAttempt
    <3>4. QED
      BY <3>2, <3>3
  <2>2. QED
    BY <2>1 DEF IInv, HistoryComplete, Exists, Open
<1>10. SentIsBacked'
  BY DEF IInv, TypeOK, Row, Open, Exists, Attempt, Job, Busy, SentIsBacked, SuccessWasAccepted, LeaseIdentity, JobsNotRecordedSent, AttemptsBehindRows, Owns, SameAttempt, NotAfter
<1>11. QED
  BY <1>1, <1>2, <1>3, <1>4, <1>5, <1>6, <1>7, <1>8, <1>9, <1>10 DEF IInv

(* Every step of the outbox keeps the invariant. *)
LEMMA NextKeepsIInv == IInv /\ [Next]_vars => IInv'
<1> SUFFICES ASSUME IInv, [Next]_vars
             PROVE  IInv'
  OBVIOUS
<1>1. ASSUME NEW t \in Tasks, Enqueue(t) \/ Supersede(t) \/ TimePasses(t)
      PROVE  IInv'
  BY <1>1, RowEventsKeepIInv
<1>2. ASSUME NEW t \in Tasks, DeleteMailTask(t)
      PROVE  IInv'
  <2>1. {t} \in SUBSET Tasks /\ Remove({t})
    BY <1>2 DEF DeleteMailTask
  <2>2. UNCHANGED <<retryCount, pc, job, plan, accepted, faults>>
    BY <1>2 DEF DeleteMailTask, worker, observers
  <2>3. QED
    BY <2>1, <2>2, RemovalKeepsIInv DEF IInv, TypeOK
<1>3. ASSUME NEW t \in Tasks, RetryMailTask(t)
      PROVE  IInv'
  BY <1>3, RetryKeepsIInv
<1>4. CASE \E n \in RetryCounts : SetRetryCount(n)
  BY <1>4, QuietStepsKeepIInv
<1>5. ASSUME NEW w \in Workers, SweepMail(w)
      PROVE  IInv'
  BY <1>5, SweepKeepsIInv
<1>6. ASSUME NEW w \in Workers, CleanupMail(w)
      PROVE  IInv'
  <2>1. PICK doomed \in SUBSET {t \in Tasks : Finished(t)} : Remove(doomed)
    BY <1>6 DEF CleanupMail
  <2>2. /\ UNCHANGED <<retryCount, job, plan, accepted, faults>>
        /\ pc' \in [Workers -> Places]
        /\ \A v \in Workers : pc'[v] = pc[v] \/ (pc[v] \notin Busy /\ pc'[v] \notin Busy)
    BY <1>6 DEF CleanupMail, IInv, TypeOK, Goto, observers, Places, Busy
  <2>3. QED
    BY <2>1, <2>2, RemovalKeepsIInv
<1>7. ASSUME NEW w \in Workers, Claim(w) \/ LoseJob(w)
      PROVE  IInv'
  BY <1>7, ClaimKeepsIInv, QuietStepsKeepIInv DEF Claim
<1>8. ASSUME NEW w \in Workers, Deliver(w) \/ Choose(w) \/ Finish(w)
      PROVE  IInv'
  BY <1>8, WorkerEventsKeepIInv, AcknowledgeKeepsIInv, RecordKeepsIInv DEF Finish
<1>9. CASE UNCHANGED vars
  <2>1. RowsKept /\ HistoryGrows /\ WorkersKept
    BY <1>9 DEF IInv, TypeOK, RowsKept, HistoryGrows, WorkersKept, vars
  <2>2. QED
    BY <2>1, FrameKeepsIInv
<1>10. QED
  BY <1>1, <1>2, <1>3, <1>4, <1>5, <1>6, <1>7, <1>8, <1>9
     DEF Next, Administer, TimePasses, ProcessOnce

(* The invariant of the outbox holds in every reachable state: leases,     *)
(* jobs, counters and history stay consistent under any interleaving of    *)
(* dispatchers, administrators, sweeps, lapsing leases and crashes.        *)
THEOREM InvariantHolds == Spec => []IInv
<1>1. Init => IInv
  BY InitIInv
<1>2. IInv /\ [Next]_vars => IInv'
  BY NextKeepsIInv
<1>3. QED
  BY <1>1, <1>2, PTL DEF Spec

-----------------------------------------------------------------------------
(* What follows from it *)

(* Type correctness, with the lease confined to open rows. *)
THEOREM TypeCorrect == Spec => []TypeOK
<1>1. IInv => TypeOK
  BY DEF IInv
<1>2. QED
  BY <1>1, InvariantHolds, PTL

(* A worker whose token still matches acknowledges the attempt it made,    *)
(* although finishMailAttemptWithCode files the result under the row's     *)
(* own counters.                                                           *)
THEOREM TokensIdentifyAttempts == Spec => []LeaseIdentity
<1>1. IInv => LeaseIdentity
  BY DEF IInv
<1>2. QED
  BY <1>1, InvariantHolds, PTL

(* The history of a sealed task has no holes: ClaimMail and the sweep      *)
(* close what crashed workers leave open, under every interleaving.        *)
THEOREM HistoryHasNoHoles == Spec => []HistoryComplete
<1>1. IInv => HistoryComplete
  BY DEF IInv
<1>2. QED
  BY <1>1, InvariantHolds, PTL

(* No task and no attempt is shown as sent unless SMTP took the message.   *)
THEOREM SuccessIsReal == Spec => []SentIsBacked
<1>1. IInv => SentIsBacked
  BY DEF IInv
<1>2. QED
  BY <1>1, InvariantHolds, PTL

(* The history of a deleted task never comes back, whichever worker        *)
(* reports late.                                                           *)
THEOREM NothingIsResurrected == Spec => []DeletedStaysDeleted
<1>1. IInv => DeletedStaysDeleted
  BY DEF IInv, AttemptsBehindRows, Exists, DeletedStaysDeleted
<1>2. QED
  BY <1>1, InvariantHolds, PTL

(* One step cannot rewrite a success. *)
LEMMA StepKeepsSuccess ==
  ASSUME IInv, [Next]_vars, NEW a \in attempts, a.outcome = "sent"
  PROVE  a \in attempts' \/ row'[a.task].status = "gone"
<1>1. a \in Attempt /\ a.task \in Tasks
  BY DEF IInv, TypeOK, Attempt
<1>2. ASSUME NEW doomed, Remove(doomed)
      PROVE  a \in attempts' \/ row'[a.task].status = "gone"
  BY <1>1, <1>2 DEF Remove, InitialRow
<1>3. ASSUME NEW w \in Workers, Acknowledge(w)
      PROVE  a \in attempts'
  <2>1. pc[w] \in Busy /\ ~SameAttempt(a, job[w])
    BY <1>3 DEF IInv, JobsNotRecordedSent, Acknowledge, Busy
  <2>2. QED
    BY <1>3, <2>1 DEF IInv, LeaseIdentity, Acknowledge, Upsert, SameAttempt
<1>4. ASSUME NEW w \in Workers, RecordMailAttempt(w)
      PROVE  a \in attempts'
  <2>1. ~SameAttempt(a, job[w])
    BY <1>4 DEF IInv, JobsNotRecordedSent, RecordMailAttempt, Busy
  <2>2. QED
    BY <1>4, <2>1 DEF RecordMailAttempt, Upsert, SameAttempt
<1>5. QED
  BY <1>2, <1>3, <1>4
     DEF Next, vars, worker, observers, Administer, Enqueue, Supersede, DeleteMailTask,
         RetryMailTask, TimePasses, LeaseLapses, BackoffPasses, LegacyLapses, SetRetryCount,
         ProcessOnce, SweepMail, CleanupMail, Claim, ClaimNothing, ClaimMail, Deliver, Reach,
         SendSucceeds, SendReplyLost, SendFailsTemporarily, SendFailsPermanently,
         MaterialInvalid, Choose, Decide, DecideBlind, Finish, AcknowledgeTooLate, LoseJob

(* A recorded success outlives sweeps, later claims and late reports; only *)
(* the deletion of its task takes it away.                                 *)
THEOREM SuccessesStand == Spec => SentAttemptsStand
<1>1. IInv /\ [Next]_vars =>
        [\A a \in attempts : a.outcome = "sent" =>
           a \in attempts' \/ row'[a.task].status = "gone"]_vars
  BY StepKeepsSuccess
<1>2. QED
  BY <1>1, InvariantHolds, PTL DEF Spec, SentAttemptsStand

-----------------------------------------------------------------------------
(* The refinement of MailTask                                              *)
(*                                                                         *)
(* Beyond IInv this needs that a row which was not inserted yet, or        *)
(* carries a lease, is due (DueRows): a task never goes to sending past    *)
(* its back-off, nor from waiting to sent.                                 *)

DueRows ==
  \A t \in Tasks : row[t].status = "none" \/ row[t].lease # 0 => row[t].from = "past"

LEMMA InitDue == Init => DueRows
BY DEF Init, InitialRow, DueRows

LEMMA NextKeepsDue ==
  ASSUME IInv, DueRows, [Next]_vars
  PROVE  DueRows'
<1> USE DEF DueRows
<1>0. /\ row \in [Tasks -> Row]
      /\ \A t \in Tasks : row[t] \in Row /\ (row[t].lease # 0 => row[t].status = "open")
  BY DEF IInv, TypeOK, Open
<1>1. ASSUME NEW t \in Tasks, Enqueue(t) \/ Supersede(t) \/ RetryMailTask(t) PROVE DueRows'
  <2>1. CASE Enqueue(t)
    BY <1>0, <2>1 DEF Enqueue, Row
  <2>2. CASE Supersede(t)
    <3>1. row'[t] = [row[t] EXCEPT !.status = "canceled", !.lease = 0, !.until = "null"]
          /\ \A s \in Tasks : s # t => row'[s] = row[s]
      BY <1>0, <2>2 DEF Supersede
    <3>2. row'[t].status = "canceled" /\ row'[t].lease = 0
      BY <1>0, <3>1 DEF Row
    <3> QED
      BY <3>1, <3>2
  <2>3. CASE RetryMailTask(t)
    <3>1. row'[t] = [row[t] EXCEPT !.status = "open", !.from = "past", !.lease = 0, !.until = "null",
                       !.round = row[t].round + 1, !.tries = 0]
          /\ \A s \in Tasks : s # t => row'[s] = row[s]
      BY <1>0, <2>3 DEF RetryMailTask
    <3>2. row'[t].status = "open" /\ row'[t].lease = 0
      BY <1>0, <3>1 DEF Row
    <3> QED
      BY <3>1, <3>2
  <2> QED
    BY <1>1, <2>1, <2>2, <2>3
<1>2. ASSUME NEW t \in Tasks, TimePasses(t) PROVE DueRows'
  BY <1>0, <1>2 DEF TimePasses, LeaseLapses, BackoffPasses, LegacyLapses, Row
<1>3. ASSUME NEW doomed, Remove(doomed) PROVE DueRows'
  BY <1>0, <1>3 DEF Remove, InitialRow, Row
<1>4. ASSUME NEW w \in Workers, SweepMail(w) PROVE DueRows'
  BY <1>0, <1>4 DEF SweepMail, Row
<1>5. ASSUME NEW w \in Workers, NEW t \in Tasks, ClaimMail(w, t) PROVE DueRows'
  BY <1>0, <1>5 DEF ClaimMail, Claimable, Row
<1>6. ASSUME NEW w \in Workers, Acknowledge(w) PROVE DueRows'
  <2> DEFINE t == job[w].task
  <2>1. t \in Tasks /\ plan[w] \in Plans
    BY <1>6 DEF IInv, TypeOK, Acknowledge, Busy, Job
  <2>2. row' = [row EXCEPT ![t] = Acknowledged(row[t], plan[w])]
    BY <1>6 DEF Acknowledge
  <2>3. row'[t].lease = 0 /\ row'[t].status # "none"
    BY <1>0, <1>6, <2>1, <2>2, AcknowledgedRow DEF Acknowledge, Owns, Open
  <2> QED
    BY <1>0, <2>1, <2>2, <2>3
<1>7. ASSUME UNCHANGED row PROVE DueRows'
  BY <1>7
<1> QED
  BY <1>1, <1>2, <1>3, <1>4, <1>5, <1>6, <1>7
     DEF Next, vars, worker, observers, Administer, DeleteMailTask, SetRetryCount,
         ProcessOnce, CleanupMail, Claim, ClaimNothing, Deliver, Reach,
         SendSucceeds, SendReplyLost, SendFailsTemporarily, SendFailsPermanently,
         MaterialInvalid, Choose, Decide, DecideBlind, Finish, AcknowledgeTooLate,
         RecordMailAttempt, LoseJob

LEMMA AlwaysDue == Spec => [](IInv /\ DueRows)
<1>1. Init => IInv /\ DueRows
  BY InitIInv, InitDue
<1>2. IInv /\ DueRows /\ [Next]_vars => IInv' /\ DueRows'
  BY NextKeepsIInv, NextKeepsDue
<1> QED
  BY <1>1, <1>2, PTL DEF Spec

-----------------------------------------------------------------------------
(* What a row shows *)

ShownKnown ==
  \A t \in Tasks :
    /\ row[t].status = "none" => Shown(t) = "absent"
    /\ row[t].status = "gone" => Shown(t) = "deleted"
    /\ row[t].status = "sent" => Shown(t) = "sent"
    /\ row[t].status \in {"dead", "canceled"} => Shown(t) = "failed"
    /\ Open(t) /\ Leased(t) => Shown(t) = "sending"
    /\ Open(t) /\ ~Leased(t) /\ row[t].from = "future" => Shown(t) = "waiting_retry"
    /\ Open(t) /\ ~Leased(t) /\ row[t].from # "future" => Shown(t) = "queued"

LEMMA RowsShow == ShownKnown
BY DEF ShownKnown, Shown, Open

LEMMA RowsShowNext == ShownKnown'
BY RowsShow, PTL

Moved(t) ==
  \/ Shown(t)' = Shown(t)
  \/ /\ <<Shown(t), Shown(t)'>> \in Task!Moves
     /\ Shown(t)' = "sent" => t \in {a.task : a \in accepted}

LEMMA SameRowSameShown ==
  ASSUME NEW t \in Tasks, row'[t] = row[t]
  PROVE  Shown(t)' = Shown(t)
BY DEF Shown, Open, Leased

LEMMA OneRowMoves ==
  ASSUME NEW t \in Tasks, Moved(t), \A s \in Tasks : s # t => row'[s] = row[s]
  PROVE  \A s \in Tasks : Moved(s)
BY SameRowSameShown DEF Moved

(* Enqueue, supersession, retry and time.                                  *)
LEMMA RowEventsMove ==
  ASSUME IInv, DueRows, NEW t \in Tasks,
         Enqueue(t) \/ Supersede(t) \/ RetryMailTask(t) \/ TimePasses(t)
  PROVE  \A s \in Tasks : Moved(s)
<1> USE DEF Open, Leased
<1>0. /\ row \in [Tasks -> Row] /\ row[t] \in Row
      /\ row[t].lease # 0 => row[t].status = "open"
      /\ row[t].status = "none" \/ row[t].lease # 0 => row[t].from = "past"
  BY DEF IInv, TypeOK, DueRows
<1>1. \A s \in Tasks : s # t => row'[s] = row[s]
  BY <1>0 DEF Enqueue, Supersede, RetryMailTask, TimePasses, LeaseLapses, BackoffPasses, LegacyLapses
<1>2. CASE Enqueue(t)
  <2>1. row[t].status = "none" /\ row'[t].status = "open" /\ row'[t].lease = 0 /\ row'[t].from = "past"
    BY <1>0, <1>2 DEF Enqueue, Row
  <2>2. Shown(t) = "absent" /\ Shown(t)' = "queued"
    BY <2>1, RowsShow, RowsShowNext DEF ShownKnown
  <2> QED
    BY <1>1, <2>2, OneRowMoves DEF Moved, Task!Moves
<1>3. CASE Supersede(t)
  <2>1. row[t].status = "open" /\ row'[t].status = "canceled"
    BY <1>0, <1>3 DEF Supersede, Row
  <2>2. Shown(t) \in {"queued", "sending", "waiting_retry"} /\ Shown(t)' = "failed"
    BY <2>1, RowsShow, RowsShowNext DEF ShownKnown
  <2> QED
    BY <1>1, <2>2, OneRowMoves DEF Moved, Task!Moves
<1>4. CASE RetryMailTask(t)
  <2>1. row'[t] = [row[t] EXCEPT !.status = "open", !.from = "past", !.lease = 0, !.until = "null",
                     !.round = row[t].round + 1, !.tries = 0]
    BY <1>0, <1>4 DEF RetryMailTask
  <2>2. row'[t].status = "open" /\ row'[t].lease = 0 /\ row'[t].from = "past"
    BY <1>0, <2>1 DEF Row
  <2>3. row[t].status \in {"canceled", "dead"}
    BY <1>4 DEF RetryMailTask
  <2>4. Shown(t) = "failed" /\ Shown(t)' = "queued"
    BY <2>2, <2>3, RowsShow, RowsShowNext DEF ShownKnown
  <2> QED
    BY <1>1, <2>4, OneRowMoves DEF Moved, Task!Moves
<1>5. CASE LeaseLapses(t)
  <2>1. /\ row[t].status = "open" /\ row'[t].status = "open" /\ row[t].lease # 0
        /\ row[t].until = "future" /\ row'[t].until = "past" /\ row'[t].from = "past"
    BY <1>0, <1>5 DEF LeaseLapses, Row
  <2>2. Shown(t) = "sending" /\ Shown(t)' = "queued"
    BY <2>1, RowsShow, RowsShowNext DEF ShownKnown
  <2> QED
    BY <1>1, <2>2, OneRowMoves DEF Moved, Task!Moves
<1>6. CASE BackoffPasses(t)
  <2>1. /\ row[t].status = "open" /\ row'[t].status = "open" /\ row[t].from = "future"
        /\ row'[t].from = "past" /\ row'[t].lease = row[t].lease /\ row[t].lease = 0
    BY <1>0, <1>6 DEF BackoffPasses, Row
  <2>2. Shown(t) = "waiting_retry" /\ Shown(t)' = "queued"
    BY <2>1, RowsShow, RowsShowNext DEF ShownKnown
  <2> QED
    BY <1>1, <2>2, OneRowMoves DEF Moved, Task!Moves
<1>7. CASE LegacyLapses(t)
  <2>1. /\ row'[t].status = row[t].status /\ row'[t].lease = row[t].lease
        /\ row'[t].until = row[t].until /\ row'[t].from = row[t].from
    BY <1>0, <1>7 DEF LegacyLapses, Row
  <2>2. Shown(t)' = Shown(t)
    BY <2>1 DEF Shown
  <2> QED
    BY <1>1, <2>2, OneRowMoves DEF Moved
<1> QED
  BY <1>2, <1>3, <1>4, <1>5, <1>6, <1>7 DEF TimePasses

(* Rows are removed when they are finished, or not being sent.             *)
LEMMA RemovalMoves ==
  ASSUME IInv, NEW doomed \in SUBSET Tasks, Remove(doomed),
         \A t \in doomed : Exists(t) /\ ~(Open(t) /\ Leased(t))
  PROVE  \A s \in Tasks : Moved(s)
<1> SUFFICES ASSUME NEW s \in Tasks PROVE Moved(s)
  OBVIOUS
<1>1. CASE s \in doomed
  <2>1. row'[s].status = "gone"
    BY <1>1 DEF Remove, InitialRow
  <2>2. row[s] \in Row
    BY DEF IInv, TypeOK
  <2>3. Shown(s) \in {"queued", "waiting_retry", "sent", "failed"} /\ Shown(s)' = "deleted"
    BY <1>1, <2>1, <2>2, RowsShow, RowsShowNext DEF ShownKnown, Exists, Open, Row, Statuses
  <2> QED
    BY <2>3 DEF Moved, Task!Moves
<1>2. CASE s \notin doomed
  BY <1>2, SameRowSameShown DEF Remove, Moved
<1> QED
  BY <1>1, <1>2

LEMMA SweepMoves ==
  ASSUME IInv, NEW w \in Workers, SweepMail(w)
  PROVE  \A s \in Tasks : Moved(s)
<1> SUFFICES ASSUME NEW s \in Tasks PROVE Moved(s)
  OBVIOUS
<1>1. row'[s] = row[s] \/ (Open(s) /\ row'[s].status = "canceled")
  <2>1. row[s] \in Row
    BY DEF IInv, TypeOK
  <2> QED
    BY <2>1 DEF SweepMail, Row
<1>2. CASE Open(s) /\ row'[s].status = "canceled"
  <2>1. Shown(s) \in {"queued", "sending", "waiting_retry"} /\ Shown(s)' = "failed"
    BY <1>2, RowsShow, RowsShowNext DEF ShownKnown
  <2> QED
    BY <2>1 DEF Moved, Task!Moves
<1> QED
  BY <1>1, <1>2, SameRowSameShown DEF Moved

LEMMA ClaimMoves ==
  ASSUME IInv, NEW w \in Workers, NEW t \in Tasks, ClaimMail(w, t)
  PROVE  \A s \in Tasks : Moved(s)
<1>1. row \in [Tasks -> Row] /\ row[t] \in Row /\ row[t].total + 1 # 0
  BY DEF IInv, TypeOK, Row
<1>2. /\ Open(t) /\ ~Leased(t) /\ row[t].from # "future"
      /\ row' = [row EXCEPT ![t] =
           [row[t] EXCEPT !.tries = row[t].tries + 1, !.total = row[t].total + 1,
                     !.lease = row[t].total + 1, !.until = "future"]]
  BY DEF ClaimMail, Claimable
<1>3. /\ row'[t].status = "open" /\ row'[t].lease # 0 /\ row'[t].until = "future"
      /\ \A s \in Tasks : s # t => row'[s] = row[s]
  BY <1>1, <1>2 DEF Row, Open
<1>4. Shown(t) = "queued" /\ Shown(t)' = "sending"
  BY <1>2, <1>3, RowsShow, RowsShowNext DEF ShownKnown, Open, Leased
<1> QED
  BY <1>3, <1>4, OneRowMoves DEF Moved, Task!Moves

LEMMA AcknowledgeMoves ==
  ASSUME IInv, DueRows, NEW w \in Workers, Acknowledge(w)
  PROVE  \A s \in Tasks : Moved(s)
<1> SUFFICES ASSUME NEW t, t = job[w].task PROVE \A s \in Tasks : Moved(s)
  OBVIOUS
<1>1. /\ t \in Tasks /\ plan[w] \in Plans /\ row[t] \in Row /\ pc[w] = "ack"
      /\ row[t].status = "open" /\ row[t].lease # 0 /\ row[t].from = "past"
  BY DEF IInv, TypeOK, Acknowledge, Owns, Open, Busy, Job, JobsBehindRows, DueRows
<1>2. /\ row'[t] = Acknowledged(row[t], plan[w])
      /\ \A s \in Tasks : s # t => row'[s] = row[s]
  BY <1>1 DEF IInv, TypeOK, Acknowledge
<1>3. /\ row'[t].status \in {"open", "sent", "dead", "canceled"} /\ row'[t].lease = 0
      /\ row'[t].status = "sent" <=> plan[w] = "sent"
  BY <1>1, <1>2, AcknowledgedRow
<1>4. row'[t].status = "open" => row'[t].from = "future"
  BY <1>1, <1>2 DEF Acknowledged, Row
<1>5. Shown(t) \in {"queued", "sending"}
  BY <1>1, RowsShow DEF ShownKnown, Open
<1>6. Shown(t)' \in {"sent", "waiting_retry", "failed"} /\ (Shown(t)' = "sent" => plan[w] = "sent")
  <2>1. /\ row'[t].status = "sent" => Shown(t)' = "sent"
        /\ row'[t].status \in {"dead", "canceled"} => Shown(t)' = "failed"
    BY <1>1, RowsShowNext DEF ShownKnown
  <2>2. row'[t].status = "open" => Shown(t)' = "waiting_retry"
    BY <1>1, <1>3, <1>4, RowsShowNext DEF ShownKnown, Open, Leased
  <2> QED
    BY <1>3, <2>1, <2>2
<1>7. plan[w] = "sent" => t \in {a.task : a \in accepted}
  BY <1>1 DEF IInv, SuccessWasAccepted, SameAttempt
<1> QED
  BY <1>1, <1>2, <1>5, <1>6, <1>7, OneRowMoves DEF Moved, Task!Moves

LEMMA NextMoves ==
  ASSUME IInv, DueRows, [Next]_vars
  PROVE  \A s \in Tasks : Moved(s)
<1>1. ASSUME NEW t \in Tasks, DeleteMailTask(t) PROVE \A s \in Tasks : Moved(s)
  <2>1. {t} \in SUBSET Tasks /\ Remove({t}) /\ Exists(t) /\ ~(Open(t) /\ Leased(t))
    BY <1>1 DEF DeleteMailTask
  <2> QED
    BY <2>1, RemovalMoves
<1>2. ASSUME NEW w \in Workers, CleanupMail(w) PROVE \A s \in Tasks : Moved(s)
  <2>1. PICK doomed \in SUBSET {t \in Tasks : Finished(t)} : Remove(doomed)
    BY <1>2 DEF CleanupMail
  <2> QED
    BY <2>1, RemovalMoves DEF Finished, Exists, Open
<1>3. ASSUME UNCHANGED row PROVE \A s \in Tasks : Moved(s)
  BY <1>3, SameRowSameShown DEF Moved
<1> QED
  BY <1>1, <1>2, <1>3, RowEventsMove, SweepMoves, ClaimMoves, AcknowledgeMoves
     DEF Next, vars, worker, observers, Administer, SetRetryCount,
         ProcessOnce, Claim, ClaimNothing, Deliver, Reach,
         SendSucceeds, SendReplyLost, SendFailsTemporarily, SendFailsPermanently,
         MaterialInvalid, Choose, Decide, DecideBlind, Finish, AcknowledgeTooLate,
         RecordMailAttempt, LoseJob

-----------------------------------------------------------------------------
(* Deliveries *)

LEMMA NextDelivers ==
  ASSUME IInv, [Next]_vars
  PROVE  /\ accepted \subseteq accepted'
         /\ \A a \in accepted' \ accepted : a.task \in Tasks /\ Shown(a.task) # "absent"
<1>1. ASSUME NEW w \in Workers, pc[w] = "deliver", Accept(w)
      PROVE  /\ accepted \subseteq accepted'
             /\ \A a \in accepted' \ accepted : a.task \in Tasks /\ Shown(a.task) # "absent"
  <2>1. job[w].task \in Tasks /\ row[job[w].task].status # "none" /\ row[job[w].task] \in Row
    BY <1>1 DEF IInv, TypeOK, Busy, Job, JobsBehindRows
  <2>2. Shown(job[w].task) # "absent"
    BY <2>1, RowsShow DEF ShownKnown, Open, Leased, Row, Statuses
  <2> QED
    BY <1>1, <2>1, <2>2 DEF Accept
<1>2. ASSUME UNCHANGED accepted
      PROVE  /\ accepted \subseteq accepted'
             /\ \A a \in accepted' \ accepted : a.task \in Tasks /\ Shown(a.task) # "absent"
  BY <1>2
<1> QED
  BY <1>1, <1>2
     DEF Next, vars, worker, observers, Administer, Enqueue, Supersede, DeleteMailTask,
         RetryMailTask, TimePasses, LeaseLapses, BackoffPasses, LegacyLapses, SetRetryCount,
         ProcessOnce, SweepMail, CleanupMail, Claim, ClaimNothing, ClaimMail, Deliver, Reach,
         SendSucceeds, SendReplyLost, SendFailsTemporarily, SendFailsPermanently, Composable,
         MaterialInvalid, Choose, Decide, DecideBlind, Finish, Acknowledge, AcknowledgeTooLate,
         RecordMailAttempt, LoseJob

-----------------------------------------------------------------------------
(* Refinement *)

LEMMA InitImplements == Init => Task!TaskInit
<1> SUFFICES ASSUME Init PROVE Task!TaskInit
  OBVIOUS
<1>1. ASSUME NEW t \in Tasks PROVE Shown(t) \in {"absent", "queued"}
  <2>1. row[t] = InitialRow(t)
    BY DEF Init
  <2>2. \/ row[t].status = "none"
        \/ row[t].status = "open" /\ row[t].lease = 0 /\ row[t].from = "past"
    BY <2>1 DEF InitialRow
  <2> QED
    BY <2>2, RowsShow DEF ShownKnown, Open, Leased
<1>2. {a.task : a \in accepted} = {}
  BY DEF Init
<1> QED
  BY <1>1, <1>2 DEF Task!TaskInit

LEMMA NextImplements ==
  ASSUME IInv, DueRows, [Next]_vars
  PROVE  Task!TaskNext
<1>1. \A t \in Tasks : Shown(t)' \in {"absent", "queued", "sending", "waiting_retry",
                                      "sent", "failed", "deleted"}
  BY DEF Shown
<1>2. \A t \in Tasks : Task!Move(t)
  BY NextMoves DEF Moved, Task!Move
<1>3. Task!Deliveries
  <2>1. /\ {a.task : a \in accepted} \subseteq {a.task : a \in accepted'}
        /\ \A t \in {a.task : a \in accepted'} \ {a.task : a \in accepted} :
             t \in Tasks /\ Shown(t) # "absent"
    BY NextDelivers
  <2> QED
    BY <2>1 DEF Task!Deliveries
<1> QED
  BY <1>1, <1>2, <1>3 DEF Task!TaskNext

(* Whatever dispatchers, administrators, lapsing leases and crashes do,    *)
(* tasks move as the mail task page promises: what is being sent cannot be *)
(* deleted, what is sent stays so and was taken by SMTP, and a failed task *)
(* waits for an administrator.                                             *)
THEOREM TasksMoveAsShown == Spec => ImplementsMailTask
<1>1. IInv /\ DueRows /\ [Next]_vars => Task!TaskNext
  BY NextImplements
<1> QED
  BY <1>1, InitImplements, AlwaysDue, PTL DEF Spec, ImplementsMailTask, Task!TaskSpec
=============================================================================
