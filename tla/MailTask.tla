------------------------------- MODULE MailTask -------------------------------
(***************************************************************************)
(* What email task management promises of a task, whatever the dispatchers *)
(* do: the five states it shows (mailTaskStatusSQL) and the moves between  *)
(* them.  A task leaves "sending" only by a result or by the end of its    *)
(* lease, "sent" is final, a failed task waits for an administrator, a     *)
(* task cannot be deleted while it is being sent, and a deleted task never *)
(* returns.  Several tasks may move in one step, as a sweep moves them.    *)
(***************************************************************************)
CONSTANT Tasks

VARIABLES
  shown,     \* the state each task shows
  delivered  \* the tasks whose message SMTP has taken at least once

taskVars == <<shown, delivered>>

Moves ==
  {<<"absent", "queued">>, <<"queued", "sending">>, <<"waiting_retry", "queued">>,
   <<"failed", "queued">>}
    \cup {"queued", "sending"} \X {"sent", "waiting_retry", "failed"}
    \cup {<<"sending", "queued">>, <<"waiting_retry", "failed">>}
    \cup {"queued", "waiting_retry", "sent", "failed"} \X {"deleted"}

(* Tasks of earlier releases are in the queue from the start. *)
TaskInit ==
  /\ shown \in [Tasks -> {"absent", "queued"}]
  /\ delivered = {}

(* A task is shown as sent only when SMTP has taken its message. *)
Move(t) ==
  \/ shown'[t] = shown[t]
  \/ /\ <<shown[t], shown'[t]>> \in Moves
     /\ shown'[t] = "sent" => t \in delivered

Deliveries ==
  /\ delivered \subseteq delivered'
  /\ \A t \in delivered' \ delivered : t \in Tasks /\ shown[t] # "absent"

TaskNext ==
  /\ shown' \in [Tasks -> {"absent", "queued", "sending", "waiting_retry",
                           "sent", "failed", "deleted"}]
  /\ \A t \in Tasks : Move(t)
  /\ Deliveries

TaskSpec == TaskInit /\ [][TaskNext]_taskVars
=============================================================================
