---------------------------- MODULE TaskRunStatus ----------------------------
(***************************************************************************)
(* The status of a TaskRun (one invocation of a Schedule) and the moves    *)
(* the storage layer accepts, as TaskRunStatus::can_transition_to in       *)
(* crates/hachimi-protocol/src/agent/schedule.rs lists them.  "absent" is  *)
(* an identifier no row of task_runs carries yet.                          *)
(***************************************************************************)

Active == {"queued", "preparing", "running"}

Terminal == {"needs_attention", "succeeded", "failed", "timed_out",
             "cancelled", "lost", "skipped"}

TaskStatuses == Active \cup Terminal

(* What is reachable in one move from each status that is not terminal.    *)
Successors ==
  [queued    |-> {"preparing", "cancelled", "needs_attention", "skipped", "lost"},
   preparing |-> {"running", "cancelled", "failed", "timed_out",
                  "needs_attention", "lost"},
   running   |-> {"cancelled", "succeeded", "failed", "timed_out",
                  "needs_attention", "lost"}]

CanTransition(from, to) == from \in Active /\ to \in Successors[from]

(* SchedulerService::retry accepts only these outcomes.                    *)
Retryable == {"failed", "timed_out", "cancelled", "lost"}

(* The runs table, as far as the scheduler reads it.  "none" is a TaskRun  *)
(* with no Run bound to it; "recovering" stands for every status the       *)
(* restart gives a Run that was executing.                                 *)
RunEnds == {"succeeded", "failed", "timed_out", "cancelled", "interrupted"}

RunStatuses == {"none", "queued", "active", "recovering"} \cup RunEnds

(* linked_task_status: the status the startup reconciliation derives for a *)
(* TaskRun from the Run it is bound to.                                    *)
LinkedStatus(r) ==
  CASE r \in {"succeeded", "failed", "timed_out", "cancelled"} -> r
    [] r = "interrupted"                                       -> "needs_attention"
    [] OTHER                                                   -> "running"

(* task_status_from_run: the outcome the launcher reports once the         *)
(* execution returned; a Run that did not end counts as failed.            *)
OutcomeOf(r) ==
  CASE r \in {"succeeded", "timed_out", "cancelled"} -> r
    [] r = "interrupted"                             -> "lost"
    [] OTHER                                         -> "failed"
=============================================================================
