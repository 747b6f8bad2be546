------------------------------ MODULE Scheduler ------------------------------
(***************************************************************************)
(* The Scheduler of the Agent runtime: SchedulerService                    *)
(* (crates/hachimi-scheduler/src/service.rs), the tables behind it         *)
(* (crates/hachimi-storage/src/agent_store/schedule.rs), the launcher the  *)
(* desktop injects (apps/desktop/src-tauri/src/scheduler_commands.rs) and  *)
(* the supervisor that reconciles and starts it (scheduler_runtime.rs).    *)
(*                                                                         *)
(* A Schedule is a definition with a revision; each occurrence of it that  *)
(* is claimed becomes a TaskRun with a unique invocation key; a launched   *)
(* TaskRun is carried by a spawned worker that creates one Agent Run and   *)
(* executes it.  Every call of the store is one atomic step here, because  *)
(* it is one SQLite statement or transaction on a pool of one connection;  *)
(* between two calls every other task of the process may run.              *)
(*                                                                         *)
(* Who takes steps: the user's commands, the timer (trigger_due), one      *)
(* worker per launch, the startup reconciliation, crashes, and calls that  *)
(* fail: a call of the store, or next_occurrence, that returns an error    *)
(* and changes nothing.                                                    *)
(***************************************************************************)
EXTENDS Naturals, FiniteSets, TaskRunStatus

CONSTANTS
  Schedules,     (* identifiers of Schedules; a removed one never returns   *)
  Tasks,         (* identifiers of TaskRuns, the bound on claims            *)
  NoSchedule,
  NoTask,
  Definition,    (* what the user configured for each Schedule              *)
  Commands,      (* the user commands that are issued                       *)
  Endings,       (* how a Run may end, and the outcome the launcher reports *)
  LaunchFailures,(* the outcomes of a launch that is refused                *)
  MaxNow,        (* bound on the clock                                      *)
  MaxRevision,   (* bound on the definition revisions the user creates      *)
  MaxRetries,    (* RETRY_DELAYS.len() in runtime.rs and scheduler_runtime  *)
  MaxCrashes,    (* bound on process restarts                               *)
  MaxFaults      (* bound on calls that fail                                *)

CommandNames == {"create", "update", "toggle", "remove", "run_now", "retry",
                 "cancel"}

(* at: the instant of an "at" Schedule.  limit and endAt: stop conditions, *)
(* 0 when absent.                                                          *)
Definitions == [kind: {"at", "recurring"}, at: Nat, limit: Nat, endAt: Nat,
                stopAfterSuccess: BOOLEAN, skipMisfire: BOOLEAN]

(* A timeout wins, then an event of the Run that needs attention, then the *)
(* status of the Run (scheduled_completion_status).                        *)
PossibleEndings ==
  UNION {{<<r, o>> : o \in {OutcomeOf(r), "timed_out", "needs_attention"}} :
           r \in RunEnds}

ASSUME SchedulerAssumption ==
  /\ NoSchedule \notin Schedules
  /\ NoTask \notin Tasks
  /\ Definition \in [Schedules -> Definitions]
  /\ Commands \subseteq CommandNames
  /\ Endings \subseteq PossibleEndings
  /\ LaunchFailures \subseteq {"failed", "needs_attention"}
  /\ MaxNow \in Nat
  /\ MaxRevision \in Nat
  /\ MaxRetries \in Nat
  /\ MaxCrashes \in Nat
  /\ MaxFaults \in Nat

(* Who called launch_claim: the code that claimed the invocation, or the   *)
(* startup reconciliation.                                                 *)
Origins == {"claim", "reconcile"}
Workers == Tasks \X Origins

VARIABLES
  (* Tables, which survive a crash.                                        *)
  sched,       (* schedule_definitions                                     *)
  active,      (* schedule_runtime_state.active_task_run_id                *)
  status,      (* task_runs.status                                         *)
  claim,       (* task_runs: schedule, its revision, the invocation key    *)
  run,         (* the Run a TaskRun is bound to, by its status             *)
  (* The process.                                                          *)
  now,         (* the injected clock                                       *)
  phase,       (* where the supervisor and the timer loop are              *)
  accepting,   (* SchedulerService.accepting                               *)
  attempts,    (* failures of the operation being retried                  *)
  timerPc, passNow, due, job,   (* trigger_due                             *)
  listed, item,                 (* reconcile_startup                       *)
  launches,    (* active_launches: whose token is registered per TaskRun   *)
  worker,      (* the tasks launch_claim spawned                           *)
  handoff,     (* claimed by a command that has yet to call launch_claim   *)
  cancelling,  (* cancel_task between its read and its transition          *)
  followUps,   (* cancellations an edit owes after its commit              *)
  crashes,
  faults,
  (* History: the rows a failing call took from their holder since the     *)
  (* reconciliation last listed the table.                                 *)
  dropped

scheduleVars == <<sched, active>>
taskVars     == <<status, claim, run>>
controlVars  == <<phase, accepting, attempts>>
timerVars    == <<timerPc, passNow, due, job>>
sweepVars    == <<listed, item>>
launchVars   == <<launches, worker>>
commandVars  == <<handoff, cancelling, followUps>>
envVars      == <<now, crashes, faults, dropped>>

vars == <<sched, active, status, claim, run, now, phase, accepting,
          attempts, timerPc, passNow, due, job, listed, item, launches, worker,
          handoff, cancelling, followUps, crashes, faults, dropped>>

-----------------------------------------------------------------------------
(* Values.                                                                 *)

AbsentSchedule == [state |-> "absent", enabled |-> FALSE, rev |-> 0,
                   authority |-> 0, next |-> 0]
NoClaim  == [owner |-> NoSchedule, rev |-> 0, key |-> <<"none", NoTask, 0>>]
NoJob    == [sched |-> NoSchedule, rev |-> 0, at |-> 0, task |-> NoTask]
NoItem   == [id |-> NoTask, status |-> "absent", run |-> "none", linked |-> FALSE]
IdleWorker == [pc |-> "idle", rev |-> 0, cancelled |-> FALSE,
               outcome |-> "absent", stop |-> 0]

(* The invocation keys: schedule:{id}:{scheduled_for},                     *)
(* manual:{schedule}:{task} and retry:{previous}:{task}.                   *)
OccurrenceKey(s, at) == <<"schedule", s, at>>
ManualKey(s, t)      == <<"manual", s, t>>
RetryKey(p, t)       == <<"retry", p, t>>
Keys == ({"schedule"} \X Schedules \X Nat)
          \cup ({"manual"} \X Schedules \X Tasks)
          \cup ({"retry"} \X Tasks \X Tasks)

WorkerPcs == {"idle", "spawned", "launching", "creating", "starting",
              "dispatching", "registering", "registered", "executing",
              "finishing", "stopping", "disabling"}
TimerPcs == {"idle", "pass", "stop", "claim", "advance", "launch"}
Phases   == {"list", "sweep", "dispatch", "follow", "running", "suspended"}

Live(s)    == sched[s].state = "live"
Claimed(t) == status[t] # "absent"
Pending(t) == status[t] \in Active
Fresh      == {t \in Tasks : status[t] = "absent"}

(* task_runs.schedule_id is set to NULL when its Schedule is deleted.      *)
Linked(t)  == Claimed(t) /\ Live(claim[t].owner)

(* next_occurrence: the first one after an instant, 0 when there is none.  *)
NextOccurrence(s, after) ==
  IF Definition[s].kind = "recurring" THEN after + 1
  ELSE IF Definition[s].at > after THEN Definition[s].at ELSE 0

(* trigger_due drops a next occurrence that lies after the end.            *)
NextWithinEnd(s, after) ==
  LET next == NextOccurrence(s, after) IN
  IF Definition[s].endAt # 0 /\ next > Definition[s].endAt THEN 0 ELSE next

(* count_schedule_task_runs.                                               *)
OccurrenceCount(s) ==
  Cardinality({t \in Tasks : Linked(t) /\ claim[t].owner = s
                             /\ status[t] # "skipped"})

LimitReached(s) == /\ Definition[s].limit # 0
                   /\ OccurrenceCount(s) >= Definition[s].limit
-----------------------------------------------------------------------------
(* Store operations.                                                       *)

(* Operators named Mut... are mutations: each stands for a plausible bug   *)
(* in the operator that follows it and is used by no specification.        *)

MutNoRevisionCheck(s, r) == Live(s)

(* The compare-and-swap on config_revision of set_schedule_enabled and of  *)
(* claim_schedule_invocation.                                              *)
AtRevision(s, r) == Live(s) /\ sched[s].rev = r

DisableSchedule(s) ==
  sched' = [sched EXCEPT ![s].enabled = FALSE, ![s].next = 0, ![s].rev = @ + 1]

MutFinishedKeyFree(k) == \E t \in Tasks : Pending(t) /\ claim[t].key = k

KeyClaimed(k) == \E t \in Tasks : Claimed(t) /\ claim[t].key = k

MutOnlyRunningOverlaps(s) == active[s] # NoTask /\ status[active[s]] = "running"

(* The active invocation blocks a claim while its row is not terminal.     *)
Overlaps(s) == active[s] # NoTask /\ Pending(active[s])

(* claim_schedule_invocation_tx for a key no row carries: the new row, and *)
(* the runtime state, which names the row only when it is to be launched.  *)
Launches(s, wanted) == ~Overlaps(s) /\ wanted = "queued"

ClaimInvocation(s, t, r, k, wanted) ==
  /\ t \in Fresh
  /\ AtRevision(s, r)
  /\ ~KeyClaimed(k)
  /\ status' = [status EXCEPT ![t] = IF Overlaps(s) THEN "skipped" ELSE wanted]
  /\ claim' = [claim EXCEPT ![t] = [owner |-> s, rev |-> r, key |-> k]]
  /\ active' = [active EXCEPT ![s] = IF Launches(s, wanted) THEN t ELSE NoTask]
  /\ UNCHANGED run

MutTerminalOverwritten(t, to) ==
  (Claimed(t) /\ to \in Terminal) \/ CanTransition(status[t], to)

MutCancelledReopens(t, to) ==
  status[t] \in {to, "cancelled"} \/ CanTransition(status[t], to)

(* transition_task_run: rejected, or applied; a terminal status releases   *)
(* the runtime state that names the row.                                   *)
Accepts(t, to) == status[t] = to \/ CanTransition(status[t], to)

Transition(t, to) ==
  /\ status' = [status EXCEPT ![t] = to]
  /\ active' = IF to \in Terminal
               THEN [s \in Schedules |-> IF active[s] = t THEN NoTask ELSE active[s]]
               ELSE active

(* launch_claim: register a new token, replacing one that is there, and    *)
(* spawn the worker with the Schedule the caller holds.                    *)
LaunchClaim(t, o, r) ==
  /\ worker[<<t, o>>].pc = "idle"
  /\ launches' = [launches EXCEPT ![t] = o]
  /\ worker' = [worker EXCEPT ![<<t, o>>] =
                  [IdleWorker EXCEPT !.pc = "spawned", !.rev = r]]

(* A cancelled token.  Once the Run is dispatched the token only makes it  *)
(* end, in any of the ways FinishRun offers, so it is not recorded.        *)
BeforeDispatch == {"spawned", "launching", "creating", "starting", "dispatching"}

Cancelled(w) ==
  [worker[w] EXCEPT !.cancelled = @ \/ worker[w].pc \in BeforeDispatch]

-----------------------------------------------------------------------------
(* User commands.                                                          *)

(* SchedulerService::create.                                               *)
Create(s, e) ==
  /\ "create" \in Commands
  /\ accepting
  /\ sched[s].state = "absent"
  /\ e => NextOccurrence(s, now) # 0
  /\ sched' = [sched EXCEPT ![s] =
                 [state |-> "live", enabled |-> e, rev |-> 1, authority |-> 1,
                  next |-> IF e THEN NextOccurrence(s, now) ELSE 0]]
  /\ UNCHANGED <<active, taskVars, controlVars, timerVars, sweepVars,
                 launchVars, commandVars, envVars>>

(* SchedulerService::update, called with the current revision, and what    *)
(* the update_schedule command owes after it: cancelling the launches of   *)
(* the Schedule when the authority changed, then its Runs.                 *)
Update(s, e, scopeChanged) ==
  /\ "update" \in Commands
  /\ accepting
  /\ Live(s)
  /\ sched[s].rev < MaxRevision
  /\ e => NextOccurrence(s, now) # 0
  /\ sched' = [sched EXCEPT ![s].enabled = e,
                            ![s].next = IF e THEN NextOccurrence(s, now) ELSE 0,
                            ![s].rev = @ + 1,
                            ![s].authority = IF scopeChanged THEN sched[s].rev + 1
                                             ELSE @]
  /\ followUps' = followUps \cup {<<"runs", s>>}
                    \cup (IF scopeChanged THEN {<<"launches", s>>} ELSE {})
  /\ UNCHANGED <<active, taskVars, controlVars, timerVars, sweepVars,
                 launchVars, handoff, cancelling, envVars>>

(* SchedulerService::set_enabled, called with the current revision, and    *)
(* the cancellation of the Runs of a Schedule that was disabled.           *)
SetEnabled(s, e) ==
  /\ "toggle" \in Commands
  /\ accepting
  /\ Live(s)
  /\ sched[s].rev < MaxRevision
  /\ e => NextOccurrence(s, now) # 0
  /\ sched' = [sched EXCEPT ![s].enabled = e,
                            ![s].next = IF e THEN NextOccurrence(s, now) ELSE 0,
                            ![s].rev = @ + 1]
  /\ followUps' = IF e THEN followUps ELSE followUps \cup {<<"runs", s>>}
  /\ UNCHANGED <<active, taskVars, controlVars, timerVars, sweepVars,
                 launchVars, handoff, cancelling, envVars>>

(* SchedulerService::remove: the row goes, the runtime state with it.      *)
Remove(s) ==
  /\ "remove" \in Commands
  /\ accepting
  /\ Live(s)
  /\ sched' = [sched EXCEPT ![s] = [AbsentSchedule EXCEPT !.state = "removed"]]
  /\ active' = [active EXCEPT ![s] = NoTask]
  /\ followUps' = followUps \cup {<<"runs", s>>}
  /\ UNCHANGED <<taskVars, controlVars, timerVars, sweepVars, launchVars,
                 handoff, cancelling, envVars>>

(* cancel_active_launches_for_schedule.                                    *)
CancelLaunches(s) ==
  /\ <<"launches", s>> \in followUps
  /\ worker' = [w \in Workers |->
                  IF /\ launches[w[1]] = w[2]
                     /\ Linked(w[1])
                     /\ claim[w[1]].owner = s
                  THEN Cancelled(w)
                  ELSE worker[w]]
  /\ followUps' = followUps \ {<<"launches", s>>}
  /\ UNCHANGED <<scheduleVars, taskVars, controlVars, timerVars, sweepVars,
                 launches, handoff, cancelling, envVars>>

(* cancel_runs_for_permission_owner: a Run that has not started, or awaits *)
(* its recovery, is cancelled in the table.  One that executes has its     *)
(* token cancelled and may end in any way, which FinishRun allows.         *)
CancelRuns(s) ==
  /\ <<"runs", s>> \in followUps
  /\ <<"launches", s>> \notin followUps
  /\ run' = [t \in Tasks |-> IF /\ claim[t].owner = s
                                /\ run[t] \in {"queued", "recovering"}
                             THEN "cancelled" ELSE run[t]]
  /\ followUps' = followUps \ {<<"runs", s>>}
  /\ UNCHANGED <<scheduleVars, status, claim, controlVars, timerVars,
                 sweepVars, launchVars, handoff, cancelling, envVars>>

(* SchedulerService::run_now and retry, up to the committed claim.         *)
RunNow(s, t) ==
  /\ "run_now" \in Commands
  /\ accepting
  /\ ClaimInvocation(s, t, sched[s].rev, ManualKey(s, t), "queued")
  /\ handoff' = IF Launches(s, "queued") THEN handoff \cup {t} ELSE handoff
  /\ UNCHANGED <<sched, controlVars, timerVars, sweepVars, launchVars,
                 cancelling, followUps, envVars>>

Retry(p, t) ==
  /\ "retry" \in Commands
  /\ accepting
  /\ status[p] \in Retryable
  /\ Linked(p)
  /\ LET s == claim[p].owner IN
       /\ ClaimInvocation(s, t, sched[s].rev, RetryKey(p, t), "queued")
       /\ handoff' = IF Launches(s, "queued") THEN handoff \cup {t} ELSE handoff
  /\ UNCHANGED <<sched, controlVars, timerVars, sweepVars, launchVars,
                 cancelling, followUps, envVars>>

(* The launch_claim that ends run_now and retry.                           *)
LaunchHandoff(t) ==
  /\ t \in handoff
  /\ LaunchClaim(t, "claim", claim[t].rev)
  /\ handoff' = handoff \ {t}
  /\ UNCHANGED <<scheduleVars, taskVars, controlVars, timerVars, sweepVars,
                 cancelling, followUps, envVars>>

(* SchedulerService::cancel_task: a terminal row is returned as it is;     *)
(* otherwise the registered token is cancelled, and the row afterwards.    *)
CancelTask(t) ==
  /\ "cancel" \in Commands
  /\ Pending(t)
  /\ t \notin cancelling
  /\ worker' = IF launches[t] = "none" THEN worker
               ELSE [worker EXCEPT ![<<t, launches[t]>>] = Cancelled(<<t, launches[t]>>)]
  /\ cancelling' = cancelling \cup {t}
  /\ UNCHANGED <<scheduleVars, taskVars, controlVars, timerVars, sweepVars,
                 launches, handoff, followUps, envVars>>

CommitCancel(t) ==
  /\ t \in cancelling
  /\ cancelling' = cancelling \ {t}
  /\ IF Accepts(t, "cancelled") THEN Transition(t, "cancelled")
     ELSE UNCHANGED <<status, active>>
  /\ UNCHANGED <<sched, claim, run, controlVars, timerVars, sweepVars,
                 launchVars, handoff, followUps, envVars>>
-----------------------------------------------------------------------------
(* The timer: one pass of trigger_due over the Schedules that were due     *)
(* when it listed them.  An error abandons the pass; retry_operation       *)
(* starts another one, and suspends the service once it has given up.      *)

Abandon ==
  IF attempts < MaxRetries
  THEN attempts' = attempts + 1 /\ UNCHANGED <<phase, accepting>>
  ELSE attempts' = 0 /\ phase' = "suspended" /\ accepting' = FALSE

AbandonPass ==
  /\ Abandon
  /\ timerPc' = "idle" /\ passNow' = 0 /\ due' = {} /\ job' = NoJob

ContinuePass == timerPc' = "pass" /\ job' = NoJob /\ UNCHANGED <<passNow, due>>

(* list_due_schedules.  A pass that is retried runs even with nothing due. *)
TriggerDue ==
  LET found == {s \in Schedules : /\ Live(s)
                                  /\ sched[s].enabled
                                  /\ sched[s].next \in 1..now}
  IN
  /\ phase = "running"
  /\ timerPc = "idle"
  /\ found # {} \/ attempts > 0
  /\ due' = {[sched |-> s, rev |-> sched[s].rev, at |-> sched[s].next,
              task |-> NoTask] : s \in found}
  /\ passNow' = now
  /\ timerPc' = "pass"
  /\ UNCHANGED <<scheduleVars, taskVars, controlVars, job, sweepVars, launchVars,
                 commandVars, envVars>>

(* The stop conditions, from the listed definition and a fresh count.      *)
ExamineDue(d) ==
  /\ timerPc = "pass"
  /\ d \in due
  /\ due' = due \ {d}
  /\ job' = d
  /\ timerPc' = IF \/ LimitReached(d.sched)
                   \/ /\ Definition[d.sched].endAt # 0
                      /\ d.at > Definition[d.sched].endAt
                THEN "stop" ELSE "claim"
  /\ UNCHANGED <<scheduleVars, taskVars, controlVars, passNow, sweepVars,
                 launchVars, commandVars, envVars>>

StopDue ==
  /\ timerPc = "stop"
  /\ IF AtRevision(job.sched, job.rev)
     THEN /\ DisableSchedule(job.sched)
          /\ ContinuePass
          /\ UNCHANGED controlVars
     ELSE AbandonPass /\ UNCHANGED sched
  /\ UNCHANGED <<active, taskVars, sweepVars, launchVars, commandVars, envVars>>

(* The claim of the occurrence: an existing row ends it without a launch;  *)
(* a Schedule that was edited or removed since it was listed is an error.  *)
Misfired == job.at < passNow

WantedStatus == IF Misfired /\ Definition[job.sched].skipMisfire
                THEN "skipped" ELSE "queued"

ClaimDue ==
  LET s == job.sched
      k == OccurrenceKey(s, job.at)
  IN
  /\ timerPc = "claim"
  /\ \/ /\ KeyClaimed(k)
        /\ timerPc' = "advance"
        /\ UNCHANGED <<active, taskVars, controlVars, passNow, due, job>>
     \/ /\ ~KeyClaimed(k)
        /\ ~AtRevision(s, job.rev)
        /\ AbandonPass
        /\ UNCHANGED <<active, taskVars>>
     \/ \E t \in Tasks :
          /\ ClaimInvocation(s, t, job.rev, k, WantedStatus)
          /\ job' = [job EXCEPT !.task =
                       IF Launches(s, WantedStatus) THEN t ELSE NoTask]
          /\ timerPc' = "advance"
          /\ UNCHANGED <<controlVars, passNow, due>>
  /\ UNCHANGED <<sched, sweepVars, launchVars, commandVars, envVars>>

(* An "at" Schedule is disabled if it still has the listed revision; a     *)
(* recurring one gets its next occurrence whatever its revision is.        *)
AdvanceDue ==
  LET s == job.sched
      next == IF job.task = NoTask THEN "pass" ELSE "launch"
      kept == IF job.task = NoTask THEN NoJob ELSE job
  IN
  /\ timerPc = "advance"
  /\ \/ /\ Definition[s].kind = "at"
        /\ AtRevision(s, job.rev)
        /\ job' = kept
        /\ DisableSchedule(s)
        /\ timerPc' = next
        /\ UNCHANGED <<controlVars, passNow, due>>
     \/ /\ Definition[s].kind = "recurring"
        /\ Live(s)
        /\ job' = kept
        /\ sched' = [sched EXCEPT ![s].next = NextWithinEnd(s, passNow)]
        /\ timerPc' = next
        /\ UNCHANGED <<controlVars, passNow, due>>
     \/ /\ IF Definition[s].kind = "at" THEN ~AtRevision(s, job.rev) ELSE ~Live(s)
        /\ AbandonPass
        /\ UNCHANGED sched
  /\ UNCHANGED <<active, taskVars, sweepVars, launchVars, commandVars, envVars>>

LaunchDue ==
  /\ timerPc = "launch"
  /\ LaunchClaim(job.task, "claim", job.rev)
  /\ ContinuePass
  /\ UNCHANGED <<scheduleVars, taskVars, controlVars, sweepVars, commandVars,
                 envVars>>

EndPass ==
  /\ timerPc = "pass"
  /\ due = {}
  /\ timerPc' = "idle" /\ passNow' = 0 /\ job' = NoJob
  /\ attempts' = 0
  /\ UNCHANGED <<scheduleVars, taskVars, phase, accepting, due, sweepVars,
                 launchVars, commandVars, envVars>>
-----------------------------------------------------------------------------
(* The startup reconciliation: reconcile_startup over the rows it listed,  *)
(* under reconcile_with_retry; once it is done the timer starts.           *)

AbandonSweep ==
  /\ listed' = {} /\ item' = NoItem
  /\ IF attempts < MaxRetries
     THEN attempts' = attempts + 1 /\ phase' = "list" /\ UNCHANGED accepting
     ELSE attempts' = 0 /\ phase' = "suspended" /\ accepting' = FALSE

MutQueuedNotListed    == {t \in Tasks : status[t] \in {"preparing", "running"}}
MutPreparingNotListed == {t \in Tasks : status[t] \in {"queued", "running"}}

(* list_task_runs with the three statuses that are not terminal.           *)
Unfinished == {t \in Tasks : Pending(t)}

ListPending ==
  /\ phase = "list"
  /\ listed' = {[id |-> t, status |-> status[t], run |-> run[t],
                 linked |-> Linked(t)] : t \in Unfinished}
  /\ phase' = "sweep"
  /\ dropped' = {}
  /\ UNCHANGED <<scheduleVars, taskVars, accepting, attempts, timerVars, item,
                 launchVars, commandVars, now, crashes, faults>>

(* A row whose token is registered is running in this process.             *)
SkipLaunched(x) ==
  /\ phase = "sweep"
  /\ x \in listed
  /\ launches[x.id] # "none"
  /\ listed' = listed \ {x}
  /\ UNCHANGED <<scheduleVars, taskVars, controlVars, timerVars, item,
                 launchVars, commandVars, envVars>>

(* requeue_unbound_preparing_task_run, or nothing for a queued row; both   *)
(* go on to dispatch the row.                                              *)
Requeue(x) ==
  /\ phase = "sweep"
  /\ x \in listed
  /\ launches[x.id] = "none"
  /\ \/ /\ x.status = "queued"
        /\ item' = x
        /\ phase' = "dispatch"
        /\ listed' = listed \ {x}
        /\ UNCHANGED <<status, accepting, attempts>>
     \/ /\ x.status = "preparing" /\ x.run = "none"
        /\ status[x.id] = "preparing" /\ run[x.id] = "none"
        /\ status' = [status EXCEPT ![x.id] = "queued"]
        /\ item' = [x EXCEPT !.status = "queued", !.linked = Linked(x.id)]
        /\ phase' = "dispatch"
        /\ listed' = listed \ {x}
        /\ UNCHANGED <<accepting, attempts>>
     \/ /\ x.status = "preparing" /\ x.run = "none"
        /\ ~(status[x.id] = "preparing" /\ run[x.id] = "none")
        /\ AbandonSweep
        /\ UNCHANGED status
  /\ UNCHANGED <<scheduleVars, claim, run, timerVars, launchVars,
                 commandVars, envVars>>

(* A row that got past preparing follows the Run it is bound to; without   *)
(* one it needs attention.  A preparing row whose Run has ended takes two  *)
(* transitions, with the status of the Run as it was read before both.     *)
FollowRun(x) ==
  LET target == IF x.run = "none" THEN "needs_attention"
                ELSE LinkedStatus(run[x.id])
      first  == IF x.status = "preparing" /\ target # "needs_attention"
                THEN "running" ELSE target
  IN
  /\ phase = "sweep"
  /\ x \in listed
  /\ launches[x.id] = "none"
  /\ x.status = "running" \/ (x.status = "preparing" /\ x.run # "none")
  /\ \/ /\ x.status = "running" /\ target = "running"
        /\ listed' = listed \ {x}
        /\ UNCHANGED <<status, active, controlVars, item>>
     \/ /\ ~(x.status = "running" /\ target = "running")
        /\ Accepts(x.id, first)
        /\ Transition(x.id, first)
        /\ listed' = listed \ {x}
        /\ IF first = target
           THEN UNCHANGED <<controlVars, item>>
           ELSE /\ phase' = "follow"
                /\ item' = [x EXCEPT !.run = run[x.id]]
                /\ UNCHANGED <<accepting, attempts>>
     \/ /\ ~(x.status = "running" /\ target = "running")
        /\ ~Accepts(x.id, first)
        /\ AbandonSweep
        /\ UNCHANGED <<status, active>>
  /\ UNCHANGED <<sched, claim, run, timerVars, launchVars,
                 commandVars, envVars>>

FollowEnd ==
  LET target == LinkedStatus(item.run) IN
  /\ phase = "follow"
  /\ IF Accepts(item.id, target)
     THEN /\ Transition(item.id, target)
          /\ phase' = "sweep"
          /\ item' = NoItem
          /\ UNCHANGED <<accepting, attempts, listed>>
     ELSE /\ AbandonSweep
          /\ UNCHANGED <<status, active>>
  /\ UNCHANGED <<sched, claim, run, timerVars, launchVars,
                 commandVars, envVars>>

(* The launch of a queued row with the current definition.  A row that had *)
(* lost its Schedule when it was read is left alone; one whose Schedule    *)
(* went since needs attention, if the transition is accepted.              *)
Dispatch ==
  LET t == item.id IN
  /\ phase = "dispatch"
  /\ phase' = "sweep"
  /\ item' = NoItem
  /\ \/ /\ ~item.linked
        /\ UNCHANGED <<scheduleVars, status, launchVars>>
     \/ /\ item.linked
        /\ ~Live(claim[t].owner)
        /\ IF Accepts(t, "needs_attention")
           THEN Transition(t, "needs_attention")
           ELSE UNCHANGED <<status, active>>
        /\ UNCHANGED <<sched, launchVars>>
     \/ /\ item.linked
        /\ Live(claim[t].owner)
        /\ LaunchClaim(t, "reconcile", sched[claim[t].owner].rev)
        /\ UNCHANGED <<scheduleVars, status>>
  /\ UNCHANGED <<claim, run, accepting, attempts, timerVars, listed,
                 commandVars, envVars>>

(* The sweep is done: start_with_observer.                                 *)
Start ==
  /\ phase = "sweep"
  /\ listed = {}
  /\ phase' = "running"
  /\ accepting' = TRUE
  /\ attempts' = 0
  /\ UNCHANGED <<scheduleVars, taskVars, timerVars, sweepVars, launchVars,
                 commandVars, envVars>>

(* The user asks the supervisor to try again.                              *)
SupervisorRetry ==
  /\ phase = "suspended"
  /\ phase' = "list"
  /\ UNCHANGED <<scheduleVars, taskVars, accepting, attempts, timerVars,
                 sweepVars, launchVars, commandVars, envVars>>
-----------------------------------------------------------------------------
(* A worker: the task launch_claim spawned, and the desktop launcher in    *)
(* it, one step per store call.                                            *)

WorkerUnchanged == UNCHANGED <<controlVars, timerVars, sweepVars, commandVars,
                               envVars>>

Goto(w, pc) == worker' = [worker EXCEPT ![w].pc = pc]

(* The launcher returned: the outcome, and the clock, which is read once.  *)
Complete(w, outcome) ==
  worker' = [worker EXCEPT ![w] = [IdleWorker EXCEPT !.pc = "finishing",
                                                     !.outcome = outcome,
                                                     !.stop = now]]

MutTokenKept(w) == UNCHANGED launches /\ worker' = [worker EXCEPT ![w] = IdleWorker]

(* The token registered for the TaskRun goes, whoever registered it.       *)
Leave(w) ==
  /\ launches' = [launches EXCEPT ![w[1]] = "none"]
  /\ worker' = [worker EXCEPT ![w] = IdleWorker]

Prepare(w) ==
  /\ worker[w].pc = "spawned"
  /\ IF Accepts(w[1], "preparing")
     THEN /\ Transition(w[1], "preparing")
          /\ Goto(w, "launching")
          /\ UNCHANGED launches
     ELSE /\ Leave(w)
          /\ UNCHANGED <<status, active>>
  /\ UNCHANGED <<sched, claim, run>>
  /\ WorkerUnchanged

(* The schedule.before hook and validate_schedule_runtime: a definition    *)
(* that is not the claimed one, or is gone, needs attention, and so does   *)
(* any revision, sandbox or extension that is not ready.                   *)
Stale(w) == worker[w].rev # claim[w[1]].rev \/ ~Linked(w[1])

Validate(w) ==
  /\ worker[w].pc = "launching"
  /\ \/ \E outcome \in LaunchFailures : Complete(w, outcome)
     \/ Stale(w) /\ Complete(w, "needs_attention")
     \/ ~Stale(w) /\ Goto(w, "creating")
  /\ UNCHANGED <<scheduleVars, taskVars, launches>>
  /\ WorkerUnchanged

(* create_agent_run_for_schedule: one Run per TaskRun, by its idempotency  *)
(* key, bound in the transaction that creates it and only while preparing. *)
CreateRun(w) ==
  /\ worker[w].pc = "creating"
  /\ \/ /\ status[w[1]] = "preparing"
        /\ run' = [run EXCEPT ![w[1]] = IF @ = "none" THEN "queued" ELSE @]
        /\ Goto(w, "starting")
     \/ /\ status[w[1]] # "preparing"
        /\ Complete(w, "failed")
        /\ UNCHANGED run
     \/ /\ \E outcome \in LaunchFailures : Complete(w, outcome)
        /\ UNCHANGED run
  /\ UNCHANGED <<scheduleVars, status, claim, launches>>
  /\ WorkerUnchanged

StartRun(w) ==
  /\ worker[w].pc = "starting"
  /\ IF Accepts(w[1], "running")
     THEN Transition(w[1], "running") /\ Goto(w, "dispatching")
     ELSE Complete(w, "failed") /\ UNCHANGED <<status, active>>
  /\ UNCHANGED <<sched, claim, run, launches>>
  /\ WorkerUnchanged

(* execute_created_run looks at its token once before it dispatches.       *)
DispatchRun(w) ==
  /\ worker[w].pc = "dispatching"
  /\ IF worker[w].cancelled
     THEN Complete(w, OutcomeOf(run[w[1]]))
     ELSE Goto(w, "registering")
  /\ UNCHANGED <<scheduleVars, taskVars, launches>>
  /\ WorkerUnchanged

MutNotRegistered(t) == FALSE

(* The registry of the executor, in memory: a worker holds the Run.        *)
Holding == {"registered", "executing"}

Registered(t) == \E o \in Origins : worker[<<t, o>>].pc \in Holding

(* ensure_run_failed: whoever got an error fails a Run that has not ended. *)
FailRun(t) == run' = [run EXCEPT ![t] = IF @ \in RunEnds THEN @ ELSE "failed"]

(* AgentRunExecutor::execute registers the Run, or is refused because it   *)
(* is registered already.                                                  *)
RegisterRun(w) ==
  /\ worker[w].pc = "registering"
  /\ IF Registered(w[1])
     THEN FailRun(w[1]) /\ Complete(w, OutcomeOf(run'[w[1]]))
     ELSE Goto(w, "registered") /\ UNCHANGED run
  /\ UNCHANGED <<scheduleVars, status, claim, launches>>
  /\ WorkerUnchanged

(* Then it waits for its turn, checks that the Run has not ended, and      *)
(* starts it; any error on the way fails the Run.                          *)
BeginRun(w) ==
  /\ worker[w].pc = "registered"
  /\ \/ /\ run[w[1]] = "queued"
        /\ run' = [run EXCEPT ![w[1]] = "active"]
        /\ Goto(w, "executing")
     \/ /\ run[w[1]] # "queued" \/ "failed" \in LaunchFailures
        /\ FailRun(w[1])
        /\ Complete(w, OutcomeOf(run'[w[1]]))
  /\ UNCHANGED <<scheduleVars, status, claim, launches>>
  /\ WorkerUnchanged

(* The Run ends; one that was failed meanwhile stays so.                   *)
EndsAs(t, ending) ==
  run' = [run EXCEPT ![t] = IF @ = "active" THEN ending[1] ELSE @]

FinishRun(w) ==
  /\ worker[w].pc = "executing"
  /\ \E ending \in Endings :
       /\ EndsAs(w[1], ending)
       /\ Complete(w, IF ending[2] = OutcomeOf(ending[1])
                      THEN OutcomeOf(run'[w[1]]) ELSE ending[2])
  /\ UNCHANGED <<scheduleVars, status, claim, launches>>
  /\ WorkerUnchanged

(* The transition to the outcome.  When it is rejected the worker ends.    *)
(* (A success reported for a row that is still preparing would go through  *)
(* running first.  No worker reports one: WorkersOK of                     *)
(* SchedulerSweepProofs.)                                                  *)
Finish(w) ==
  /\ worker[w].pc = "finishing"
  /\ IF Accepts(w[1], worker[w].outcome)
     THEN /\ Transition(w[1], worker[w].outcome)
          /\ Goto(w, "stopping")
          /\ UNCHANGED launches
     ELSE Leave(w) /\ UNCHANGED <<status, active>>
  /\ UNCHANGED <<sched, claim, run>>
  /\ WorkerUnchanged

(* apply_stop_conditions: the reads, then the compare-and-swap on the      *)
(* revision it read ("stop" from here on), whose conflict is ignored.  The *)
(* notification that follows changes a label nothing reads, so the worker  *)
(* ends here.                                                              *)
ReadStopConditions(w) ==
  LET s == claim[w[1]].owner IN
  /\ worker[w].pc = "stopping"
  /\ IF /\ Live(s)
        /\ sched[s].enabled
        /\ \/ worker[w].outcome = "succeeded" /\ Definition[s].stopAfterSuccess
           \/ LimitReached(s)
           \/ Definition[s].endAt # 0 /\ worker[w].stop >= Definition[s].endAt
     THEN /\ worker' = [worker EXCEPT ![w].pc = "disabling", ![w].stop = sched[s].rev]
          /\ UNCHANGED launches
     ELSE Leave(w)
  /\ UNCHANGED <<scheduleVars, taskVars>>
  /\ WorkerUnchanged

ApplyStop(w) ==
  LET s == claim[w[1]].owner IN
  /\ worker[w].pc = "disabling"
  /\ IF AtRevision(s, worker[w].stop) THEN DisableSchedule(s) ELSE UNCHANGED sched
  /\ Leave(w)
  /\ UNCHANGED <<active, taskVars>>
  /\ WorkerUnchanged
-----------------------------------------------------------------------------
(* Calls that fail.  Each changes nothing in the tables; what matters is   *)
(* where the caller goes, and what it no longer holds.                     *)

Fault == /\ faults < MaxFaults
         /\ faults' = faults + 1
         /\ UNCHANGED <<now, crashes>>

Drop(t) == dropped' = dropped \cup ({t} \cap Unfinished)

(* An error of next_schedule_wakeup or anywhere in trigger_due abandons    *)
(* the pass.  After the claim has committed (next_occurrence,              *)
(* set_schedule_enabled, update_schedule_next_run) that leaves the new row *)
(* to nobody: the retried pass finds its key and launches nothing.         *)
TimerFails ==
  /\ Fault
  /\ phase = "running"
  /\ timerPc # "launch"
  /\ AbandonPass
  /\ IF job.task \in Tasks THEN Drop(job.task) ELSE UNCHANGED dropped
  /\ UNCHANGED <<scheduleVars, taskVars, sweepVars, launchVars, commandVars>>

(* An error in reconcile_startup abandons the sweep, which is tried again; *)
(* only the transition of a row without a Schedule may fail unnoticed.     *)
SweepFails ==
  /\ Fault
  /\ \/ /\ \/ phase \in {"list", "follow"}
           \/ phase = "dispatch" /\ item.linked
           \/ /\ phase = "sweep"
              /\ \E x \in listed : launches[x.id] = "none" /\ x.status # "queued"
        /\ AbandonSweep
     \/ /\ phase = "dispatch" /\ item.linked /\ ~Live(claim[item.id].owner)
        /\ phase' = "sweep" /\ item' = NoItem
        /\ UNCHANGED <<accepting, attempts, listed>>
  /\ UNCHANGED <<scheduleVars, taskVars, timerVars, launchVars, commandVars, dropped>>

(* A worker whose first transition fails, or whose last one, returns with  *)
(* its row as it is; an error of the launcher, also in the reads after the *)
(* Run has ended, is a failed launch.                                      *)
WorkerFails(w) ==
  /\ Fault
  /\ \/ /\ worker[w].pc \in {"spawned", "finishing"}
        /\ Leave(w) /\ Drop(w[1])
        /\ UNCHANGED run
     \/ /\ worker[w].pc \in {"launching", "creating", "starting"}
        /\ Complete(w, "failed")
        /\ UNCHANGED <<run, launches, dropped>>
     \/ /\ worker[w].pc = "executing"
        /\ \E ending \in Endings : EndsAs(w[1], ending)
        /\ Complete(w, "failed")
        /\ UNCHANGED <<launches, dropped>>
     \/ /\ worker[w].pc \in {"stopping", "disabling"}
        /\ Leave(w)
        /\ UNCHANGED <<run, dropped>>
  /\ UNCHANGED <<scheduleVars, status, claim, controlVars, timerVars, sweepVars,
                 commandVars>>

(* A command whose edit is committed and that meets an error in the        *)
(* cancellations it owes leaves the rest of them undone.  (A transition    *)
(* that fails in cancel_task is a CommitCancel that is never taken.)       *)
CommandFails ==
  /\ Fault
  /\ \E f \in followUps : followUps' = followUps \ {f, <<"runs", f[2]>>}
  /\ UNCHANGED <<scheduleVars, taskVars, controlVars, timerVars, sweepVars,
                 launchVars, handoff, cancelling, dropped>>
-----------------------------------------------------------------------------
(* A crash and the restart that follows: recover_interrupted declares the  *)
(* running rows lost, in one transaction and before anything else of this  *)
(* module starts.  It leaves schedule_runtime_state as it is.              *)
Restart ==
  /\ crashes < MaxCrashes
  /\ crashes' = crashes + 1
  /\ status' = [t \in Tasks |-> IF status[t] = "running" THEN "lost" ELSE status[t]]
  /\ run' = [t \in Tasks |-> IF run[t] = "active" THEN "recovering" ELSE run[t]]
  /\ phase' = "list" /\ accepting' = TRUE /\ attempts' = 0
  /\ timerPc' = "idle" /\ passNow' = 0 /\ due' = {} /\ job' = NoJob
  /\ listed' = {} /\ item' = NoItem
  /\ launches' = [t \in Tasks |-> "none"]
  /\ worker' = [w \in Workers |-> IdleWorker]
  /\ handoff' = {} /\ cancelling' = {} /\ followUps' = {}
  /\ dropped' = {}
  /\ UNCHANGED <<scheduleVars, claim, now, faults>>

Tick ==
  /\ now < MaxNow
  /\ now' = now + 1
  /\ UNCHANGED <<scheduleVars, taskVars, controlVars, timerVars, sweepVars,
                 launchVars, commandVars, crashes, faults, dropped>>

(* Nothing to do, or the pool of identifiers is used up: the timer sleeps. *)
Idle ==
  /\ \/ Fresh = {}
     \/ /\ phase \in {"running", "suspended"}
        /\ timerPc = "idle"
        /\ handoff = {} /\ cancelling = {} /\ followUps = {}
        /\ \A w \in Workers : worker[w].pc = "idle"
  /\ UNCHANGED vars

Init ==
  /\ sched = [s \in Schedules |-> AbsentSchedule]
  /\ active = [s \in Schedules |-> NoTask]
  /\ status = [t \in Tasks |-> "absent"]
  /\ claim = [t \in Tasks |-> NoClaim]
  /\ run = [t \in Tasks |-> "none"]
  /\ now = 0
  /\ phase = "list" /\ accepting = TRUE /\ attempts = 0
  /\ timerPc = "idle" /\ passNow = 0 /\ due = {} /\ job = NoJob
  /\ listed = {} /\ item = NoItem
  /\ launches = [t \in Tasks |-> "none"]
  /\ worker = [w \in Workers |-> IdleWorker]
  /\ handoff = {} /\ cancelling = {} /\ followUps = {}
  /\ crashes = 0 /\ faults = 0 /\ dropped = {}

Command ==
  \/ \E s \in Schedules :
       \/ \E e \in BOOLEAN : Create(s, e) \/ SetEnabled(s, e)
       \/ \E e, scopeChanged \in BOOLEAN : Update(s, e, scopeChanged)
       \/ Remove(s)
       \/ \E t \in Tasks : RunNow(s, t)
  \/ \E p, t \in Tasks : Retry(p, t)
  \/ \E t \in Tasks : CancelTask(t)

(* What commands that were accepted go on to do.                           *)
Finishing ==
  \/ \E t \in Tasks : LaunchHandoff(t) \/ CommitCancel(t)
  \/ \E s \in Schedules : CancelLaunches(s) \/ CancelRuns(s)

TimerStep ==
  \/ TriggerDue
  \/ \E d \in due : ExamineDue(d)
  \/ StopDue \/ ClaimDue \/ AdvanceDue \/ LaunchDue \/ EndPass

SweepStep ==
  \/ ListPending
  \/ \E x \in listed : SkipLaunched(x) \/ Requeue(x) \/ FollowRun(x)
  \/ FollowEnd
  \/ Dispatch
  \/ Start

WorkerStep(w) ==
  \/ Prepare(w) \/ Validate(w) \/ CreateRun(w) \/ StartRun(w)
  \/ DispatchRun(w) \/ RegisterRun(w) \/ BeginRun(w) \/ FinishRun(w)
  \/ Finish(w) \/ ReadStopConditions(w) \/ ApplyStop(w)

Failing ==
  \/ TimerFails \/ SweepFails \/ CommandFails
  \/ \E w \in Workers : WorkerFails(w)

Next ==
  \/ Command
  \/ Finishing
  \/ TimerStep
  \/ SweepStep
  \/ SupervisorRetry
  \/ \E w \in Workers : WorkerStep(w)
  \/ Failing
  \/ Restart
  \/ Tick
  \/ Idle

Spec == Init /\ [][Next]_vars

(* The executor justifies weak fairness of every step of the process: the  *)
(* tasks are polled, store calls return, and a Run ends by itself or by    *)
(* the timeout of its Schedule.  Commands, crashes, failing calls, the     *)
(* clock and the user's request to retry are not fair.                     *)
Fairness ==
  /\ WF_vars(TimerStep)
  /\ WF_vars(SweepStep)
  /\ WF_vars(Finishing)
  /\ \A w \in Workers : WF_vars(WorkerStep(w))

FairSpec == Spec /\ Fairness
-----------------------------------------------------------------------------
(* Properties.                                                             *)

Snapshots == [id: Tasks, status: Active, run: RunStatuses, linked: BOOLEAN]
DueItems  == [sched: Schedules, rev: Nat, at: Nat, task: {NoTask}]
Jobs      == [sched: Schedules, rev: Nat, at: Nat, task: Tasks \cup {NoTask}]
WorkerStates == [pc: WorkerPcs, rev: Nat, cancelled: BOOLEAN,
                 outcome: TaskStatuses \cup {"absent"}, stop: Nat]

TablesOK ==
  /\ sched \in [Schedules -> [state: {"absent", "live", "removed"},
                              enabled: BOOLEAN, rev: Nat, authority: Nat,
                              next: Nat]]
  /\ active \in [Schedules -> Tasks \cup {NoTask}]
  /\ status \in [Tasks -> TaskStatuses \cup {"absent"}]
  /\ claim \in [Tasks -> [owner: Schedules, rev: Nat, key: Keys] \cup {NoClaim}]
  /\ run \in [Tasks -> RunStatuses]

ControlOK ==
  /\ now \in Nat
  /\ phase \in Phases
  /\ accepting \in BOOLEAN
  /\ attempts \in 0..MaxRetries
  /\ crashes \in Nat
  /\ faults \in Nat
  /\ dropped \subseteq Tasks

TimerOK ==
  /\ timerPc \in TimerPcs
  /\ passNow \in Nat
  /\ due \subseteq DueItems
  /\ job \in Jobs \cup {NoJob}

SweepOK ==
  /\ listed \subseteq Snapshots
  /\ item \in Snapshots \cup {NoItem}

LaunchOK ==
  /\ launches \in [Tasks -> Origins \cup {"none"}]
  /\ worker \in [Workers -> WorkerStates]

CommandsOK ==
  /\ handoff \subseteq Tasks
  /\ cancelling \subseteq Tasks
  /\ followUps \subseteq {"launches", "runs"} \X Schedules

(* Every variable holds values the code can store, and the retry counters  *)
(* stay within the delays the code has for them.                           *)
TypeOK == TablesOK /\ ControlOK /\ TimerOK /\ SweepOK /\ LaunchOK /\ CommandsOK

(* No occurrence, manual request or retry is claimed twice: the listing of *)
(* a pass is stale by the time it claims, passes are retried after errors, *)
(* and a restart fires what was due again.                                 *)
InvocationUnique ==
  \A t, u \in Tasks :
    Claimed(t) /\ Claimed(u) /\ claim[t].key = claim[u].key => t = u

(* As long as no occurrence of a Schedule was recorded as skipped, every   *)
(* invocation of it that is not terminal is the one the runtime state      *)
(* names, so there is at most one.  (A skipped claim overwrites the        *)
(* runtime state: AtMostOneActive shows what follows.)                     *)
NoOverlapBeforeSkip ==
  \A s \in Schedules :
    Live(s) /\ (\A t \in Tasks : claim[t].owner = s => status[t] # "skipped")
      => \A t \in Tasks : claim[t].owner = s /\ Pending(t) => active[s] = t

(* docs/adr/0003, decision 4: at most one invocation per Schedule may be   *)
(* active, a later overlapping occurrence is recorded as skipped.          *)
AtMostOneActive ==
  \A s \in Schedules : \A t, u \in Tasks :
    /\ Live(s) /\ claim[t].owner = s /\ claim[u].owner = s
    /\ Pending(t) /\ Pending(u)
    => t = u

(* Even when the reconciliation and the code that claimed a TaskRun both   *)
(* launch it, one worker at most holds its Run, and a Run that executes    *)
(* does not show as queued, so that nobody starts or withdraws it.         *)
OneExecutor ==
  \A t \in Tasks, o \in Origins :
    worker[<<t, o>>].pc \in Holding
      => /\ worker[<<t, o>>].pc = "executing" => run[t] \notin {"none", "queued"}
         /\ \A other \in Origins :
              worker[<<t, other>>].pc \in Holding => other = o

(* HARNESS_AGENT_ARCHITECTURE_AND_IMPLEMENTATION.md section 9: a queued    *)
(* claim can be dispatched again safely.  A TaskRun that was settled, other *)
(* than by a cancellation, has no worker executing its Run.                *)
SettledNotExecuting ==
  \A t \in Tasks, o \in Origins :
    status[t] \in Terminal \ {"cancelled"} => worker[<<t, o>>].pc # "executing"

Repeating == {s \in Schedules : Definition[s].kind = "recurring"}

Carried(t) == \/ t \in handoff
              \/ job.task = t
              \/ \E o \in Origins : worker[<<t, o>>].pc # "idle"

(* Once the scheduler runs, a claimed invocation that has not started is   *)
(* on its way: somebody still holds it.  Edits, refused launches, retried  *)
(* passes and crashes lose none; one call that fails may lose the row its  *)
(* caller held, and no other, and only until the next reconciliation lists *)
(* the table, after a restart or a retry of the supervisor.  (An "at"      *)
(* Schedule or one that was removed is excluded: an edit between the claim *)
(* and the advance of a pass abandons the claimed row.)                    *)
NoLostInvocation ==
  phase = "running" =>
    \A t \in Tasks :
      /\ status[t] \in {"queued", "preparing"}
      /\ Linked(t)
      /\ claim[t].owner \in Repeating
      => Carried(t) \/ t \in dropped

(* HARNESS_AGENT_ARCHITECTURE_AND_IMPLEMENTATION.md section 9: on restart, *)
(* a running TaskRun without an executor becomes lost.                     *)
RunningHasExecutor ==
  phase = "running" => \A t \in Tasks : status[t] = "running" => Carried(t)

(* A terminal TaskRun keeps its status: a late completion, a cancellation, *)
(* the reconciliation or a second worker never overwrites it.              *)
TerminalFinal ==
  [][\A t \in Tasks : status[t] \in Terminal => status'[t] = status[t]]_vars

(* The timer claims an occurrence only of a Schedule that is enabled in    *)
(* that very step, though it listed it earlier: disabling or removing a    *)
(* Schedule takes effect at once.                                          *)
ScheduledOnlyWhileEnabled ==
  [][\A t \in Tasks :
       status[t] = "absent" /\ status'[t] # "absent" /\ claim'[t].key[1] = "schedule"
         => Live(claim'[t].owner) /\ sched[claim'[t].owner].enabled]_vars

(* scheduler_commands.rs: schedule_definition_stale, the definition        *)
(* changed after this invocation was claimed.  Once the cancellations an   *)
(* authority change owes are done, no invocation claimed before it starts  *)
(* executing.                                                              *)
SupersededNeverStarts ==
  [][\A w \in Workers :
       LET s == claim[w[1]].owner IN
       /\ worker[w].pc = "registered" /\ worker'[w].pc = "executing"
       /\ Linked(w[1])
       /\ claim[w[1]].rev < sched[s].authority
       => <<"launches", s>> \in followUps \/ <<"runs", s>> \in followUps]_vars

(* HARNESS_AGENT_ARCHITECTURE_AND_IMPLEMENTATION.md section 9: a queued    *)
(* claim can be dispatched again safely after a restart.  Without edits by *)
(* the user no invocation is refused as stale.                             *)
NeverStaleWithoutEdits ==
  \A w \in Workers : worker[w].pc = "launching" => ~Stale(w)

(* A launched invocation does not occupy active_launches for ever.         *)
LaunchEnds ==
  \A t \in Tasks : launches[t] # "none" ~> launches[t] = "none"

(* A queued invocation of a recurring Schedule leaves the queue, unless    *)
(* its Schedule is removed, the scheduler gives up, or a failing call took *)
(* it from its holder: then it stays until the next reconciliation, which  *)
(* takes it out of dropped and owes it the same again.                     *)
QueuedMoves ==
  \A t \in Tasks :
    (status[t] = "queued" /\ Linked(t) /\ claim[t].owner \in Repeating)
      ~> (status[t] # "queued" \/ ~Linked(t) \/ phase = "suspended" \/ t \in dropped)

(* The Scheduler implements the ledger of invocations.                     *)
StageOf(t) == IF status[t] = "absent" THEN "free"
              ELSE IF Pending(t) THEN "claimed" ELSE "settled"

Ledger == INSTANCE InvocationLedger
  WITH Entries <- Tasks, NoKey <- NoClaim.key,
       key <- [t \in Tasks |-> claim[t].key],
       stage <- [t \in Tasks |-> StageOf(t)],
       spent <- {t \in Tasks : run[t] \notin {"none", "queued"}}

ImplementsLedger == Ledger!LedgerSpec
=============================================================================
