# Hachimi Agent runtime: verification project

Hachimi is a Windows desktop agent. Its durable core is a Rust runtime: a
Scheduler, an Agent executor with side effect tracking, child agents and crash
recovery, brokers for the user's approvals, and a Gateway to chat channels, all
over one SQLite store (a pool of one connection, WAL), embedded in a Tauri
process with TypeScript windows; the Gateway's network side is a second process
of the same binary. This directory holds TLA+ models of that runtime, TLC
configurations that check them on small instances, and TLAPS proofs about them.
Paths below are relative to the repository; `crates/X` abbreviates
`crates/hachimi-X`, `desktop` abbreviates `apps/desktop/src-tauri/src`.

## 1. Inventory

### Components, their state and operations

| Component | State | Operations | Model |
|---|---|---|---|
| Scheduler service `crates/scheduler` | `accepting`, `active_launches` (a token per TaskRun), injected clock, timer task | create, update, set_enabled, remove, run_now, retry, cancel_task, reconcile_startup, trigger_due, launch_claim, ingest_event, suspend | `Scheduler` |
| Scheduler storage `crates/storage/src/agent_store/schedule.rs` | `schedule_definitions`, `schedule_runtime_state`, `task_runs` | claims (unique key, overlap check), transitions, binding, requeue, listing | `Scheduler` |
| Event ingress `scheduler/src/event.rs`, `schedule_event.rs` | event ledger, its links to TaskRuns | ingest once per (source, event id), cleanup after 30 days | not modelled |
| Launcher `desktop/scheduler_commands.rs` | none of its own | validate, create and bind a Run, execute it, map its end to an outcome; follow-up cancellations of the commands | `Scheduler` |
| Supervisor `desktop/scheduler_runtime.rs` | phase, attempts | reconcile with retries, start, suspend, retry on request | `Scheduler` |
| Run store `crates/storage/src/agent_store.rs`, `lifecycle.rs`, `run_bundle.rs` | `runs` (status, generation), sessions, events, leases | create, transition, preconditions, authority snapshots | in the modules that call it |
| Run recovery `agent_store/recovery.rs`, `side_effects.rs` | `run_recoveries`, `run_step_checkpoints`, `side_effect_executions` | checkpoint, claim, dispatch, finish an effect; recover_interrupted; decisions; recovery fence | `RunRecovery` |
| Tool loop `crates/agent/src/tool_loop.rs`, `tool_runtime.rs`, `security_tools.rs`, `run_projection.rs` | the conversation, the token of the Run and of each call | prepare, sample, call, authorize, execute, time out, close | `RunRecovery`, its questions `ToolApprovals` |
| Workbench Run commands `desktop/workbench_commands.rs` | none of their own | spawn, cancel, decide about a recovery, resume automatically | `RunRecovery`, `ToolApprovals`, `AgentTasks` |
| Session lanes, executor registry `agent/src/session_lane.rs`, `run_runtime.rs` | an epoch and a gate per Session, the registered execution per Run, background slots | enter, reset, leave; register, cancel with descendants, execute, remove, compact_session | `ExecutorRegistry` |
| Multi agent supervisor `agent/src/multi_agent.rs`, `agent_store/agent_tasks.rs` | `agent_tasks` (status, lease, generation), one future per launched Task | spawn, wait, collect, cancel, launch with heartbeat, settle, reconcile_startup | `AgentTasks` |
| Approvals, user input `crates/approvals`, `crates/user-input` | `approval_requests`, `user_input_requests`, a oneshot channel per waiter | request, resolve, expire, cancel with the Run, session approvals, consumption | `ToolApprovals` |
| Gateway, outbound `crates/gateway/src/durable.rs` | `channel_outbox` (status, attempt, claim, dispatch mark) | enqueue, claim, authorize, mark, send, finish, reconcile | `ChannelOutbox` |
| Gateway, inbound `official_provider.rs`, `durable.rs`, `channel_agent_dispatch.rs`, `desktop/gateway_runtime.rs`, `gateway_process.rs` | `channel_ingress`, the account's queue and recent identifiers in memory | receive, normalize, insert, answer, claim, launch, execute, reply, close, reconcile | `ChannelIntake`, `ChannelDispatch` |
| Permission runtime `desktop/permission_runtime.rs` | revisions of owners | invalidate grants, cancel Runs of an owner | cancellation of Runs, in `Scheduler` and `RunRecovery` |
| MCP, capabilities, extensions, skills | server generations, installed packages | start, restart, enable, roll back | not modelled |
| Workspace, workbench, sandbox, process host | checkouts, leases, child processes | hand off, patch, spawn, reconnect | not modelled: mostly I/O |
| Model access, browser, computer, connectors, forge | connections | HTTP and host calls | not modelled: I/O |
| Avatar, motion, voice, windowing, UI packages | rendering | | not modelled: no durable state |

### How they interact

- Commands of the windows reach `SchedulerService` through Tauri handlers while
  the timer loop, the start-up reconciliation and the launch workers run as
  tokio tasks of the same process. They share the store, where every call is
  one statement or transaction, and `active_launches`.
- `launch_claim` spawns a worker that calls the injected launcher; the launcher
  creates a Run bound to the TaskRun in one transaction and hands it to the
  executor, which registers it in memory, waits for a background slot and the
  lane of its Session, and runs the tool loop.
- Editing commands commit the definition first and cancel its launches and its
  Runs afterwards.
- On start `recover_interrupted` rewrites what the dead process left, then the
  coordinator of child agents inspects their Tasks, the supervisor reconciles
  the TaskRuns, the timer starts, and Runs with a replayable checkpoint are
  resumed by a task of their own; the others wait for a command that decides.
- A tool call passes the recovery fence, the policy and perhaps an approval, and
  then writes its row of the side effect ledger before and after the host
  executes it. Cancellation reaches it twice, through the token and through the
  status of the Run's row, in two steps.
- `registry.cancel` cancels the token of one execution, then resets the lane of
  its Session, then walks the registered descendants. Whoever launched a child
  hears of its parent's cancellation through the token of the parent's turn.
- A question is a row, an entry with a oneshot channel in memory and a waiting
  status of the Run, written by three actors: the call, the command that
  answers, and the command that cancels.
- The `--gateway` process receives from the platforms and inserts rows; the
  desktop claims them, creates and executes Runs, and enqueues replies; both
  processes send the replies. The tables are all they share; claims run out
  after 60 s and either process may reconcile at any moment.

### What is hard here

Concurrency between commands, timers, reconciliations and workers at every
await; claims made from a stale listing; tokens that are registered after the
claim they belong to; a cancellation consumed by a select that listens once;
futures dropped between two store calls; late completions; leases that outlive
the process that took them; claims that run out under a live owner;
acknowledgements given before something is durable; crashes between any two
store calls; retries of whole passes; liveness of rows that no task carries;
effects whose outcome nobody knows, and decisions and approvals that must hold
for calls made later under other identifiers. Every such place that a property
covers, or that a configuration here shows going wrong, is listed under
"hazards" in `PROJECT.json`; section 7 lists further ones met while reading.

### What makes each component correct

- *Scheduler*: an invocation key is claimed once, whatever is retried or
  restarted; a settled TaskRun stays settled; occurrences are claimed of enabled
  Schedules only; invocations of one Schedule do not overlap; a Run has one
  executor; edits, retries and crashes lose no claimed occurrence, a failing call
  at most the one its caller held, and every launch ends.
- *Run recovery and tool loop*: an effect is claimed before it is sent and sent
  once; what was sent is never taken for unsent; an unknown effect is resumed
  over by a person only; a decision covers the operation it was made about,
  under any call identifier; a waiting Run can be decided; an ended Run stays
  as it ended; executors end, and a Run that was handed to one does not stay
  queued.
- *Lanes and registry*: of a Session's executions and compactions one is past
  the gate; slots and entries are given back on every way out; a fenced
  execution leaves however long the others' turns take and never reports
  success; a cancelled parent leaves no registered child uncancelled.
- *Child agents*: a lease belongs to an executor that runs; the Task of an ended
  Run is not left open; a start-up forgets no Task; a cancelled Task stops (each
  but for a gap of the code, which section 3 names).
- *Questions*: what takes effect was granted under the same authority; a Run
  waits only while a call of it waits; an accepted answer counts; no call is let
  through to its host once the cancellation has returned; every call comes back.
- *Outbox*: what a row says can be relied on, a settled row never changes, a
  message goes out again only when its provider asked for it, every delivery
  settles.
- *Inbox*: an answered hook is stored; a stored message is settled in the end
  and once; a chat has one Run at a time; what it is told is true.

## 2. Plan

The order in which the models were written, the most consequential behaviour
first:

1. `Scheduler` with the abstract `InvocationLedger`;
2. `RunRecovery` with the abstract `EffectLedger`;
3. `ExecutorRegistry` with the abstract `LaneLedger`: the registration both
   models above take as one step;
4. `AgentTasks`, which takes an execution from 3 as given;
5. `ChannelOutbox` with the abstract `DeliveryLedger`;
6. `ChannelIntake` and `ChannelDispatch`, composed over the shared rows;
7. `ToolApprovals` with the abstract `GrantLedger`: the questions that
   `RunRecovery` has as one wait.

Each is checked first, then proved about. What is worth doing next: a module for
the event ledger of the Scheduler composed with its claims; parallel calls of one
response and several unknown effects in `RunRecovery`; the MCP supervisor's
generations; an abstract specification of the execution lease that `AgentTasks`
implements, its refinement proved as for the other ledgers.

## 3. Modules

| Module | What it is |
|---|---|
| `TaskRunStatus` | the status tables of a TaskRun and of the Run it is bound to |
| `Scheduler` | the Scheduler, its storage, its launcher and its supervisor |
| `InvocationLedger` | what the Scheduler promises about invocations (abstract) |
| `RunRecovery` | one Run, its tool calls with side effects, its restarts and decisions |
| `EffectLedger` | what the ledger of side effects promises (abstract) |
| `ExecutorRegistry` | lanes, registry, slots, and execute from registration to removal |
| `LaneLedger` | one holder per Session, and no success of a fenced execution (abstract) |
| `AgentTasks` | the Tasks of child agents, their executors, leases and start-up |
| `ChannelOutbox` | the outbox and its workers in two processes |
| `DeliveryLedger` | a delivery sent once, and once more for each retry its provider asks for (abstract) |
| `ChannelIntake` | from a platform's event or request to a row of the inbox |
| `ChannelDispatch` | `ChannelIntake` composed with the loop that answers the rows |
| `ToolApprovals` | questions, their waiters, and what the calls do with the answers |
| `GrantLedger` | a request decided once, claimed only while given, used once (abstract) |
| `MC*` | instances of each model for TLC |
| `*Proofs` | theorems: `Scheduler`, `RunRecovery`, `ExecutorRegistry`, `AgentTasks`, `ChannelOutbox`, `ChannelDispatch`, `ToolApprovals` |
| `SchedulerSweepProofs` | that no claimed invocation is lost, on top of `SchedulerProofs` |

The models meet at the Run and divide it. For `Scheduler` and `ChannelDispatch` a
Run is a status and an executor that ends it in some way; `ExecutorRegistry`
says when that executor may start and how it is told to stop, with the turn as
one step; `RunRecovery` is the turn with its effects and its restarts, with a
question as one wait; `ToolApprovals` is that wait; `AgentTasks` is the tool that
launches further Runs.

`PROJECT.json` maps every definition to the lines it models. Definitions whose
name starts with `Mut` are faulty variants of the definition that follows them,
used to confirm that a property notices.

### Scheduler and the code

Every store call is one step: it is one statement or one transaction on a pool
of one connection. Between two of them any other task may run. The tables are
`sched`, `active`, `status`, `claim` and `run`; they survive `Restart`. All other
variables are memory of the process.

- *Commands* `Create`, `Update`, `SetEnabled`, `Remove`, `RunNow`, `Retry`,
  `CancelTask` are the methods of `SchedulerService` with the desktop commands
  around them. What a command does after its commit is a step of its own:
  `CancelLaunches`, `CancelRuns` (owed in `followUps`), `LaunchHandoff` (owed in
  `handoff`), `CommitCancel` (owed in `cancelling`).
- *The timer* lists (`TriggerDue`), takes one entry (`ExamineDue`), stops it
  (`StopDue`) or claims (`ClaimDue`), advances (`AdvanceDue`) and launches
  (`LaunchDue`). A write that finds its Schedule edited or removed abandons the
  pass (`AbandonPass`), up to `MaxRetries` times before the service is suspended.
- *The reconciliation* lists (`ListPending`) and treats each row: `SkipLaunched`,
  `Requeue`, `FollowRun` with `FollowEnd`, `Dispatch`; then `Start`.
- *A worker* `<<TaskRun, origin>>` walks through launch_claim and the launcher:
  `Prepare`, `Validate`, `CreateRun`, `StartRun`, `DispatchRun`, `RegisterRun`,
  `BeginRun`, `FinishRun`, `Finish`, `ReadStopConditions`, `ApplyStop`. The
  origin says whether the claiming code or the reconciliation launched it, so
  two workers of one TaskRun can exist, and no more than that.
- *Failing calls* (`Failing`), `MaxFaults` of them: a call of the store, or
  `next_occurrence`, returns an error and changes nothing. `TimerFails` abandons
  the pass wherever it is, also after the claim of a row has committed;
  `SweepFails` abandons the reconciliation, or skips the row whose transition may
  fail unnoticed; `WorkerFails` ends a worker before its first or at its last
  transition, and is a failed launch in between; `CommandFails` leaves undone the
  cancellations a committed edit owes. `dropped` is history: the waiting rows
  such a failure took from their holder since the reconciliation last listed the
  table. `NoLostInvocation` and `QueuedMoves` except these and no others, because
  nothing in the code launches such a row again before the next reconciliation.

Abstractions: the misfire grace of 60 s is 0, so a late occurrence is a misfire;
recurring occurrences are one tick apart; the delays between retries are not
modelled; a cancellation after dispatch lets the Run end in any of `Endings`;
the delivery status, the two background slots, the 500-row listing and plugin
hooks are left out. The second transition of a success reported while its row is
still preparing is left out too: no worker reports one (`WorkersOK` of
`SchedulerSweepProofs`). Merged into one step, since nothing in between matters to
another task: the two reads of apply_stop_conditions, get_run with the first
transition in `FollowRun`, the read and the claim of run_now and retry, the read
and the token of cancel_task.

### RunRecovery and the code

`status` and `gen` are the row of `runs`; `checkpoint` is the latest row of
`run_step_checkpoints` of that generation; `effect` is the row of
`side_effect_executions` of each call and `recovery` the row of `run_recoveries`
of each interrupted generation. A claim that recover_interrupted cancelled has
the status `"withdrawn"`, which stands for `cancelled` with its result code. The
position of the executing task is `pc`.

- *The executor*: `Register`, `Prepare`, `Start`, then the loop `Sample`,
  `CallTool`, `EndLoop`, then the final transition `Close`, `Leave` (with
  finish_run_recovery), and `FailQueued` in the task that spawned it.
- *A tool call*: `Fence` (recovery_tool_fence), `Authorize` and `Approve`
  (policy, approval and the waiting status), `Claim`, `Dispatch`, `Return`,
  `Complete`; `Timeout` cancels its token, `Drop` abandons it five seconds after
  an interruption, wherever it is, without another write.
- *Cancellation*: `CancelToken`, then `CancelRow`, for the user's command or for
  an owner of permissions, which also cancels Runs that wait for a decision.
- *Recovery*: `Restart` is a crash and recover_interrupted; `AutoResume` and
  `Decide` run `Resolve`, one transaction; `LaunchRecovered` starts the executor
  of the next generation.

Abstractions: one call at a time, where a response may have several in parallel;
read-only calls leave what a sampling leaves and are not told apart; a compaction
restart is not modelled, and budget errors, attention and model errors are one
failure of the loop; the check of the token and mark_side_effect_dispatched are
one step; the feature `run_recovery` is on; a request that repeats a decision and
errors of single store calls are not modelled; a Run that waits for user input
is not modelled.

### ExecutorRegistry and the code

An element of `Exec` is one call of `AgentRunExecutor::execute`, or, in
`Compactors`, of `compact_session`. `epoch` and `gate` are the lane of each
Session, `active` is the registry, `slots` the background semaphore, `marker` and
`ahead` what a queued execution has read and who is before it, `pc` its position.

- *In the queue*: `Call`, `Register` or `Refuse`, `TakeSlot`, `EnterLane`,
  `Acquire`, `Recheck`, and `Leave` when the epoch it entered under is cancelled.
- *In the turn*: `Begin` or `BeginFails`, `Watch` (the task that waits for the
  token or the epoch), `TurnEnds`, `Exit` (a success under an old epoch is
  `StaleLaneGeneration`), `Remove`, and `LeakEntry` for the `?` before the removal.
- *Cancellation*: `Cancel` is the first half of `registry.cancel`, `Reset` the
  second, `Sweep` the walk over the children; `Deliver` is the select of
  `launch_task_execution`, which passes a cancellation on once; `CloseRow` closes
  a queued row beside it.

The lock of the registry's map is not held over an await, so a walk over it is
one step. What a turn does is one step that ends well or badly.

### AgentTasks and the code

`run` and `task` are the rows of child Runs and of `agent_tasks`; `gen`, `owner`
and `fresh` the lease; `pc` the position of the executor of a node, `token`,
`told`, `bound`, `heard` the tokens between parent and child, `tool` the agent
tool a turn is in, with the step it has got to.

- *Tools*: `Spawn`, `SpawnRow`, `SpawnClaim`; `Poll`, `PollWrite` (agent.wait and
  agent.collect); `Cancel` and the walk `CancelStop`, `CancelRow`, `CancelRead`,
  `CancelWrite` over the subtree from its leaves; `DropTool` when the turn drops
  the future at any of these.
- *Executor*: `Register`, `Enter`, `Refuse`, `Go`, `Finish`, `Watch`, `StopRun`,
  `Stopped`, `Break`; beside it `Deliver` and `Heartbeat`, the two branches of the
  select that stop it; after it `Settle`, `WriteTask`, `Release`.
- *Start-up*: `Restart` is a crash and recover_interrupted; the `Inspect` actions
  are `reconcile_startup`; `Resume` is the automatic resumption of the desktop.

`Heartbeat` is a renewal that does not succeed, because it is refused or because
the storage fails; either stops the executor, and the others change nothing kept
here. Fairness is asked of the refused one only: the storage need not fail.

`astray`, `dropped`, `missed`, `launched` are history. A Task is `astray` while an
open status stands in its row that was written from a read the Run or another
writer had overtaken, or while a cancellation of it was dropped half way;
`dropped` are those whose spawn was cut between the lease and the executor,
`missed` those whose executor heard its cancellation with nothing registered. The
code has these gaps, and the properties exclude exactly them: `EndedAgrees` says
nothing of the race at agent_tasks.rs:422, nor `LeaseAccounted` of the drop at
multi_agent.rs:120, nor `CancelStops` of the select that listens once
(multi_agent.rs:155), and `StartupAccounted` allows an old lease that has not
expired. What they say is that there is no further gap. Budgets, messages, usage
and grant snapshots are left out.

### ChannelOutbox and the code

The variables up to `dispatched` are the columns of `channel_outbox`; a claim
token is named by its worker. A worker is one sequential send loop, in the
desktop or in the gateway process; every statement of a delivery is a step:
`Claim`, `Authorize`, `Refuse`, `MarkRead`, `MarkWrite`, `Send`, `Answer`,
`FinishRead`, `FinishWrite`. `Crash` takes a worker at any of them;
`ReconcileSent` and `ReconcileUnsent` are the two statements of
`reconcile_startup`, which either process runs at any time. `Expire` is the 60 s
of a claim: under a dead worker, during a slow call of the provider, and,
`MaxStalls` times, under a live worker between two other statements. A statement
that fails ends the round of its worker, as `Crash` does.

`Send` takes a message, a part of one, or nothing. `Answer` is "delivered" only if
all was taken; every other answer may come whatever was taken: `deliver_ilink`
reports a failed chunk of a text as retryable or final after earlier chunks went
out, takes a lost reply for retryable and an unreadable one for final, and an
`Err` of any provider is unknown. So a failed or waiting row does not say that
nothing arrived, and a retry may repeat what did. `sent` counts the calls in
which something was taken, `asked` the answers that put the row back; what the
code ensures, as long as no claim runs out under a stalled worker, is
`sent <= asked + 1`, and that is `DeliveryLedger`. The account's
health and switches are read as either (`Authorize`), an edit of the account or
of the authorization stays (`stale`).

### ChannelIntake, ChannelDispatch and the code

`ChannelIntake` is the gateway process: `Push` (the socket's thread), `Normalize`
(the task), `Take` and `Insert` (the loop), `Post` and `Insert` (a hook's
request), `InsertFails`, `Reload`, `GatewayCrash`. `ChannelDispatch` extends it
with the desktop: the loop `Claim`, `Command` or `Launch`, `Prepare` or
`PrepareFails`, `Execute`, `Read`, `Enqueue`, `Finish`, `Errs`, `Fail`; the
executor `ExecBegin`, `ExecRefused`, `ExecEnd`; `UserCancel`, `Resume` and `Spawn`
beside it; `Expire`, `Reconcile` and `DesktopCrash`. Both write `status`.

All messages are of one Session, which is what makes Runs compete. Attachments,
routing and the texts are data; a failed statement, an unhealthy account and
missing output are one `Errs`.

### ToolApprovals and the code

One Run, the concurrent calls of a response of its model and the Forge commands
its user issues beside it. `row` is the request's row, `mail` its oneshot
channel, `run` the Run's status: the three places of one wait, and each step
writes those its transaction writes.

- *A call*: `Begin` (with the approvals of the Session it may reuse), `Enter`,
  `Ask`, then `Deliver`, `Expire` with `ExpireCommit`, or `Withdraw` with
  `Reread`; `Leave` and `LeaveCommit` (the read and the write of
  leave_approval_wait); `Use` (the last look at the token), `Claim`, `Dispatch`
  (the mark, which reads the Run), `Execute` (the host call); `Timeout`.
- *The user*: `Resolve` commits an answer and `Send` tells the waiter. `Kill`
  (cancel_workbench_run) and `CancelRuns` (cancel_runs_for_permission_owner) fire
  the Run's token, `KillList` to `KillClose` are the awaits behind either;
  `revokes` says which, because only the second ends a Run that waits to be
  recovered. `Clear` takes back what the Session was granted, in a transaction of
  its own ahead of `CancelRuns`: between the two a call may claim, so the claim
  has to read its approval again. `GrantLedger` states what remains.
- `EndTurn`, `Restart`, `Resume`: the turn, the application and the next
  generation.

Between the mark, or for a read the look at the token, and `Execute` anything may
happen: a tool awaits the plugins' `tool.before` hook there
(security_tools.rs:530-553), a Forge command its host, under a token nobody
cancels (forge_commands.rs:161-183, 275-304). `NothingAdmittedAfterStop` is
therefore about the steps that let a call through. Merged into one step: the
claim and the look at the token behind it, which takes the claim back.

The text of a question, risk levels, secret answers and the questions of MCP
servers are left out.

## 4. Runs

| Run | Instance | Distinct states | Shows |
|---|---|---|---|
| `timer` | 2 Schedules (limit, end, stop after success, skip misfires; and an `at` Schedule), edited, enabled and disabled, 2 TaskRuns, clock to 2, 1 retry of a pass | 897 068 | no overlap before an occurrence was skipped; occurrences of enabled Schedules only |
| `commands` | 1 Schedule, 2 TaskRuns, manual runs, retries, cancellations, 1 crash | 1 503 212 | one executor per Run, settled rows stay settled, `InvocationLedger` is implemented |
| `restart` | 1 Schedule with a limit, created and removed, 2 TaskRuns, refused launches, 1 retry, 1 crash, 1 failing call, fairness | 117 512 | unique keys, no occurrence lost but by the failing call, launches end, queued rows move |
| `recovery` | 1 Run, 2 calls of 2 operations (one idempotent), timeouts, an owner that cancels, 2 restarts, all decisions, fairness | 487 944 | the properties of a Run's recovery, `EffectLedger` is implemented, executors end |
| `lanes` | a Run, its child in a Session of its own, 1 slot for both, a compaction of the parent's Session, 1 cancellation, 1 failure, fairness | 275 154 | exclusion, slots, entries, cancellation of children, `LaneLedger` is implemented, fenced executions leave |
| `agents_restart` | a child of the Root, 4 tool calls cut at any await, 1 restart, fairness | 205 344 | leases, no open Task of an ended Run, the start-up, a cancelled Task stops |
| `outbox` | 2 deliveries, 2 workers, 2 attempts, 1 death, no stalled claim, fairness | 413 837 | reliable rows, finality of outcomes, settling, `DeliveryLedger` is implemented |
| `ingress` | a stream's event, one that cannot be normalized, a hook with 2 concurrent requests, 1 fault, fairness | 301 486 | true replies, one Run per chat, answered hooks are stored, accepted messages are settled, once |
| `approvals` | 4 calls of the 4 kinds, of which 2 begin, 2 lives, fairness | 368 902 | `GrantLedger` is implemented, waits have owners, answers count, nothing let through after the stop, calls come back |
| `overlap`, `ingress_ack`, `approvals_restored` | the smallest instance each | | a disagreement, see 7 |

`timer` and `commands` use the symmetry of the identifiers of TaskRuns, which no
definition tells apart; the runs with liveness properties use none. The type
invariant of each model was checked on the same instances and is a theorem
(section 5), so the runs do not repeat it. Deadlock is checked except where the
modelled activity really ends: executions that are over (`lanes`,
`agents_restart`), settled deliveries (`outbox`), calls that came back
(`approvals`).

### Bounds, and why they are enough

- Two TaskRuns are an invocation and the one it races, retries, repeats or
  overlaps. Three are needed only for the overlap after a skipped occurrence,
  and that run has three. `MaxNow` 2 gives an occurrence on time, one that is
  late and one after the end date. `MaxRevision` 2 is one edit between the
  listing and the claim.
- One crash suffices for the Scheduler: `Restart` forgets everything but the
  tables, and the tables before it are arbitrary reachable ones. The same holds
  for the Tasks of child agents, and for the two processes of the Gateway, which
  share one fault in `ingress`.
- One failing call suffices for what a single failure may lose, at every place a
  call is made; it is combined with a crash in `restart`. Two failures in a row
  are covered by `NoInvocationLost`, which is proved for any number.
- In `recovery` two calls are the interrupted one and its repetition, or an
  unknown one and a later one; two restarts interrupt the resumed generation as
  well.
- In `lanes` the parent and the compaction are the two that compete for a lane,
  the parent and the child the two that compete for a slot and are cancelled
  together. Deeper trees and more slots are covered by the theorems.
- In `agents_restart` one child is enough for a race of tool, executor,
  heartbeat and start-up over one row; every step of the walk over a subtree
  happens with one Task in it. `LeaseAccounted` is proved for any tree.
- In `outbox` two workers are the owner of a claim and the one that takes it
  after a recovery; two attempts are one retry and the last.
- In `approvals` two calls are two waiters of one Run, or the one that is
  granted and the one that reuses the grant; two lives are before and after a
  restart.
- `Idle` steps keep the deadlock check of the Scheduler and of the recovery on: a
  state in which some task is under way and nothing can happen is an error.

### Fairness

Weak fairness throughout, of what the process does by itself:

- `Scheduler`: the timer, the reconciliation, what accepted commands still owe,
  and each worker: tokio polls these tasks, store calls return, and a Run ends by
  itself or by the timeout of its Schedule.
- `RunRecovery`: the executing task (its model request and its tool call have
  timeouts), an approval whose call is interrupted, the automatic resumption and
  the second half of a cancellation.
- `ExecutorRegistry`: the steps of an execution outside its turn, the watcher, a
  turn that was told to stop, and the synchronous walk of a cancellation. A turn
  that nobody stops may last for ever.
- `AgentTasks`: the same, the heartbeat (every 10 s, for a lease of 30 s) and the
  settlement of an executor; nothing is assumed of a turn that was not told.
- `ChannelOutbox`: the send loops, the expiry of a claim after 60 s, and the
  reconciliation of the desktop's loop every 30 s; provider calls have timeouts.
- `ChannelDispatch`: the desktop's loop, expiry and reconciliation as above, and
  the executor, whose turn is bounded by its budget. Nothing is assumed of the
  intake.
- `ToolApprovals`: the steps of a call, the timeout of a tool
  (`tool_timeout_ms`) and the expiry of a Forge command's approval.

Nothing obliges a user to command, approve, decide, retry or resume, the clock of
the Scheduler to advance, or a process to crash or not to. `ExecutorEnds`
therefore stops at an approval, and `HandedRunStarts` at a crash.

## 5. Proofs

All theorems are about `Spec` with arbitrary constants that satisfy the named
assumption of the module; TLC evaluates the assumptions in the runs. Each proof
module has one lemma per conjunct of an inductive invariant `IInv` (in
`SchedulerProofs` per action), with one step per action.

`SchedulerProofs`:

- `Invariance`: `IInv` is inductive. `TypeOK` alone is not: a step uses a row
  because its holder says it was claimed. `RowsOK` says that a row has a
  well-formed claim of a created Schedule or is free, `HoldersOK` that every
  holder in memory (handoff, listing, timer, worker) holds a claimed row, and
  `PositionsOK` that the timer and the reconciliation hold what their next step
  uses.
- `TableStep` is what any step may do to the tables. `TerminalStaysTerminal`,
  `InvocationsUnique` and `NoOverlap` follow from it without looking at the
  actions again. `OnlyWhileEnabled` also needs that an entry of a pass with the
  current revision is of an enabled Schedule (`PassOK`), because enabling and
  disabling take a new revision.
- `SingleExecutor` needs what the status of a Run says about who may hold it.
- `Refinement` maps a row to an entry of `InvocationLedger`.

`SchedulerSweepProofs`: `NoInvocationLost`, that once the scheduler runs a claimed
row which has not started is held by someone, unless a failing call took it from
its holder and the table has not been listed since (`dropped`). `SweepInv` is what makes it
inductive through a restart:

- `HeldOrSwept`: before the scheduler runs such a row is held, or is still ahead
  of the reconciliation (on its list, or the row it is about to dispatch).
- The reconciliation passes over a row whose token is registered, so a token must
  have a worker, and a waiting row without token none (`TokensOK`); otherwise a
  row would be left to nobody, or given to two.
- A worker that ends must not leave its row waiting. Unless a call of it fails,
  which puts the row into `dropped`, it does not, because past its
  start it never meets a queued row, and a preparing row accepts the outcome it
  reports (`WorkersOK`).
- What the reconciliation listed may be outdated when it gets there, but in one
  direction only (`SnapsOK`): a row may have lost its Schedule since, and does not
  wait again once it ran.

Most steps move rows onward (`Onward`): no row is awaited after such a step that
was not before, so `Assemble` only asks what became of its holder.

`RunRecoveryProofs`:

- `Invariance`: `IInv` is `TypeOK` (with the foreign keys between checkpoints,
  recoveries and effects), `WaitingRunDecidable`, `GenerationOK` (every
  generation but the first took a restart, which is why the next one has a row)
  and `PositionOK` (what the position of the executor says of the row of its
  call, so that a claim is sent once).
- `TypeCorrect` and `Decidable` are conjuncts of it. `Final` and `Refinement`
  follow from `StepOK`, shown with the invariant step by step.
- `EligibleSettled` and `OperationFenced` are conjuncts of `DecisionInv`, which is
  inductive together with `IInv`. The fence speaks of the rows of the *next*
  generation, so one needs that there are none before it begins and that a
  recovery exists only for generations that have begun (`GenerationsOK`), that a
  task executes in a resumed generation only under the decision about the one
  before (`ExecutorOK`), that the row a decision rests on does not change under it
  (`DecisionsOK`), and that a call of the decided operation which is past the fence
  is a retry under the key of the interrupted one (`TokenOK`): the claim itself
  looks at the operation no more.

`ExecutorRegistryProofs`:

- `IInv` adds to the properties that the gate names the one execution past it
  (`GatesOK`), that executions on their way are the entries of their Runs
  (`EntriesOK`), that the slots are a finite set (`SlotsOK`, for the
  cardinality), and that a fenced execution carries a marker older than its lane
  (`FencesOK`), which is why its success is refused.
- `Exclusion`, `SlotBound`, `NoDeadEntry`, `CancellationGoesDown` are conjuncts or
  consequences; `Refinement` is to `LaneLedger`.

`AgentTasksProofs` (with the exceptions that section 3 names):

- `Leases`: a lease in the name of the running process belongs to an executor of
  it. It needs that no lease is in the name of a later process (`OwnersPast`), and
  for the types that a tool past its first step has the Task it is about
  (`ToolsOK`).
- `EndedAgreement` and `StartupAccounting` rest on `ReconInv`, four statements about
  single Tasks and single tools. `TaskOK` and `LaunchedOK` say what a Task of this
  process can be: not one the start-up has still to inspect, not resumed on its
  own, its Run queued, running or ended once its executor has settled. `ToolOK`
  follows the reads: a poll that read a Run waiting for a decision finds it so or
  ended (`PollOK`), a Task being spawned belongs to nobody else (`SpawnOK`), behind
  the transition of the Run a cancellation never meets one that is queued
  (`CancelOK`), and its compare-and-set misses only a Task that is not open any more
  (`WriteOK`). `Agrees` extends `EndedAgrees` to executors that have still to give
  back their lease, `Accounted` states `StartupAccounted` Task by Task while the
  reconciliation goes on.
- `Kept` is what every step keeps of every Task, `SameTask` that a step keeps all
  of a Task it is not about, `Frame` what is then left to show. `EndedAgreement`
  exempts what the property exempts: Tasks written from an outdated read
  (`astray`) and Tasks a cancellation still has to walk to.

`ChannelOutboxProofs`:

- `Settled` holds for any constants: every write of a status is conditional on
  the row being claimed or waiting.
- `CallInvariance` and `RowsTruthful` hold for any number of stalled workers: only
  a marked row is sent, whoever holds its claim by then (`CallsOK`), and
  `dispatched_at_ms` is never cleared.
- `Invariance`, `SentAsAsked` and `Refinement` are under `MaxStalls = 0`, stated in
  the theorems: no claim runs out under a live worker that is not sending. Then a
  worker before its call still holds its claim, and its message was not sent
  since it was last asked for; after the call the row is its own or settled as
  indeterminate (`ClaimsOK`), and every request used up an attempt (`AskedOK`).
  With a stalled claim `Refinement` does not hold; see 7.

`ChannelDispatchProofs`: `AckDurable`, `TrueReplies`, `OneRun`, `Settling` for any
messages, requests and faults. `IInv` says that the loop stands by the reply it
has decided on (`WantOK`), that at most one Run is not over and a launched row
has one (`RunsOK`), and that the loop waits for the executor it registered
(`LoopOK`); the cardinality in `OneRunPerChat` follows from uniqueness, so no
finiteness of `Message` is needed.

`ToolApprovalsProofs`: `Granted`, `WaitOwned`, `AnswersCount`, `StoppedForGood` and
`Refinement` for any calls and lives. `IInv` says where a grant may have got to (`GrantsOK`), that
the copies of an answer agree with its row while that says approved
(`AnswersOK`), and that the cancellation meets every tool call of the turn
(`StopOK`), which is why none is let through behind it (`StoppedForGood`); a call
that was let through before may still reach its host. The refinement adds that a given approval stays approved or is taken
back and that a call is over once it took effect (`LedgerOK`); most steps change
nothing the ledger sees (`Unseen`), the others open or give one request
(`MoveStep`), close pending ones together (`CloseStep`), revoke, claim, lapse or
take effect. `Granted` (`GrantCoversUse`: what takes effect was approved under the
same authority) is about a history variable the ledger does not have; what the
ledger says of requests and effects needs it, and no run repeats it.

## 6. Only model-checked

Every invariant and every action property that a run checks is a theorem. The
liveness properties `LaunchEnds`, `QueuedMoves`, `ExecutorEnds`,
`HandedRunStarts`, `FencedLeaves`, `CancelStops`, `Settles`, `Handled` and
`CallsEnd` stay with TLC: the prover has no fairness and no ENABLED. The refinement
of `ChannelOutbox` is proved without stalls only, because it does not hold with
them. Nothing here needs induction over data; a recursive definition
would have to be left to TLC as well.

## 7. Where code and documents disagree

Each of these has a run that TLC ends with a counterexample and an entry under
"findings".

- `overlap`: a skipped occurrence erases the reference to the invocation that
  still runs, so the next occurrence starts beside it.
- `ingress_ack`: a stream's event is acknowledged once it is in memory; a crash,
  or an account that is degraded, then loses it.
- `approvals_restored`: a session approval given before a restart admits a call
  after it.

These have a configuration beside the listed runs; TLC ends each with a
counterexample to the property it names.

| Configuration | Module | Property | What happens |
|---|---|---|---|
| `SchedulerOrphan.cfg` | `MCScheduler` | `RunningHasExecutor` | after a crash between the creation of a Run and its execution the TaskRun is turned to running and nobody executes it |
| `SchedulerStale.cfg` | `MCScheduler` | `SupersededNeverStarts` | an invocation claimed before an authority change, not yet registered when the change cancels, executes the superseded definition |
| `SchedulerOnce.cfg` | `MCScheduler` | `NeverStaleWithoutEdits` | disabling an `at` Schedule after its only claim makes that claim stale if a restart has to dispatch it |
| `SchedulerDuplicate.cfg` | `MCScheduler` | `SettledNotExecuting` | the reconciliation and run_now both launch one TaskRun; the loser's failure settles the row the winner executes |
| `RecoveryKey.cfg` | `MCRunRecovery` | `KeyMeansOperation` | a retry permitted by the checkpoint of one call is applied to the unknown effect of another, whose key then stands for another operation |
| `RecoveryCancel.cfg` | `MCRunRecovery` | `CancellationEnds` | a cancellation after the loop's last look at its token leaves the Run cancelling, without executor, until the next restart |
| `OutboxStall.cfg` | `MCChannelOutbox` | `RetryIsSafe` | a worker whose claim was recovered and taken again marks and sends under the other's claim, because the mark reads the token it then writes under |
| `IngressAnswer.cfg` | `MCChannelDispatch` | `AnswerArrives` | the row is settled as needing attention while its Run is resumed and succeeds: the chat never gets the answer |
| `AgentsLease.cfg` | `MCAgentTasks` | `OldLeaseVoid` | a lease of the old process that has not expired keeps the start-up from launching its Task again |
| `AgentsStopped.cfg` | `MCAgentTasks` | `CancelledStaysStopped` | a Task cancelled before a restart while its Run was still executing is resumed after it as a Run of its own |

Met while reading, each visible in the models unless marked, and without a
property, because no document speaks of them or the surroundings are not
modelled:

- *Scheduler*: a call that fails after the claim of an occurrence has committed
  (service.rs:617-641, 683-686) leaves a recurring row queued until the next start
  or the user's retry of the supervisor; a queued row whose Schedule is removed
  stays queued; an edit
  between the claim and the advance of an `at` Schedule leaves the row queued
  until the next start; `update_schedule_next_run` writes without a revision;
  `stop_after_success` is lost if the worker stops before it is applied; run_now
  beside a pass can exceed `max_occurrences` by one; a failing Schedule aborts
  the pass of all; a cancellation between the check of a token and the
  registration of the Run finds nothing to cancel; the reconciliation lists 500
  rows (not modelled).
- *Runs*: a Run that a decision queued is not found again if the process stops
  before its executor prepared it, or if its Session has another profile than
  Workbench; several unknown effects, and parallel calls that share one
  checkpoint (not modelled).
- *Lanes*: the cancellation of a queued Run resets the lane of the whole Session
  and so stops its other execution; a Run that waits for a background slot does
  not see its cancellation until it has one; the entry left behind when
  finish_run_recovery fails refuses the Run until the restart.
- *Child agents*: `fail_reconciled_task` cannot fail a queued Run, which stays;
  an error of one inspection ends the start-up (not modelled).
- *Outbox*: `dispatched_at_ms` is never cleared, so a later attempt that lapsed
  unsent is taken for sent; claims that are recovered are not bounded by
  `MAX_DELIVERY_ATTEMPTS`; an iLink delivery that failed after some chunks of a
  text went out, or whose reply was lost, is retried and sends them again
  (official_provider.rs:1245-1331, wechat_ilink.rs:373).
- *Inbox*: one event that cannot be normalized makes the account degraded, which
  refuses the others until a reload; the code of /connect is consumed before the
  insert that uses it (not modelled).
- *Questions*: the timeout of one call cancels every pending approval of its Run;
  a question that times out leaves its Run waiting for input until the turn ends;
  a Forge command that was marked as dispatched may start its push or merge after
  the command that cancels the Run has returned, since its token is nobody's.

## 8. Not modelled

- Event ingress: one transaction around the claim `Scheduler` has; retention and
  the comparison of payloads are data.
- MCP servers: the protocol client is I/O; the supervisor's start, restart and
  restoration are concurrent with the service and would make a module.
- Workspace, workbench, sandbox, process host, extensions and skills: mostly the
  file system, child processes and operating system calls.
- Model access, browser and computer hosts, connectors, forge: I/O on foreign
  systems. Policy and audit: pure decisions and an append-only log; where a model
  needs a decision it takes either.
- The pet, its voice and the TypeScript packages keep no durable state. They and
  the wire formats are most of the repository's lines, so the models cover a
  small share of it: the part whose steps interleave.

"components" in `PROJECT.json` has a row for each.
