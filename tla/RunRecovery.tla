----------------------------- MODULE RunRecovery -----------------------------
(***************************************************************************)
(* One Run of the Agent runtime, its tool calls with side effects, and its *)
(* recovery after the process stopped: the executor and its tool loop      *)
(* (crates/hachimi-agent/src: run_runtime.rs, run_projection.rs,           *)
(* tool_loop.rs, tool_runtime.rs, security_tools.rs), the tables runs,     *)
(* side_effect_executions, run_step_checkpoints and run_recoveries         *)
(* (crates/hachimi-storage/src: agent_store.rs, recovery.rs,               *)
(* side_effects.rs) and the commands that cancel a Run or decide about its *)
(* recovery (apps/desktop/src-tauri/src: workbench_commands.rs,            *)
(* permission_runtime.rs).                                                 *)
(*                                                                         *)
(* Every transaction of the store is one step.  The process may stop       *)
(* between any two; on the next start recover_interrupted rewrites the     *)
(* tables, a Run with a replayable checkpoint is resumed by itself, and    *)
(* the user decides about the others.  Each generation of the Run is       *)
(* executed by one task of one process.                                    *)
(*                                                                         *)
(* Tool calls are numbered in the order the model samples them, which is   *)
(* also the order of their rows.  Calls without a side effect leave what a *)
(* sampling checkpoint leaves and are not told apart from it.              *)
(***************************************************************************)
EXTENDS Naturals, FiniteSets

CONSTANTS
  Operations,   (* a tool with the hash of its parameters                  *)
  NoOperation,
  Idempotent,   (* operations whose executor is IdempotentWithReceipt; the *)
                (* others are NonReplayable                                *)
  Resumable,    (* the Session has the entry profile Workbench             *)
  Cancellers,   (* who cancels: the user, an owner of permissions          *)
  MaxCalls,     (* bound on tool calls, over all generations               *)
  MaxCrashes    (* bound on restarts                                       *)

ASSUME RecoveryAssumption ==
  /\ NoOperation \notin Operations
  /\ Idempotent \subseteq Operations
  /\ Resumable \in BOOLEAN
  /\ Cancellers \subseteq {"user", "owner"}
  /\ MaxCalls \in Nat
  /\ MaxCrashes \in Nat

VARIABLES
  status, gen,  (* runs                                                    *)
  checkpoint,   (* the latest run_step_checkpoints row of this generation  *)
  effect,       (* side_effect_executions: at most one row per tool call   *)
  recovery,     (* run_recoveries: at most one row per generation          *)
  calls,        (* tool calls so far                                       *)
  pc,           (* the task that executes the Run                          *)
  tool,         (* its tool call: operation, idempotency key, token        *)
  outcome,      (* how its loop ended                                      *)
  cancelled,    (* the cancellation token of the registered Run            *)
  cancel,       (* a cancellation between its token and its transition     *)
  autoResume,   (* listed by recover_interrupted for this process          *)
  crashes

runVars  == <<status, gen>>
rowVars  == <<checkpoint, effect, recovery>>
loopVars == <<tool, outcome>>
vars == <<status, gen, checkpoint, effect, recovery, calls, pc, tool, outcome,
          cancelled, cancel, autoResume, crashes>>

Calls == 1..MaxCalls
Generations == 1..(MaxCrashes + 1)

Ended == {"succeeded", "failed", "cancelled"}
Interruptible == {"preparing", "running", "waiting_approval", "cancelling"}
AwaitingResume == {"recovering", "waiting_recovery_decision"}
RunStates == {"queued"} \cup Interruptible \cup AwaitingResume \cup Ended

(* RunStatus::can_transition_to, for the statuses of this module.          *)
Successors ==
  [queued           |-> {"preparing", "cancelled"},
   preparing        |-> {"running", "failed", "cancelled"},
   running          |-> {"waiting_approval", "cancelling", "succeeded", "failed"},
   waiting_approval |-> {"running", "cancelling", "failed"},
   cancelling       |-> {"cancelled", "failed"},
   recovering       |-> {"waiting_recovery_decision", "queued", "preparing",
                         "running", "failed", "cancelled"},
   waiting_recovery_decision |-> {"recovering", "queued", "preparing", "running",
                                  "failed", "cancelled"},
   succeeded |-> {}, failed |-> {}, cancelled |-> {}]

(* Mutant: the update does not compare the status.                         *)
MutAccepts(to) == TRUE

(* transition_run.                                                         *)
Accepts(to) == status = to \/ to \in Successors[status]

(* "withdrawn": cancelled by recover_interrupted before it was dispatched. *)
Settled == {"succeeded", "failed", "cancelled", "withdrawn"}
EffectStates == {"none", "claimed", "dispatched", "indeterminate"} \cup Settled
ProvenSafe == {"succeeded", "failed", "withdrawn"}

NoEffect     == [status |-> "none", op |-> NoOperation, gen |-> 0, key |-> <<0, 0>>]
NoCheckpoint == [kind |-> "none", op |-> NoOperation, call |-> 0, linked |-> FALSE]
Sampling     == [kind |-> "sampling", op |-> NoOperation, call |-> 0, linked |-> FALSE]
ToolCheckpoint(o, c, linked) == [kind |-> "tool", op |-> o, call |-> c, linked |-> linked]
NoRecovery   == [state |-> "none", checkpoint |-> NoCheckpoint, effect |-> 0,
                 action |-> "none"]
NoTool       == [op |-> NoOperation, key |-> <<0, 0>>, cancelled |-> FALSE]

Actions == {"resume", "confirm", "retry", "abandon"}

(* The policy of a checkpoint: a sampling is ReadOnlyReplayable.           *)
Replayable(k) == k.kind = "sampling" \/ (k.kind = "tool" /\ k.op \in Idempotent)
RetryAllowed(k) == k.kind = "tool" /\ k.op \in Idempotent
-----------------------------------------------------------------------------
(* The executor, from the task that is spawned for a Run to its end.       *)

ToolPcs == {"called", "fenced", "approving", "claiming", "claimed", "dispatched",
            "completing"}
RegisteredPcs == {"preparing", "starting", "sampling", "sampled", "closing",
                  "leaving"} \cup ToolPcs
Pcs == {"idle", "resolved", "spawned", "left"} \cup RegisteredPcs

Stop(result) == pc' = "leaving" /\ outcome' = result

(* launch_recovered_workbench_run, after the decision was committed.       *)
LaunchRecovered ==
  /\ pc = "resolved"
  /\ pc' = IF Resumable THEN "spawned" ELSE "idle"
  /\ UNCHANGED <<runVars, rowVars, calls, loopVars, cancelled, cancel, autoResume,
                 crashes>>

(* AgentRunExecutor::execute registers the Run and checks that it has not  *)
(* ended; the preparation that follows may fail, and does when the context *)
(* of the recovery drifted.                                                *)
Register ==
  /\ pc = "spawned"
  /\ \/ status \notin Ended /\ pc' = "preparing" /\ UNCHANGED outcome
     \/ Stop("failed")
  /\ UNCHANGED <<runVars, rowVars, calls, tool, cancelled, cancel, autoResume,
                 crashes>>

Prepare ==
  /\ pc = "preparing"
  /\ IF Accepts("preparing")
     THEN status' = "preparing" /\ pc' = "starting" /\ UNCHANGED outcome
     ELSE Stop("failed") /\ UNCHANGED status
  /\ UNCHANGED <<gen, rowVars, calls, tool, cancelled, cancel, autoResume, crashes>>

Start ==
  LET target == IF cancelled THEN "cancelled" ELSE "running" IN
  /\ pc = "starting"
  /\ status' = IF Accepts(target) THEN target ELSE status
  /\ IF target = "running" /\ Accepts(target)
     THEN pc' = "sampling" /\ UNCHANGED outcome
     ELSE Stop("failed")
  /\ UNCHANGED <<gen, rowVars, calls, tool, cancelled, cancel, autoResume, crashes>>

(* The loop: a checkpoint before every request to the model.               *)
Sample ==
  /\ pc = "sampling"
  /\ ~cancelled
  /\ checkpoint' = Sampling
  /\ pc' = "sampled"
  /\ UNCHANGED <<runVars, effect, recovery, calls, loopVars, cancelled, cancel,
                 autoResume, crashes>>

(* Mutant: the token is read after a sampling only.                        *)
MutEndSampled ==
  /\ pc = "sampled"
  /\ outcome' \in IF cancelled THEN {"cancelled"} ELSE {"succeeded", "failed"}
  /\ pc' = "closing"
  /\ UNCHANGED <<runVars, rowVars, calls, tool, cancelled, cancel, autoResume,
                 crashes>>

(* The loop ends; the token is read here, before the final transition.     *)
EndLoop ==
  /\ pc \in {"sampling", "sampled"}
  /\ pc = "sampling" => cancelled
  /\ outcome' \in IF cancelled THEN {"cancelled"} ELSE {"succeeded", "failed"}
  /\ pc' = "closing"
  /\ UNCHANGED <<runVars, rowVars, calls, tool, cancelled, cancel, autoResume,
                 crashes>>

(* The final transition.  A cancelled loop goes through cancelling.        *)
Close ==
  LET accepted == IF outcome = "cancelled"
                  THEN status \in {"cancelling", "cancelled"} \/ Accepts("cancelling")
                  ELSE Accepts(outcome)
  IN
  /\ pc = "closing"
  /\ status' = IF accepted THEN outcome ELSE status
  /\ Stop(IF accepted THEN outcome ELSE "failed")
  /\ UNCHANGED <<gen, rowVars, calls, tool, cancelled, cancel, autoResume, crashes>>

(* finish_run_recovery, and the Run leaves the registry.                   *)
Leave ==
  /\ pc = "leaving"
  /\ recovery' = [g \in Generations |->
       IF g + 1 = gen /\ recovery[g].state = "resuming"
       THEN [recovery[g] EXCEPT !.state = IF outcome = "succeeded" THEN "resumed"
                                          ELSE "failed"]
       ELSE recovery[g]]
  /\ pc' = IF outcome = "succeeded" THEN "idle" ELSE "left"
  /\ outcome' = "none"
  /\ cancelled' = FALSE
  /\ UNCHANGED <<runVars, checkpoint, effect, calls, tool, cancel, autoResume,
                 crashes>>

(* Mutant: the task only logs the error.                                   *)
MutLogOnly ==
  /\ pc = "left" /\ pc' = "idle"
  /\ UNCHANGED <<runVars, rowVars, calls, loopVars, cancelled, cancel, autoResume,
                 crashes>>

(* The task that spawned it fails a Run that never started.                *)
FailQueued ==
  /\ pc = "left"
  /\ status' = IF status = "queued" THEN "failed" ELSE status
  /\ pc' = "idle"
  /\ UNCHANGED <<gen, rowVars, calls, loopVars, cancelled, cancel, autoResume,
                 crashes>>
-----------------------------------------------------------------------------
(* One tool call with a side effect.                                       *)

Interrupted == cancelled \/ tool.cancelled

(* The model asks for an operation: the checkpoint before the call.        *)
CallTool(o) ==
  /\ pc = "sampled"
  /\ calls < MaxCalls
  /\ calls' = calls + 1
  /\ checkpoint' = ToolCheckpoint(o, calls + 1, FALSE)
  /\ tool' = [op |-> o, key |-> <<gen, calls + 1>>, cancelled |-> FALSE]
  /\ pc' = "called"
  /\ UNCHANGED <<runVars, effect, recovery, outcome, cancelled, cancel, autoResume,
                 crashes>>

(* Mutant: the fence compares the identifier of the call.                  *)
MutFenceByCall(g, o) == /\ g \in Generations
                        /\ recovery[g].state = "resuming"
                        /\ recovery[g].checkpoint.op = o
                        /\ recovery[g].checkpoint.call = calls

(* recovery_tool_fence: the decision about the interrupted generation g    *)
(* covers calls of the operation of its checkpoint.                        *)
Covers(g, o) ==
  /\ g \in Generations
  /\ recovery[g].state = "resuming"
  /\ recovery[g].checkpoint.kind = "tool"
  /\ recovery[g].checkpoint.op = o

(* The row it looks at, 0 when there is none.                              *)
FencedEffect(g) ==
  LET r == recovery[g] IN
  IF r.effect # 0 THEN r.effect
  ELSE IF effect[r.checkpoint.call].status # "none" THEN r.checkpoint.call ELSE 0

RetriesWithKey(r, e) ==
  r.action = "retry" \/ (r.action = "resume" /\ e.status = "withdrawn")

Fence ==
  LET g == gen - 1
      covered == Covers(g, tool.op) /\ FencedEffect(g) # 0
      e == effect[FencedEffect(g)]
  IN
  /\ pc = "called"
  /\ \/ Interrupted /\ pc' = "completing" /\ UNCHANGED tool
     \/ /\ ~Interrupted /\ covered
        /\ RetriesWithKey(recovery[g], e)
        /\ tool' = [tool EXCEPT !.key = e.key]
        /\ pc' = "fenced"
     \/ /\ ~Interrupted /\ covered
        /\ ~RetriesWithKey(recovery[g], e)
        /\ pc' = IF e.status \in {"succeeded", "failed"} THEN "completing" ELSE "fenced"
        /\ UNCHANGED tool
     \/ ~Interrupted /\ ~covered /\ pc' = "fenced" /\ UNCHANGED tool
  /\ UNCHANGED <<runVars, rowVars, calls, outcome, cancelled, cancel, autoResume,
                 crashes>>

(* Policy: allowed, denied, or an approval, for which the Run waits.       *)
Authorize ==
  /\ pc = "fenced"
  /\ \/ pc' \in {"claiming", "completing"} /\ UNCHANGED status
     \/ status = "running" /\ status' = "waiting_approval" /\ pc' = "approving"
  /\ UNCHANGED <<gen, rowVars, calls, loopVars, cancelled, cancel, autoResume,
                 crashes>>

(* The approval is resolved, or withdrawn when the call is interrupted.    *)
Approve ==
  /\ pc = "approving"
  /\ status' = IF status = "waiting_approval" THEN "running" ELSE status
  /\ pc' \in {"claiming", "completing"}
  /\ UNCHANGED <<gen, rowVars, calls, loopVars, cancelled, cancel, autoResume,
                 crashes>>

KeyTaken == \E c \in Calls : /\ effect[c].status # "none"
                             /\ effect[c].gen = gen
                             /\ effect[c].key = tool.key

(* claim_side_effect: refused unless the Run is running, and when another  *)
(* call of this generation holds the key.                                  *)
Claim ==
  /\ pc = "claiming"
  /\ IF Interrupted \/ KeyTaken \/ status # "running"
     THEN pc' = "completing" /\ UNCHANGED <<effect, checkpoint>>
     ELSE /\ effect' = [effect EXCEPT ![calls] =
                [status |-> "claimed", op |-> tool.op, gen |-> gen, key |-> tool.key]]
          /\ checkpoint' = ToolCheckpoint(tool.op, calls, TRUE)
          /\ pc' = "claimed"
  /\ UNCHANGED <<runVars, recovery, calls, loopVars, cancelled, cancel, autoResume,
                 crashes>>

(* mark_side_effect_dispatched_if_current, or else the claim is cancelled. *)
MayDispatch == ~Interrupted /\ status = "running"

Dispatch ==
  /\ pc = "claimed"
  /\ IF MayDispatch
     THEN /\ effect' = [effect EXCEPT ![calls].status = "dispatched"]
          /\ pc' = "dispatched"
     ELSE /\ effect' = [effect EXCEPT ![calls].status = "cancelled"]
          /\ pc' = "completing"
  /\ UNCHANGED <<runVars, checkpoint, recovery, calls, loopVars, cancelled, cancel,
                 autoResume, crashes>>

(* The host returned: a result after a cancellation is not trusted.        *)
Return ==
  /\ pc = "dispatched"
  /\ \E result \in IF Interrupted THEN {"indeterminate"}
                   ELSE {"succeeded", "failed", "cancelled", "indeterminate"} :
       effect' = [effect EXCEPT ![calls].status = result]
  /\ pc' = "completing"
  /\ UNCHANGED <<runVars, checkpoint, recovery, calls, loopVars, cancelled, cancel,
                 autoResume, crashes>>

(* The time of the call is up.                                             *)
Timeout ==
  /\ pc \in ToolPcs \ {"completing"}
  /\ ~tool.cancelled
  /\ tool' = [tool EXCEPT !.cancelled = TRUE]
  /\ UNCHANGED <<runVars, rowVars, calls, pc, outcome, cancelled, cancel, autoResume,
                 crashes>>

(* An interrupted call gets five seconds, then it is dropped where it is.  *)
Drop ==
  /\ pc \in {"claiming", "claimed", "dispatched"}
  /\ Interrupted
  /\ pc' = "completing"
  /\ UNCHANGED <<runVars, rowVars, calls, loopVars, cancelled, cancel, autoResume,
                 crashes>>

(* The checkpoint after the call, linked to its row if there is one.       *)
Complete ==
  /\ pc = "completing"
  /\ checkpoint' = ToolCheckpoint(tool.op, calls, effect[calls].status # "none")
  /\ tool' = NoTool
  /\ pc' = "sampling"
  /\ UNCHANGED <<runVars, effect, recovery, calls, outcome, cancelled, cancel,
                 autoResume, crashes>>
-----------------------------------------------------------------------------
(* Cancellation: cancel_workbench_run and cancel_runs_for_permission_owner *)
(* cancel the token of a registered Run, then move the row by its status.  *)

CancelToken(who) ==
  /\ who \in Cancellers
  /\ cancel = "none"
  /\ status \notin Ended
  /\ cancelled' = (cancelled \/ pc \in RegisteredPcs)
  /\ cancel' = who
  /\ UNCHANGED <<runVars, rowVars, calls, pc, loopVars, autoResume, crashes>>

CancelRow ==
  /\ cancel # "none"
  /\ status' = IF status \in {"queued", "preparing"} \/
                    (cancel = "owner" /\ status \in AwaitingResume)
               THEN "cancelled"
               ELSE IF status \in {"running", "waiting_approval"} THEN "cancelling"
               ELSE status
  /\ cancel' = "none"
  /\ UNCHANGED <<gen, rowVars, calls, pc, loopVars, cancelled, autoResume, crashes>>
-----------------------------------------------------------------------------
(* Decisions: resolve_run_recovery, one transaction, and the start of the  *)
(* executor that follows it (pc "resolved").                               *)

OpenStates == {"eligible_auto", "awaiting_user"}

(* resolve_indeterminate_side_effect_tx accepts only an unknown effect.    *)
Unknown(c) == c # 0 /\ effect[c].status = "indeterminate"

Permitted(r, a) ==
  CASE a = "resume"  -> /\ Replayable(r.checkpoint)
                        /\ r.effect # 0 => effect[r.effect].status \in ProvenSafe
    [] a = "confirm" -> Unknown(r.effect)
    [] a = "retry"   -> RetryAllowed(r.checkpoint) /\ Unknown(r.effect)
    [] a = "abandon" -> TRUE

(* Mutant: the decision is recorded, the Run is left to the executor.      *)
MutRecordOnly(g, a) ==
  /\ recovery[g].state \in OpenStates
  /\ Permitted(recovery[g], a)
  /\ gen = g /\ status \in AwaitingResume
  /\ recovery' = [recovery EXCEPT ![g].action = a, ![g].state = "resuming"]
  /\ pc' = "resolved"
  /\ UNCHANGED <<status, gen, checkpoint, effect>>

Resolve(g, a) ==
  LET r == recovery[g] IN
  /\ r.state \in OpenStates
  /\ Permitted(r, a)
  /\ gen = g
  /\ status \in AwaitingResume
  /\ recovery' = [recovery EXCEPT ![g].action = a,
                    ![g].state = IF a = "abandon" THEN "abandoned" ELSE "resuming"]
  /\ effect' = IF a = "confirm" THEN [effect EXCEPT ![r.effect].status = "succeeded"]
               ELSE IF a = "retry" THEN [effect EXCEPT ![r.effect].status = "failed"]
               ELSE effect
  /\ IF a = "abandon"
     THEN status' = "cancelled" /\ UNCHANGED <<gen, checkpoint, pc>>
     ELSE /\ status' = "queued"
          /\ gen' = gen + 1
          /\ checkpoint' = NoCheckpoint
          /\ pc' = "resolved"

Decide(g, a) ==
  /\ Resolve(g, a)
  /\ UNCHANGED <<calls, loopVars, cancelled, cancel, autoResume, crashes>>

(* schedule_auto_resume_runs: for a Run whose recovery is still eligible.  *)
AutoResume ==
  /\ autoResume
  /\ autoResume' = FALSE
  /\ \/ recovery[gen].state = "eligible_auto" /\ Resolve(gen, "resume")
     \/ /\ ~(recovery[gen].state = "eligible_auto" /\ status \in AwaitingResume
             /\ Permitted(recovery[gen], "resume"))
        /\ UNCHANGED <<runVars, rowVars, pc>>
  /\ UNCHANGED <<calls, loopVars, cancelled, cancel, crashes>>
-----------------------------------------------------------------------------
(* The process stops, and the next one runs recover_interrupted, one       *)
(* transaction, before it does anything else.                              *)

(* Mutant: whatever has no result was never sent.                          *)
MutDispatchedCancelled(s) == IF s \in {"claimed", "dispatched"} THEN "withdrawn" ELSE s

(* What is unknown after the restart, and what was never sent.             *)
AfterRestart(s) ==
  CASE s = "dispatched" -> "indeterminate"
    [] s = "claimed"    -> "withdrawn"
    [] OTHER            -> s

(* The unknown effect of this generation that was updated last.  Those the *)
(* restart itself marks have the same time, so any of them may be it.      *)
LatestUnknown ==
  LET in(s) == {c \in Calls : effect[c].gen = gen /\ effect[c].status = s}
      now   == {c \in Calls : effect[c].gen = gen
                              /\ effect[c].status # "indeterminate"
                              /\ AfterRestart(effect[c].status) = "indeterminate"}
      before == in("indeterminate")
  IN IF now # {} THEN now
     ELSE IF before # {} THEN {c \in before : \A d \in before : d <= c}
     ELSE {0}

(* Mutant: only the policy of the checkpoint counts.                       *)
MutPolicyOnly(s, u) == Replayable(checkpoint)

(* Whether the Run is resumed without asking.                              *)
EligibleAuto(s, u) ==
  /\ u = 0
  /\ checkpoint.linked => AfterRestart(effect[checkpoint.call].status) \in ProvenSafe
  /\ s \notin {"waiting_approval", "cancelling"}
  /\ Replayable(checkpoint)

Restart ==
  /\ crashes < MaxCrashes
  /\ crashes' = crashes + 1
  /\ effect' = [c \in Calls |->
                 [effect[c] EXCEPT !.status = AfterRestart(effect[c].status)]]
  /\ \/ /\ status \in Interruptible
        /\ \E u \in LatestUnknown :
             LET eligible == EligibleAuto(status, u) IN
             /\ status' = IF eligible THEN "recovering" ELSE "waiting_recovery_decision"
             /\ autoResume' = eligible
             /\ recovery' = [recovery EXCEPT ![gen] =
                  [state |-> IF eligible THEN "eligible_auto" ELSE "awaiting_user",
                   checkpoint |-> checkpoint,
                   effect |-> IF u # 0 THEN u
                              ELSE IF checkpoint.linked THEN checkpoint.call ELSE 0,
                   action |-> "none"]]
     \/ /\ status \notin Interruptible
        /\ autoResume' = FALSE
        /\ UNCHANGED <<status, recovery>>
  /\ pc' = "idle"
  /\ tool' = NoTool
  /\ outcome' = "none"
  /\ cancelled' = FALSE
  /\ cancel' = "none"
  /\ UNCHANGED <<gen, checkpoint, calls>>

Idle ==
  /\ pc = "idle" /\ cancel = "none" /\ ~autoResume
  /\ UNCHANGED vars

Init ==
  /\ status = "queued" /\ gen = 1
  /\ checkpoint = NoCheckpoint
  /\ effect = [c \in Calls |-> NoEffect]
  /\ recovery = [g \in Generations |-> NoRecovery]
  /\ calls = 0
  /\ pc = "spawned"
  /\ tool = NoTool
  /\ outcome = "none"
  /\ cancelled = FALSE /\ cancel = "none" /\ autoResume = FALSE
  /\ crashes = 0

LoopStep == Sample \/ EndLoop \/ Close \/ Leave \/ FailQueued
LaunchStep == LaunchRecovered \/ Register \/ Prepare \/ Start
ToolStep == \/ \E o \in Operations : CallTool(o)
            \/ Fence \/ Authorize \/ Claim \/ Dispatch \/ Return \/ Drop \/ Complete

Next ==
  \/ LaunchStep \/ LoopStep \/ ToolStep
  \/ Approve
  \/ Timeout
  \/ \E who \in {"user", "owner"} : CancelToken(who)
  \/ CancelRow
  \/ \E g \in Generations, a \in Actions : Decide(g, a)
  \/ AutoResume
  \/ Restart
  \/ Idle

Spec == Init /\ [][Next]_vars

(* The task is polled, the model answers within the timeout of its         *)
(* request, a call returns, times out or is dropped, and an interrupted    *)
(* call does not wait for its approval.  Nobody has to approve, cancel or  *)
(* decide.                                                                 *)
Fairness == /\ WF_vars(LaunchStep \/ LoopStep \/ ToolStep)
            /\ WF_vars(Interrupted /\ Approve)
            /\ WF_vars(AutoResume)
            /\ WF_vars(CancelRow)

FairSpec == Spec /\ Fairness
-----------------------------------------------------------------------------
(* Type correctness, with the foreign keys of the rows: what a checkpoint  *)
(* or a recovery names in the ledger is there.                             *)
Checkpoints == [kind : {"none", "sampling", "tool"}, op : Operations \cup {NoOperation},
                call : 0..MaxCalls, linked : BOOLEAN]
Effects     == [status : EffectStates, op : Operations \cup {NoOperation},
                gen : 0..(MaxCrashes + 1), key : Nat \X Nat]
Recoveries  == [state : {"none", "eligible_auto", "awaiting_user", "resuming",
                         "resumed", "failed", "abandoned"},
                checkpoint : Checkpoints, effect : 0..MaxCalls,
                action : Actions \cup {"none"}]

Named(c) == c = 0 \/ (c \in Calls /\ effect[c].status # "none")
Linked(k) == (k.linked => k.call # 0 /\ Named(k.call)) /\ (k.kind = "tool" => k.call # 0)

RowsOK ==
  /\ checkpoint \in Checkpoints /\ Linked(checkpoint)
  /\ effect \in [Calls -> Effects]
  /\ recovery \in [Generations -> Recoveries]
  /\ \A g \in Generations : Linked(recovery[g].checkpoint) /\ Named(recovery[g].effect)

ControlOK ==
  /\ status \in RunStates
  /\ gen \in Generations
  /\ calls \in 0..MaxCalls
  /\ pc \in Pcs
  /\ tool \in [op : Operations \cup {NoOperation}, key : Nat \X Nat, cancelled : BOOLEAN]
  /\ outcome \in {"none", "succeeded", "failed", "cancelled"}
  /\ cancelled \in BOOLEAN
  /\ cancel \in {"none", "user", "owner"}
  /\ autoResume \in BOOLEAN
  /\ crashes \in 0..MaxCrashes

TypeOK == RowsOK /\ ControlOK

(* A Run that waits for a decision can get one: its interrupted generation *)
(* has an open recovery, and no executor of that generation is left        *)
(* (recover_interrupted, resolve_run_recovery).                            *)
WaitingRunDecidable ==
  status \in AwaitingResume =>
    recovery[gen].state \in {"eligible_auto", "awaiting_user"} /\ pc = "idle"

(* A Run is resumed without asking only when no effect of the interrupted  *)
(* generation has an outcome nobody knows, whichever call it was           *)
(* (recover_interrupted, eligible).                                        *)
EligibleIsSettled ==
  \A g \in Generations : recovery[g].state = "eligible_auto" =>
    \A c \in Calls : effect[c].gen = g => effect[c].status \in Settled

RowsOf(o, g) == {c \in Calls : effect[c].gen = g /\ effect[c].op = o}

(* The decision about an interrupted call holds for every call of the same *)
(* operation the resumed generation samples: a known or confirmed outcome  *)
(* is reused, and a retry is sent once, under the key of the interrupted   *)
(* call (recovery_tool_fence, claim_side_effect).                          *)
FencedOperation ==
  \A g \in Generations :
    LET r == recovery[g]
        again == RowsOf(r.checkpoint.op, g + 1)
    IN (r.action \in {"resume", "confirm", "retry"} /\ r.checkpoint.kind = "tool"
          /\ r.effect = r.checkpoint.call) =>
         /\ \A c \in again : /\ RetriesWithKey(r, effect[r.effect])
                             /\ effect[c].key = effect[r.effect].key
         /\ \A c, d \in again : c = d

(* A key stands for one operation: "a repeated idempotency key only        *)
(* returns the old result; changed parameters are a conflict"              *)
(* (docs/HARNESS_AGENT_ARCHITECTURE_AND_IMPLEMENTATION.md:111).            *)
KeyMeansOperation ==
  \A c, d \in Calls :
    (effect[c].status # "none" /\ effect[c].key = effect[d].key) =>
      effect[c].op = effect[d].op

(* A Run that ended stays as it ended, whatever commands, decisions and    *)
(* executors are still on their way (transition_run,                       *)
(* resolve_run_recovery).                                                  *)
EndedIsFinal == [][(status \in Ended) => UNCHANGED runVars]_vars

(* The rows of side_effect_executions do what the ledger promises.         *)
Ledger == INSTANCE EffectLedger WITH fate <- [c \in Calls |-> effect[c].status]
ImplementsLedger == Ledger!Spec

(* The executor comes to an end, or waits for an approval                  *)
(* (run_loop, ToolRuntime::dispatch).                                      *)
ExecutorEnds ==
  pc \notin {"idle", "approving"} ~> pc \in {"idle", "approving"}

(* A Run that is handed to an executor does not stay queued unless the     *)
(* process stops (spawn_workbench_run_with_recovery).                      *)
HandedRunStarts ==
  \A n \in 0..MaxCrashes :
    (pc = "spawned" /\ crashes = n) ~> (status # "queued" \/ crashes # n)

(* A cancelled Run gets through cancelling to its end:                     *)
(* "cancellation_is_persisted_through_cancelling_to_cancelled"             *)
(* (crates/hachimi-agent/src/run_projection_tests.rs:415).                 *)
CancellationEnds == status = "cancelling" ~> status # "cancelling"
=============================================================================
