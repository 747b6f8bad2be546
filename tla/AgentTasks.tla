----------------------------- MODULE AgentTasks -----------------------------
(***************************************************************************)
(* Child Agent Tasks: the agent_tasks rows and their execution lease        *)
(* (crates/hachimi-storage/src/agent_store/agent_tasks.rs), the coordinator *)
(* that spawns, executes, waits for, cancels and, after a restart,          *)
(* reconciles them (crates/hachimi-agent/src/multi_agent.rs).               *)
(*                                                                          *)
(* A node is a Run: the Root, or the child Run of a Task.  A parent's turn  *)
(* calls the agent tools one at a time, and every await of a tool is a      *)
(* step of its own.  The executor of a Task is the future spawned by        *)
(* launch_task_execution.  A turn is here a Run row that moves to its end;  *)
(* modules ExecutorRegistry and RunRecovery detail it, so registry.cancel   *)
(* is one step that reaches the registered descendants.                     *)
(*                                                                          *)
(* Budgets, messages, transcripts, usage and the grant snapshots are left   *)
(* out; agent.collect polls as agent.wait does.                             *)
(***************************************************************************)
EXTENDS Naturals, FiniteSets

CONSTANTS
  Task,
  Root,        \* the Run all Tasks descend from
  Parent,      \* parent_run_id of each Task's child Run
  Depth,       \* agent depth of each node, 0 for the Root
  NoTask,
  MaxActive,   \* MAX_ACTIVE_CHILDREN_PER_ROOT
  MaxCalls,    \* bound on calls of the agent tools
  MaxLives     \* bound on processes: one more than the restarts

Node == {Root} \cup Task

ASSUME TasksAssumption ==
  /\ Root \notin Task
  /\ NoTask \notin Node
  /\ Parent \in [Task -> Node]
  \* MAX_AGENT_DEPTH
  /\ Depth \in [Node -> 0..3]
  /\ Depth[Root] = 0
  /\ \A t \in Task : Depth[t] = Depth[Parent[t]] + 1
  /\ MaxActive \in Nat \ {0}
  /\ MaxCalls \in Nat
  /\ MaxLives \in Nat \ {0}

VARIABLES
  run,      \* status of each Run
  task,     \* status of each Task's row
  gen,      \* execution_generation
  owner,    \* lease_owner: the process, or 0
  fresh,    \* Tasks whose lease has not expired
  pc,       \* where the execution of each node stands
  token,    \* nodes whose registered token is cancelled
  told,     \* nodes whose turn has seen its cancellation
  bound,    \* Tasks launched under the token of their parent's turn
  heard,    \* executors that have stopped selecting and only await execute
  missed,   \* history: executors that stopped selecting with nothing registered
  lost,     \* executors that lost their lease
  snap,     \* what each executor's reconciliation read
  tool,     \* the agent tool each node's turn is in
  astray,   \* history: Tasks left open by a write from an outdated read, opened
            \* again, or left by a cancellation dropped half way
  dropped,  \* history: Tasks whose spawn was dropped after the row was written
  launched, \* history: Tasks this process has launched
  calls,    \* calls made so far
  life,     \* the process
  todo      \* Tasks reconcile_startup has still to inspect

rows == <<run, task, gen, owner, fresh>>
control == <<token, told, bound, heard, missed, lost>>
history == <<astray, dropped, launched>>
vars == <<rows, pc, control, snap, tool, history, calls, life, todo>>

Ended == {"succeeded", "failed", "cancelled", "interrupted"}
Interruptible == {"preparing", "running", "cancelling"}
RunStates == {"none", "queued", "recovering", "deciding"} \cup Interruptible \cup Ended

(* RunStatus::can_transition_to, for the moves made here.                   *)
Accepts(from, to) ==
  \/ from = to
  \/ /\ to = "cancelled"
     /\ from \in {"queued", "preparing", "cancelling", "recovering", "deciding", "interrupted"}
  \/ to = "failed" /\ from \in {"preparing", "running", "cancelling", "recovering", "deciding"}

Open == {"queued", "running"}
Closed == {"succeeded", "failed", "cancelled"}
TaskStates == {"none", "needs_attention"} \cup Open \cup Closed

(* can_transition, for the moves made here.                                 *)
TaskAccepts(from, to) ==
  \/ from = to
  \/ from = "queued" /\ to \in {"running", "failed", "cancelled"}
  \/ from \in {"running", "needs_attention"} /\ to \in {"running", "failed", "cancelled"}

(* Mistake: a failed Run is taken for one that may be tried again.          *)
MutRetries(r) ==
  CASE r \in {"queued", "preparing"}                           -> "queued"
    [] r \in {"running", "recovering", "cancelling", "failed"} -> "running"
    [] r \in {"deciding", "interrupted"}                       -> "needs_attention"
    [] OTHER                                                   -> r

(* The status a Task takes from its Run (reconcile_agent_task_from_run).    *)
Derived(r) ==
  CASE r \in {"queued", "preparing"}                 -> "queued"
    [] r \in {"running", "recovering", "cancelling"} -> "running"
    [] r \in {"deciding", "interrupted"}             -> "needs_attention"
    [] OTHER                                         -> r

NoTool == [kind |-> "none", of |-> NoTask, step |-> "none", left |-> {}, open |-> {},
           seen |-> "none"]

(* A row that leaves the Open statuses gives up its lease.                  *)
Write(t, s) ==
  /\ task' = [task EXCEPT ![t] = s]
  /\ owner' = [owner EXCEPT ![t] = IF s \in Open THEN @ ELSE 0]

(* transition_agent_task by a writer nobody races.                          *)
MoveTask(t, to) ==
  IF TaskAccepts(task[t], to) THEN Write(t, to) ELSE UNCHANGED <<task, owner>>

(* The reconciliation writes what it derived from an earlier read.          *)
WriteDerived(t, seen) ==
  LET s == Derived(seen)
      stale == s # Derived(run[t]) \/ task[t] \in Closed
  IN /\ Write(t, s)
     /\ astray' = IF s \notin Open THEN astray \ {t}
                  ELSE IF stale THEN astray \cup {t} ELSE astray

MoveRun(n, to) ==
  run' = IF Accepts(run[n], to) THEN [run EXCEPT ![n] = to] ELSE run

Executing == {"starting", "waiting", "turn"}
Settling == {"ended", "writing", "releasing"}
Registered(n) == pc[n] \in {"waiting", "turn", "solo"}

(* The registered executions below those of N; an execution resumed on its  *)
(* own has no parent in the registry.                                       *)
Below(N) == {d \in Task : pc[d] \in {"waiting", "turn"} /\ Parent[d] \in N}
Descendants(n) ==
  LET one == Below({n})  two == Below(one)  three == Below(two)
  IN one \cup two \cup three

(* registry.cancel finds only what is registered.                           *)
CancelRegistered(n) ==
  token' = IF Registered(n) THEN token \cup {n} \cup Descendants(n) ELSE token

-----------------------------------------------------------------------------
(* The tools of a running turn.                                             *)
Calls(p) ==
  /\ pc[p] \in {"turn", "solo"} /\ run[p] = "running" /\ tool[p].kind = "none"
  /\ calls < MaxCalls
  /\ calls' = calls + 1
In(p, kind, step) == tool[p].kind = kind /\ tool[p].step = step
Returns(p) == tool' = [tool EXCEPT ![p] = NoTool]

(* agent.spawn: the child Run first, then the row, then the claim.          *)
Spawn(p, t) ==
  /\ Calls(p)
  /\ Parent[t] = p
  /\ run[t] = "none"
  /\ run' = [run EXCEPT ![t] = "queued"]
  /\ tool' = [tool EXCEPT ![p] = [NoTool EXCEPT !.kind = "spawn", !.of = t, !.step = "row"]]
  /\ UNCHANGED <<task, gen, owner, fresh, pc, control, snap, history, life, todo>>

ActiveTasks == {t \in Task : task[t] \in Open}

(* create_agent_task.                                                       *)
SpawnRow(p) ==
  /\ In(p, "spawn", "row")
  /\ IF Cardinality(ActiveTasks) < MaxActive
       THEN /\ task' = [task EXCEPT ![tool[p].of] = "queued"]
            /\ tool' = [tool EXCEPT ![p].step = "claim"]
       ELSE Returns(p) /\ UNCHANGED task
  /\ UNCHANGED <<run, gen, owner, fresh, pc, control, snap, history, calls, life, todo>>

Claimable(t) == task[t] \in Open /\ (owner[t] = 0 \/ t \notin fresh)

(* claim_agent_task_execution by this process.                              *)
Claim(t) ==
  /\ gen' = [gen EXCEPT ![t] = @ + 1]
  /\ owner' = [owner EXCEPT ![t] = life]
  /\ fresh' = fresh \cup {t}

(* The rest of launch_task_execution: the spawned future marks the Task     *)
(* running and polls execute.                                               *)
Launch(t) ==
  /\ Claim(t)
  /\ task' = [task EXCEPT ![t] = "running"]
  /\ pc' = [pc EXCEPT ![t] = "starting"]
  /\ launched' = launched \cup {t}

SpawnClaim(p) ==
  LET t == tool[p].of IN
  /\ In(p, "spawn", "claim")
  /\ IF Claimable(t)
       THEN Launch(t) /\ bound' = bound \cup {t}
       ELSE UNCHANGED <<task, gen, owner, fresh, pc, launched, bound>>
  /\ Returns(p)
  /\ UNCHANGED <<run, token, told, heard, missed, lost, snap, astray, dropped, calls, life, todo>>

(* agent.wait and agent.collect: the Run is read, the Task written later.   *)
Poll(p, t) ==
  /\ Calls(p)
  /\ Parent[t] = p
  /\ task[t] # "none"
  /\ tool' = [tool EXCEPT
       ![p] = [NoTool EXCEPT !.kind = "poll", !.of = t, !.step = "write", !.seen = run[t]]]
  /\ UNCHANGED <<rows, pc, control, snap, history, life, todo>>

PollWrite(p) ==
  /\ In(p, "poll", "write")
  /\ WriteDerived(tool[p].of, tool[p].seen)
  /\ Returns(p)
  /\ UNCHANGED <<run, gen, fresh, pc, control, snap, dropped, launched, calls, life, todo>>

(* agent.cancel: the subtree is listed once and walked from its leaves.     *)
Ancestors(t) ==
  LET up(n) == IF n \in Task THEN Parent[n] ELSE Root
  IN {up(t), up(up(t)), up(up(up(t)))}
Subtree(t) == {d \in Task : task[d] # "none" /\ (d = t \/ t \in Ancestors(d))}

Cancel(p, t) ==
  /\ Calls(p)
  /\ Parent[t] = p
  /\ task[t] # "none"
  /\ tool' = [tool EXCEPT
       ![p] = [NoTool EXCEPT !.kind = "cancel", !.step = "stop", !.left = Subtree(t),
                             !.open = {d \in Subtree(t) : task[d] \notin Closed}]]
  /\ UNCHANGED <<rows, pc, control, snap, history, life, todo>>

Deepest(S) == {d \in S : \A e \in S : Depth[e] <= Depth[d]}
CancelStep(p, step) == In(p, "cancel", step)

(* The walk goes on to the row of the Task, or to the next Task.            *)
NextTask(p, d) ==
  LET rest == tool[p].left \ {d} IN
  tool' = [tool EXCEPT ![p] =
    IF rest = {} THEN NoTool
    ELSE [@ EXCEPT !.step = "stop", !.of = NoTask, !.left = rest, !.seen = "none"]]
ToTaskRow(p, d) ==
  IF d \in tool[p].open
    THEN tool' = [tool EXCEPT ![p] = [@ EXCEPT !.step = "read", !.of = d, !.seen = "none"]]
    ELSE NextTask(p, d)

(* The Run is read and its execution cancelled in one poll.                 *)
CancelStop(p) ==
  /\ CancelStep(p, "stop")
  /\ \E d \in Deepest(tool[p].left) :
       IF run[d] \in Ended
         THEN ToTaskRow(p, d) /\ UNCHANGED token
         ELSE /\ CancelRegistered(d)
              /\ tool' = [tool EXCEPT ![p] =
                   [@ EXCEPT !.step = "row", !.of = d, !.seen = run[d]]]
  /\ UNCHANGED <<rows, pc, told, bound, heard, missed, lost, snap, history, calls, life, todo>>

(* The transition is tried only from a status that was seen to allow it.    *)
CancelRow(p) ==
  LET d == tool[p].of IN
  /\ CancelStep(p, "row")
  /\ IF Accepts(tool[p].seen, "cancelled") THEN MoveRun(d, "cancelled") ELSE UNCHANGED run
  /\ ToTaskRow(p, d)
  /\ UNCHANGED <<task, gen, owner, fresh, pc, control, snap, history, calls, life, todo>>

CancelRead(p) ==
  LET d == tool[p].of IN
  /\ CancelStep(p, "read")
  /\ IF TaskAccepts(task[d], "cancelled")
       THEN tool' = [tool EXCEPT ![p] = [@ EXCEPT !.step = "write", !.seen = task[d]]]
       ELSE NextTask(p, d)
  /\ UNCHANGED <<rows, pc, control, snap, history, calls, life, todo>>

(* UPDATE ... WHERE status = what was read; a miss is not reported.         *)
CancelWrite(p) ==
  LET d == tool[p].of IN
  /\ CancelStep(p, "write")
  /\ IF task[d] = tool[p].seen THEN Write(d, "cancelled") ELSE UNCHANGED <<task, owner>>
  /\ NextTask(p, d)
  /\ UNCHANGED <<run, gen, fresh, pc, control, snap, history, calls, life, todo>>

(* The turn drops the future of a tool that timed out or was cancelled; a   *)
(* claim on its way may have been committed.  A dropped poll was no poll.   *)
DropTool(p) ==
  LET t == tool[p].of IN
  /\ tool[p].kind \in {"spawn", "cancel"}
  /\ \/ UNCHANGED <<gen, owner, fresh>>
     \/ /\ In(p, "spawn", "claim") /\ Claimable(t)
        /\ Claim(t)
  /\ dropped' = IF In(p, "spawn", "claim") THEN dropped \cup {t} ELSE dropped
  /\ astray' = astray \cup tool[p].left
  /\ Returns(p)
  /\ UNCHANGED <<run, task, pc, control, snap, launched, calls, life, todo>>

-----------------------------------------------------------------------------
(* The execution of a node.                                                 *)
Register(t) ==
  /\ pc[t] = "starting"
  /\ pc' = [pc EXCEPT ![t] = "waiting"]
  /\ UNCHANGED <<rows, control, snap, tool, history, calls, life, todo>>

(* The gate is taken, the precondition holds and the turn opens the Run.    *)
Enter(t) ==
  /\ pc[t] = "waiting"
  /\ run[t] = "queued"
  /\ run' = [run EXCEPT ![t] = "preparing"]
  /\ pc' = [pc EXCEPT ![t] = "turn"]
  /\ UNCHANGED <<task, gen, owner, fresh, control, snap, tool, history, calls, life, todo>>

(* execute returns and its entry goes; the registered descendants follow.   *)
Leaves(n) ==
  /\ pc' = [pc EXCEPT ![n] = IF @ = "solo" THEN "off" ELSE "ended"]
  /\ token' = (token \ {n}) \cup Descendants(n)

(* The authority snapshot, the lane, the precondition or the hook refuses.  *)
Refuse(t) ==
  /\ pc[t] \in {"starting", "waiting"}
  /\ Leaves(t)
  /\ UNCHANGED <<rows, told, bound, heard, missed, lost, snap, tool, history, calls, life, todo>>

Go(t) ==
  /\ pc[t] = "turn"
  /\ run[t] = "preparing"
  /\ run' = [run EXCEPT ![t] = "running"]
  /\ UNCHANGED <<task, gen, owner, fresh, pc, control, snap, tool, history, calls, life, todo>>

Turning(n) == pc[n] \in {"turn", "solo"} /\ tool[n].kind = "none"

Finish(n) ==
  /\ Turning(n)
  /\ run[n] = "running"
  /\ \E end \in {"succeeded", "failed"} : run' = [run EXCEPT ![n] = end]
  /\ Leaves(n)
  /\ UNCHANGED <<task, gen, owner, fresh, told, bound, heard, missed, lost, snap, tool, history,
                 calls, life, todo>>

(* The watcher of the turn sees the token.                                  *)
Watch(n) ==
  /\ pc[n] \in {"turn", "solo"}
  /\ n \in token
  /\ told' = told \cup {n}
  /\ UNCHANGED <<rows, pc, token, bound, heard, missed, lost, snap, tool, history, calls, life, todo>>

(* The loop closes the Run of a turn that was told to stop.                 *)
StopRun(n) ==
  /\ Turning(n)
  /\ n \in told
  /\ run[n] = "running"
  /\ run' = [run EXCEPT ![n] = "cancelling"]
  /\ UNCHANGED <<task, gen, owner, fresh, pc, control, snap, tool, history, calls, life, todo>>
Stopped(n) ==
  /\ Turning(n)
  /\ run[n] \in {"preparing", "cancelling"}
  /\ n \in told
  /\ run' = [run EXCEPT ![n] = "cancelled"]
  /\ Leaves(n)
  /\ UNCHANGED <<task, gen, owner, fresh, told, bound, heard, missed, lost, snap, tool, history,
                 calls, life, todo>>

(* The turn fails without moving the row: it was moved by another, or the   *)
(* storage refused.                                                         *)
Break(t) ==
  /\ t \in Task
  /\ pc[t] = "turn"
  /\ Turning(t)
  /\ Leaves(t)
  /\ UNCHANGED <<rows, told, bound, heard, missed, lost, snap, tool, history, calls, life, todo>>

-----------------------------------------------------------------------------
(* The select of the executor, beside execute.                              *)
Selecting(t) == pc[t] \in Executing /\ t \notin heard

(* It cancels the registered execution once, then only awaits execute.      *)
StopSelecting(t) ==
  /\ heard' = heard \cup {t}
  /\ CancelRegistered(t)
  /\ missed' = IF Registered(t) THEN missed ELSE missed \cup {t}

Asked(t) == t \in bound /\ Parent[t] \in told

Deliver(t) ==
  /\ Selecting(t)
  /\ Asked(t)
  /\ StopSelecting(t)
  /\ UNCHANGED <<rows, pc, told, bound, lost, snap, tool, history, calls, life, todo>>

Renewable(t) == owner[t] = life /\ task[t] \in Open

(* Mistake: a refused renewal is only noted.                                *)
MutKeepsSelecting(t) ==
  /\ Selecting(t)
  /\ lost' = lost \cup {t}
  /\ UNCHANGED <<rows, pc, token, told, bound, heard, missed, snap, tool, history, calls, life,
                 todo>>

(* A heartbeat whose renewal is refused or fails in the storage; the others *)
(* change nothing that is kept here.                                        *)
Heartbeat(t) ==
  /\ Selecting(t)
  /\ lost' = lost \cup {t}
  /\ StopSelecting(t)
  /\ UNCHANGED <<rows, pc, told, bound, snap, tool, history, calls, life, todo>>

(* After execute: the Run of a failed execution is closed, if it allows it, *)
(* and read again by the reconciliation.                                    *)
Settle(t) ==
  LET end == IF Asked(t) THEN "cancelled" ELSE "failed" IN
  /\ pc[t] = "ended"
  /\ IF run[t] \in Ended THEN UNCHANGED run ELSE MoveRun(t, end)
  /\ snap' = [snap EXCEPT ![t] = run'[t]]
  /\ pc' = [pc EXCEPT ![t] = "writing"]
  /\ UNCHANGED <<task, gen, owner, fresh, control, tool, history, calls, life, todo>>

WriteTask(t) ==
  /\ pc[t] = "writing"
  /\ WriteDerived(t, snap[t])
  /\ snap' = [snap EXCEPT ![t] = "none"]
  /\ pc' = [pc EXCEPT ![t] = "releasing"]
  /\ UNCHANGED <<run, gen, fresh, control, tool, dropped, launched, calls, life, todo>>

(* Mistake: only a closed Task gives its lease back.                        *)
MutKeepsLease(t) ==
  /\ pc[t] = "releasing"
  /\ owner' = [owner EXCEPT ![t] = IF task[t] \in Open THEN @ ELSE 0]
  /\ pc' = [pc EXCEPT ![t] = "off"]
  /\ bound' = bound \ {t} /\ heard' = heard \ {t}
  /\ missed' = missed \ {t} /\ lost' = lost \ {t}
  /\ UNCHANGED <<run, task, gen, fresh, token, told, snap, tool, history, calls, life, todo>>

(* A lost lease fails the Task, if it is still open; then                   *)
(* release_agent_task_execution_lease, by generation and owner.             *)
Release(t) ==
  LET fails == t \in lost /\ TaskAccepts(task[t], "failed") IN
  /\ pc[t] = "releasing"
  /\ task' = [task EXCEPT ![t] = IF fails THEN "failed" ELSE @]
  /\ owner' = [owner EXCEPT ![t] = IF fails \/ @ = life THEN 0 ELSE @]
  /\ pc' = [pc EXCEPT ![t] = "off"]
  /\ bound' = bound \ {t} /\ heard' = heard \ {t}
  /\ missed' = missed \ {t} /\ lost' = lost \ {t}
  /\ UNCHANGED <<run, gen, fresh, token, told, snap, tool, history, calls, life, todo>>

-----------------------------------------------------------------------------
(* cancel_workbench_run of the Root.                                        *)
UserCancel ==
  /\ Registered(Root)
  /\ CancelRegistered(Root)
  /\ UNCHANGED <<rows, pc, told, bound, heard, missed, lost, snap, tool, history, calls, life, todo>>

(* The process dies; the next one marks the interrupted Runs before         *)
(* anything else (recover_interrupted_with_run_recovery).  A lease lasts as *)
(* long as its clock says.                                                  *)
Restart ==
  /\ life < MaxLives
  /\ life' = life + 1
  /\ \E eligible \in SUBSET {n \in Node : run[n] \in {"preparing", "running"}},
        enabled \in BOOLEAN :
       run' = [n \in Node |->
                 IF run[n] \in Interruptible
                   THEN IF ~enabled THEN "interrupted"
                        ELSE IF n \in eligible THEN "recovering" ELSE "deciding"
                   ELSE run[n]]
  /\ fresh' \in SUBSET fresh
  /\ pc' = [n \in Node |-> "off"]
  /\ token' = {} /\ told' = {} /\ bound' = {} /\ heard' = {} /\ missed' = {} /\ lost' = {}
  /\ snap' = [t \in Task |-> "none"]
  /\ tool' = [n \in Node |-> NoTool]
  /\ launched' = {} /\ dropped' = {} /\ astray' = {}
  /\ todo' = {t \in Task : task[t] \notin Closed \cup {"none"}}
  /\ UNCHANGED <<task, gen, owner, calls>>

(* reconcile_startup takes the Tasks in the order of their depth, each in   *)
(* one step here: nothing else runs yet but what it has launched.           *)
Inspect(t) ==
  /\ t \in todo
  /\ \A s \in todo : Depth[t] <= Depth[s]
  /\ todo' = todo \ {t}
  /\ UNCHANGED <<token, told, bound, heard, missed, lost, snap, tool, dropped, astray, calls, life>>

InspectCancelled(t) ==
  /\ run[Parent[t]] = "cancelled"
  /\ Inspect(t)
  /\ IF run[t] \in Ended THEN UNCHANGED run ELSE MoveRun(t, "cancelled")
  /\ MoveTask(t, "cancelled")
  /\ UNCHANGED <<gen, fresh, pc, launched>>

InspectEnded(t) ==
  /\ run[Parent[t]] # "cancelled"
  /\ run[t] \in Ended
  /\ Inspect(t)
  /\ Write(t, Derived(run[t]))
  /\ UNCHANGED <<run, gen, fresh, pc, launched>>

(* Mistake: a Run that waits for a decision is passed over.                 *)
MutLeavesTask(t) ==
  /\ run[Parent[t]] # "cancelled"
  /\ run[t] = "deciding"
  /\ Inspect(t)
  /\ UNCHANGED <<rows, pc, launched>>

(* fail_reconciled_task: the recovery cannot be proven.                     *)
InspectFails(t) ==
  /\ run[Parent[t]] # "cancelled"
  /\ run[t] = "deciding"
  /\ Inspect(t)
  /\ MoveRun(t, "failed")
  /\ MoveTask(t, "failed")
  /\ UNCHANGED <<gen, fresh, pc, launched>>

(* The recovery is resolved, then the request is rebuilt and launched       *)
(* unless another lease still runs.                                         *)
InspectResumes(t) ==
  /\ run[Parent[t]] # "cancelled"
  /\ run[t] \in {"queued", "recovering"}
  /\ Inspect(t)
  /\ run' = [run EXCEPT ![t] = "queued"]
  /\ IF Claimable(t) THEN Launch(t)
     ELSE UNCHANGED <<task, gen, owner, fresh, pc, launched>>

(* A grant, authority or sandbox snapshot is missing: the queued Run does   *)
(* not accept the failure.                                                  *)
InspectUnprepared(t) ==
  /\ run[Parent[t]] # "cancelled"
  /\ run[t] \in {"queued", "recovering"}
  /\ Inspect(t)
  /\ run' = [run EXCEPT ![t] = "queued"]
  /\ MoveTask(t, "failed")
  /\ UNCHANGED <<gen, fresh, pc, launched>>

(* schedule_auto_resume_runs: what is still recovering, child or not, is    *)
(* resumed as a Run of its own.                                             *)
Resume(n) ==
  /\ todo = {}
  /\ pc[n] = "off"
  /\ run[n] = "recovering"
  /\ run' = [run EXCEPT ![n] = "running"]
  /\ pc' = [pc EXCEPT ![n] = "solo"]
  /\ UNCHANGED <<task, gen, owner, fresh, control, snap, tool, history, calls, life, todo>>

-----------------------------------------------------------------------------
Init ==
  /\ run = [n \in Node |-> IF n = Root THEN "running" ELSE "none"]
  /\ task = [t \in Task |-> "none"]
  /\ gen = [t \in Task |-> 0]
  /\ owner = [t \in Task |-> 0]
  /\ fresh = {}
  /\ pc = [n \in Node |-> IF n = Root THEN "solo" ELSE "off"]
  /\ token = {} /\ told = {} /\ bound = {} /\ heard = {} /\ missed = {} /\ lost = {}
  /\ snap = [t \in Task |-> "none"]
  /\ tool = [n \in Node |-> NoTool]
  /\ astray = {} /\ dropped = {} /\ launched = {}
  /\ calls = 0
  /\ life = 1
  /\ todo = {}

ToolStep(p) ==
  \/ SpawnRow(p) \/ SpawnClaim(p) \/ PollWrite(p)
  \/ CancelStop(p) \/ CancelRow(p) \/ CancelRead(p) \/ CancelWrite(p)

ExecutorStep(t) == Settle(t) \/ WriteTask(t) \/ Release(t)

InspectStep(t) ==
  \/ InspectCancelled(t) \/ InspectEnded(t) \/ InspectFails(t)
  \/ InspectResumes(t) \/ InspectUnprepared(t)

Next ==
  \/ \E p \in Node : \/ \E t \in Task : Spawn(p, t) \/ Poll(p, t) \/ Cancel(p, t)
                     \/ ToolStep(p) \/ DropTool(p)
                     \/ Finish(p) \/ Watch(p) \/ StopRun(p) \/ Stopped(p) \/ Resume(p)
  \/ \E t \in Task : \/ Register(t) \/ Enter(t) \/ Refuse(t) \/ Go(t) \/ Break(t)
                     \/ Deliver(t) \/ Heartbeat(t) \/ ExecutorStep(t) \/ InspectStep(t)
  \/ UserCancel
  \/ Restart

(* Futures are polled and the heartbeat ticks: a lease that cannot be       *)
(* renewed is noticed, the storage need not fail.  A turn that was not told *)
(* to stop need never end.                                                  *)
Fairness ==
  \A t \in Task :
    /\ WF_vars(ToolStep(t))
    /\ WF_vars(Register(t) \/ Enter(t) \/ Go(t))
    /\ WF_vars(Watch(t))
    /\ WF_vars(t \in told /\ (StopRun(t) \/ Stopped(t)))
    /\ WF_vars(run[t] \in Ended /\ Break(t))
    /\ WF_vars(run[t] # "queued" /\ Refuse(t))
    /\ WF_vars(~Renewable(t) /\ Heartbeat(t))
    /\ WF_vars(ExecutorStep(t))

Spec == Init /\ [][Next]_vars
FairSpec == Spec /\ Fairness

-----------------------------------------------------------------------------
Tools == [kind : {"none", "spawn", "poll", "cancel"}, of : Task \cup {NoTask},
          step : {"none", "row", "claim", "write", "stop", "read"},
          left : SUBSET Task, open : SUBSET Task, seen : RunStates \cup TaskStates]

TypeOK ==
  /\ run \in [Node -> RunStates]
  /\ task \in [Task -> TaskStates]
  /\ gen \in [Task -> Nat]
  /\ owner \in [Task -> 0..MaxLives]
  /\ fresh \subseteq Task
  /\ pc \in [Node -> {"off", "solo"} \cup Executing \cup Settling]
  /\ token \subseteq Node /\ told \subseteq Node
  /\ bound \subseteq Task /\ heard \subseteq Task /\ missed \subseteq Task
  /\ lost \subseteq Task
  /\ snap \in [Task -> RunStates]
  /\ tool \in [Node -> Tools]
  /\ astray \subseteq Task /\ dropped \subseteq Task /\ launched \subseteq Task
  /\ calls \in 0..MaxCalls
  /\ life \in 1..MaxLives
  /\ todo \subseteq Task

(* A lease held in the name of this process belongs to an executor that     *)
(* still runs, whatever ended it; the exception is a claim whose tool was   *)
(* dropped before it could spawn (multi_agent.rs:120-145).                  *)
LeaseAccounted ==
  \A t \in Task : owner[t] = life => pc[t] \in Executing \cup Settling \/ t \in dropped

(* An executor that is over has not left its Task open beside its ended     *)
(* Run.  The exceptions, and no others: an open status written from a read  *)
(* the Run or another writer had overtaken (agent_tasks.rs:399-465), and a  *)
(* cancellation that is under way or was dropped half way.                  *)
EndedAgrees ==
  \A t \in Task :
    /\ t \in launched /\ pc[t] = "off"
    /\ run[t] \in Ended
    /\ t \notin astray
    /\ \A p \in Node : t \notin tool[p].left
    => task[t] \in Closed \cup {"needs_attention"}

(* Once the startup reconciliation is over, a Task that is still open with  *)
(* its Run was launched by this process, or is refused because the lease of *)
(* an earlier process had not expired; none is forgotten                    *)
(* (multi_agent.rs:233-412).                                                *)
StartupAccounted ==
  \A t \in Task :
    /\ todo = {} /\ life > 1
    /\ task[t] \in Open /\ run[t] \notin Ended
    /\ t \notin launched \cup dropped \cup astray
    /\ \A p \in Node : tool[p].of # t
    => t \in fresh /\ owner[t] \in 1..(life - 1)

(* A Task that was cancelled while it executed stops, even when the cancel  *)
(* found nothing registered: the heartbeat misses its lease.  The exception *)
(* is an executor that had already stopped selecting (multi_agent.rs:150-   *)
(* 176).                                                                    *)
CancelStops ==
  \A t \in Task :
    (task[t] = "cancelled" /\ pc[t] \in Executing) ~> (pc[t] \notin Executing \/ t \in missed)

(* What the documents say and the code does not do.  After a restart the    *)
(* lease of the old process is void (docs/HARNESS_AGENT_ARCHITECTURE_AND_   *)
(* IMPLEMENTATION.md:94); the claim still honours it.                       *)
OldLeaseVoid ==
  \A t \in Task : todo = {} /\ task[t] \in Open => owner[t] \in {0, life}

(* Cancellation goes down to the children (docs/HACHIMI_AI_IMPLEMENTATION_  *)
(* SPEC.md:117); a child cancelled before a restart is resumed after it.    *)
CancelledStaysStopped ==
  \A t \in Task : task[t] = "cancelled" => pc[t] # "solo"
=============================================================================
