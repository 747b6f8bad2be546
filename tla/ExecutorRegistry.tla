-------------------------- MODULE ExecutorRegistry --------------------------
(***************************************************************************)
(* The Session lanes (crates/hachimi-agent/src/session_lane.rs), the        *)
(* registry of active executions and AgentRunExecutor::execute and          *)
(* compact_session (crates/hachimi-agent/src/run_runtime.rs), with the      *)
(* callers that pass a cancellation on to the registry.                     *)
(*                                                                          *)
(* An execution is one call of execute.  It registers its Run, waits for a  *)
(* background slot (a fair semaphore that no cancellation interrupts), then *)
(* for the gate of its Session's lane (a fair mutex, left when the epoch    *)
(* seen on entry is cancelled), runs the turn, and cleans up outside the    *)
(* lane.  registry.cancel cancels the token of one execution, then resets   *)
(* the lane of its whole Session, then walks the registered descendants:    *)
(* three steps between which everything else may happen.                    *)
(*                                                                          *)
(* Of the Run's row only what execute reads is kept: open or closed (a      *)
(* terminal status).  What a turn does is modules Scheduler and RunRecovery *)
(* and is here one step that ends well or badly.                            *)
(***************************************************************************)
EXTENDS Naturals, FiniteSets

CONSTANTS
  Exec,         \* calls of execute and of compact_session
  Compactors,   \* the calls of compact_session
  Run,
  Session,
  RunOf,        \* the Run of each execution (NoRun for a compaction)
  SessionOf,
  Parent,       \* parent_run_id of each Run, or NoRun
  Background,   \* executions with AgentRunPriority::Background
  Slots,        \* background_slots, at least 1
  MaxCancels,   \* bound on cancellations asked for by a user
  MaxErrors,    \* bound on failures of finish_run_recovery
  NoExec, NoRun

ASSUME RegistryAssumption ==
  /\ NoExec \notin Exec
  /\ NoRun \notin Run
  /\ Compactors \subseteq Exec
  /\ RunOf \in [Exec -> Run \cup {NoRun}]
  /\ \A e \in Exec : RunOf[e] = NoRun <=> e \in Compactors
  /\ SessionOf \in [Exec -> Session]
  \* the executions of one Run belong to the Session of the Run
  /\ \A e, f \in Exec \ Compactors : RunOf[e] = RunOf[f] => SessionOf[e] = SessionOf[f]
  /\ Parent \in [Run -> Run \cup {NoRun}]
  /\ Background \subseteq Exec \ Compactors
  /\ Slots \in Nat \ {0}
  /\ MaxCancels \in Nat
  /\ MaxErrors \in Nat

VARIABLES
  row,         \* the Run's row: "open", or "closed" once terminal
  active,      \* the registry: the execution registered for each Run
  token,       \* executions whose registered token is cancelled
  slots,       \* executions that hold a background slot
  epoch,       \* generation of each Session's lane
  gate,        \* the execution that holds each Session's gate
  marker,      \* the generation each execution read when it entered the lane
  ahead,       \* who was already in the queue an execution waits in
  pc,          \* where each execution stands
  combined,    \* executions whose turn has been told to stop by the watcher
  cancelling,  \* executions whose token was cancelled, their lane not yet reset
  sweep,       \* Runs whose registered children are still to be cancelled
  delivered,   \* executions whose caller has passed its cancellation on
  report,      \* result of the block that holds the permits
  stopped,     \* history: executions fenced by a reset while in the lane
  late,        \* history: executions registered with no execution of their parent
  cancels, errors

laneVars == <<epoch, gate, marker, ahead, slots>>
cancelVars == <<token, cancelling, sweep, delivered, cancels>>
vars == <<row, active, pc, combined, report, stopped, late, errors, laneVars, cancelVars>>

Steps == {"idle", "called", "slot", "enter", "waiting", "gated", "entered",
          "turn", "turnOk", "turnErr", "compacting", "after", "over", "leaked"}
InLane == {"waiting", "gated", "entered", "turn", "turnOk", "turnErr", "compacting"}
Queued == {"called", "slot", "enter", "waiting", "gated", "entered"}
HoldsGate == {"gated", "entered", "turn", "turnOk", "turnErr", "compacting"}

Init ==
  /\ row = [r \in Run |-> "open"]
  /\ active = [r \in Run |-> NoExec]
  /\ token = {} /\ slots = {} /\ combined = {} /\ cancelling = {}
  /\ sweep = {} /\ delivered = {} /\ stopped = {} /\ late = {}
  /\ epoch = [s \in Session |-> 1]
  /\ gate = [s \in Session |-> NoExec]
  /\ marker = [e \in Exec |-> 0]
  /\ ahead = [e \in Exec |-> {}]
  /\ pc = [e \in Exec |-> "idle"]
  /\ report = [e \in Exec |-> "none"]
  /\ cancels = 0 /\ errors = 0

Goto(e, step) == pc' = [pc EXCEPT ![e] = step]
Lane(e) == epoch[SessionOf[e]]
IsCurrent(e) == marker[e] = Lane(e)
(* The walk over the children of a Run that can have none is left out.      *)
Parents(R) == {r \in R : \E d \in Run : Parent[d] = r}
ActiveSession(s) == \E r \in Run : active[r] # NoExec /\ SessionOf[active[r]] = s

-----------------------------------------------------------------------------
(* A caller polls execute: a child's only from a tool call of its parent's *)
(* turn (spawn_child, send_child).                                          *)
Call(e) ==
  /\ e \notin Compactors
  /\ pc[e] = "idle"
  /\ Parent[RunOf[e]] = NoRun
     \/ \E x \in Exec \ Compactors : RunOf[x] = Parent[RunOf[e]] /\ pc[x] = "turn"
  /\ Goto(e, "called")
  /\ UNCHANGED <<row, active, combined, report, stopped, late, errors, laneVars, cancelVars>>

(* registry.register, after the authority snapshot was read and awaited.    *)
Register(e) ==
  /\ pc[e] = "called"
  /\ active[RunOf[e]] = NoExec
  /\ active' = [active EXCEPT ![RunOf[e]] = e]
  /\ ahead' = [ahead EXCEPT ![e] = {x \in Exec : pc[x] = "slot"}]
  /\ Goto(e, IF e \in Background THEN "slot" ELSE "enter")
  /\ late' = IF Parent[RunOf[e]] # NoRun /\ active[Parent[RunOf[e]]] = NoExec
             THEN late \cup {e} ELSE late
  /\ UNCHANGED <<row, combined, report, stopped, errors, epoch, gate, marker, slots, cancelVars>>

(* AlreadyRegistered, or the authority snapshot is missing or differs.      *)
Refuse(e) ==
  /\ pc[e] = "called"
  /\ Goto(e, "over")
  /\ report' = [report EXCEPT ![e] = "err"]
  /\ UNCHANGED <<row, active, combined, stopped, late, errors, laneVars, cancelVars>>

(* background_permit: a FIFO semaphore, awaited without the token.          *)
TakeSlot(e) ==
  /\ pc[e] = "slot"
  /\ \A x \in ahead[e] : pc[x] # "slot"
  /\ Cardinality(slots) < Slots
  /\ slots' = slots \cup {e}
  /\ ahead' = [ahead EXCEPT ![e] = {}]
  /\ Goto(e, "enter")
  /\ UNCHANGED <<row, active, combined, report, stopped, late, errors, epoch, gate, marker,
                 cancelVars>>

(* SessionLanes::enter up to the first poll of the gate: the epoch is read  *)
(* and the execution joins the FIFO queue of the mutex.                     *)
EnterLane(e) ==
  /\ pc[e] = "enter"
  /\ marker' = [marker EXCEPT ![e] = Lane(e)]
  /\ ahead' = [ahead EXCEPT
       ![e] = {x \in Exec : SessionOf[x] = SessionOf[e] /\ pc[x] = "waiting"}]
  /\ Goto(e, "waiting")
  /\ UNCHANGED <<row, active, combined, report, stopped, late, errors, epoch, gate, slots,
                 cancelVars>>

(* compact_session: refused while an execution of the Session is            *)
(* registered, then it enters the lane as an execution does.                *)
CompactCall(e) ==
  /\ e \in Compactors
  /\ pc[e] = "idle"
  /\ ~ActiveSession(SessionOf[e])
  /\ Goto(e, "enter")
  /\ UNCHANGED <<row, active, combined, report, stopped, late, errors, laneVars, cancelVars>>

Acquire(e) ==
  /\ pc[e] = "waiting"
  /\ gate[SessionOf[e]] = NoExec
  /\ \A x \in ahead[e] : pc[x] # "waiting"
  /\ gate' = [gate EXCEPT ![SessionOf[e]] = e]
  /\ ahead' = [ahead EXCEPT ![e] = {}]
  /\ Goto(e, "gated")
  /\ UNCHANGED <<row, active, combined, report, stopped, late, errors, epoch, marker, slots,
                 cancelVars>>

Release(e) == gate' = [gate EXCEPT ![SessionOf[e]] = NoExec]

MutKeepsSlot(e, o) ==
  /\ UNCHANGED slots
  /\ marker' = [marker EXCEPT ![e] = 0]
  /\ ahead' = [ahead EXCEPT ![e] = {}]
  /\ IF e \in Compactors
       THEN Goto(e, "over") /\ UNCHANGED report
       ELSE Goto(e, "after") /\ report' = [report EXCEPT ![e] = o]

(* The async block of execute ends with o: its permits and its marker are   *)
(* dropped.  A compaction reports to its command only.                      *)
EndBlock(e, o) ==
  /\ slots' = slots \ {e}
  /\ marker' = [marker EXCEPT ![e] = 0]
  /\ ahead' = [ahead EXCEPT ![e] = {}]
  /\ IF e \in Compactors
       THEN Goto(e, "over") /\ UNCHANGED report
       ELSE Goto(e, "after") /\ report' = [report EXCEPT ![e] = o]

(* Mistakes in leaving the queue: the cleanup is skipped, the token is not  *)
(* selected on.                                                             *)
MutSkipsCleanup(e) ==
  /\ pc[e] = "waiting"
  /\ ~IsCurrent(e)
  /\ slots' = slots \ {e}
  /\ Goto(e, "over")
  /\ report' = [report EXCEPT ![e] = "err"]
  /\ UNCHANGED <<row, active, combined, stopped, late, errors, epoch, marker, ahead, gate,
                 cancelVars>>
MutWaitsForGate(e) ==
  /\ pc[e] = "waiting"
  /\ ~IsCurrent(e)
  /\ gate[SessionOf[e]] = NoExec
  /\ EndBlock(e, "err")
  /\ UNCHANGED <<row, active, combined, stopped, late, errors, epoch, gate, cancelVars>>

(* The epoch token the waiter holds was cancelled by a reset.               *)
Leave(e) ==
  /\ pc[e] = "waiting"
  /\ ~IsCurrent(e)
  /\ EndBlock(e, "err")
  /\ UNCHANGED <<row, active, combined, stopped, late, errors, epoch, gate, cancelVars>>

(* The generation is read again once the gate is held.                      *)
Recheck(e) ==
  /\ pc[e] = "gated"
  /\ IF IsCurrent(e)
       THEN /\ Goto(e, IF e \in Compactors THEN "compacting" ELSE "entered")
            /\ UNCHANGED <<gate, slots, marker, ahead, report>>
       ELSE Release(e) /\ EndBlock(e, "err")
  /\ UNCHANGED <<row, active, combined, stopped, late, errors, epoch, cancelVars>>

(* assert_run_precondition passes and the run.before hook is dispatched;    *)
(* the watcher is spawned.                                                  *)
Begin(e) ==
  /\ pc[e] = "entered"
  /\ row[RunOf[e]] = "open"
  /\ Goto(e, "turn")
  /\ UNCHANGED <<row, active, combined, report, stopped, late, errors, laneVars, cancelVars>>

(* The Run was closed meanwhile, or the hook failed.                        *)
BeginFails(e) ==
  /\ pc[e] = "entered"
  /\ Release(e)
  /\ EndBlock(e, "err")
  /\ UNCHANGED <<row, active, combined, stopped, late, errors, epoch, cancelVars>>

(* The watcher task: the token or the lane's epoch, whichever comes first.  *)
Watch(e) ==
  /\ pc[e] = "turn"
  /\ e \in token \/ ~IsCurrent(e)
  /\ combined' = combined \cup {e}
  /\ UNCHANGED <<row, active, pc, report, stopped, late, errors, laneVars, cancelVars>>

(* The turn ends; a successful one has closed its Run, a failed one may     *)
(* have failed before it touched the row.                                   *)
TurnEnds(e) ==
  /\ pc[e] = "turn"
  /\ \/ /\ row[RunOf[e]] = "open"
        /\ Goto(e, "turnOk")
        /\ row' = [row EXCEPT ![RunOf[e]] = "closed"]
     \/ /\ Goto(e, "turnErr")
        /\ \/ row' = [row EXCEPT ![RunOf[e]] = "closed"]
           \/ UNCHANGED row
  /\ UNCHANGED <<active, combined, report, stopped, late, errors, laneVars, cancelVars>>

MutNoLaneCheck(e) ==
  /\ pc[e] \in {"turnOk", "turnErr"}
  /\ Release(e)
  /\ EndBlock(e, IF pc[e] = "turnOk" THEN "ok" ELSE "err")
  /\ UNCHANGED <<row, active, combined, stopped, late, errors, epoch, cancelVars>>

(* A success under an epoch that has moved on is StaleLaneGeneration.       *)
Exit(e) ==
  /\ pc[e] \in {"turnOk", "turnErr"}
  /\ Release(e)
  /\ EndBlock(e, IF pc[e] = "turnOk" /\ IsCurrent(e) THEN "ok" ELSE "err")
  /\ UNCHANGED <<row, active, combined, stopped, late, errors, epoch, cancelVars>>

CompactEnds(e) ==
  /\ pc[e] = "compacting"
  /\ Release(e)
  /\ EndBlock(e, "ok")
  /\ UNCHANGED <<row, active, combined, stopped, late, errors, epoch, cancelVars>>

MutNoWalk(e) ==
  /\ pc[e] = "after"
  /\ active' = [active EXCEPT ![RunOf[e]] = NoExec]
  /\ token' = token \ {e}
  /\ Goto(e, "over")
  /\ UNCHANGED <<row, combined, report, stopped, late, errors, laneVars, cancelling, sweep,
                 delivered, cancels>>

(* After the hook and the recovery's outcome, the entry and its token are   *)
(* dropped and the registered descendants are cancelled.                    *)
Remove(e) ==
  /\ pc[e] = "after"
  /\ active' = [active EXCEPT ![RunOf[e]] = NoExec]
  /\ sweep' = sweep \cup Parents({RunOf[e]})
  /\ token' = token \ {e}
  /\ Goto(e, "over")
  /\ UNCHANGED <<row, combined, report, stopped, late, errors, laneVars, cancelling,
                 delivered, cancels>>

(* finish_run_recovery fails: execute returns before registry.remove.       *)
LeakEntry(e) ==
  /\ pc[e] = "after"
  /\ errors < MaxErrors
  /\ errors' = errors + 1
  /\ Goto(e, "leaked")
  /\ UNCHANGED <<row, active, combined, report, stopped, late, laneVars, cancelVars>>

-----------------------------------------------------------------------------
(* registry.cancel, first half: the entry is read and its token cancelled.  *)
CancelEntry(r) ==
  /\ token' = token \cup {active[r]}
  /\ cancelling' = cancelling \cup {active[r]}

(* cancel_workbench_run and agent.cancel; a row that is still queued is     *)
(* closed as well, by a transition of its own.                              *)
Cancel(r) ==
  /\ cancels < MaxCancels
  /\ active[r] # NoExec
  /\ CancelEntry(r)
  /\ cancels' = cancels + 1
  /\ UNCHANGED <<row, active, pc, combined, report, stopped, late, errors, laneVars, sweep,
                 delivered>>

CloseRow(r) ==
  /\ row[r] = "open"
  /\ \E e \in Exec : RunOf[e] = r /\ pc[e] \in Queued
  /\ row' = [row EXCEPT ![r] = "closed"]
  /\ UNCHANGED <<active, pc, combined, report, stopped, late, errors, laneVars, cancelVars>>

(* The token a child was launched with is a child of the token of its       *)
(* parent's turn.                                                           *)
Asked(e) ==
  \E x \in Exec \ Compactors : RunOf[x] = Parent[RunOf[e]] /\ x \in combined

(* launch_task_execution: the select sees its token cancelled, calls        *)
(* registry.cancel once and ignores the answer, then only awaits execute.   *)
Deliver(e) ==
  /\ e \notin Compactors
  /\ pc[e] \notin {"idle", "over", "leaked"}
  /\ e \notin delivered
  /\ Asked(e)
  /\ delivered' = delivered \cup {e}
  /\ IF active[RunOf[e]] = NoExec
       THEN UNCHANGED <<token, cancelling>>
       ELSE CancelEntry(RunOf[e])
  /\ UNCHANGED <<row, active, pc, combined, report, stopped, late, errors, laneVars, sweep,
                 cancels>>

(* A reset that removes the lane from the map, its gate with it.            *)
MutResetDropsGate(e) ==
  /\ e \in cancelling
  /\ epoch' = [epoch EXCEPT ![SessionOf[e]] = @ + 1]
  /\ Release(e)
  /\ stopped' = stopped \cup
       {x \in Exec : SessionOf[x] = SessionOf[e] /\ pc[x] \in InLane}
  /\ cancelling' = cancelling \ {e}
  /\ sweep' = sweep \cup Parents({RunOf[e]})
  /\ UNCHANGED <<row, active, pc, combined, report, late, errors, marker, ahead, slots, token,
                 delivered, cancels>>

(* Second half of cancel, and of the loop body of cancel_descendants:       *)
(* lanes.reset of the whole Session, then the descendants.                  *)
Reset(e) ==
  /\ e \in cancelling
  /\ epoch' = [epoch EXCEPT ![SessionOf[e]] = @ + 1]
  /\ stopped' = stopped \cup
       {x \in Exec : SessionOf[x] = SessionOf[e] /\ pc[x] \in InLane}
  /\ cancelling' = cancelling \ {e}
  /\ sweep' = sweep \cup Parents({RunOf[e]})
  /\ UNCHANGED <<row, active, pc, combined, report, late, errors, gate, marker, ahead, slots,
                 token, delivered, cancels>>

(* cancel_descendants lists the children under the lock and cancels each.   *)
Sweep(r) ==
  /\ r \in sweep
  /\ LET children == {active[c] : c \in {d \in Run : Parent[d] = r /\ active[d] # NoExec}}
     IN /\ token' = token \cup children
        /\ cancelling' = cancelling \cup children
  /\ sweep' = sweep \ {r}
  /\ UNCHANGED <<row, active, pc, combined, report, stopped, late, errors, laneVars, delivered,
                 cancels>>

-----------------------------------------------------------------------------
ExecStep(e) ==
  \/ Register(e) \/ Refuse(e) \/ TakeSlot(e) \/ EnterLane(e) \/ Acquire(e) \/ Leave(e)
  \/ Recheck(e) \/ Begin(e) \/ BeginFails(e) \/ Exit(e) \/ Remove(e)

Next ==
  \/ \E e \in Exec : \/ Call(e) \/ CompactCall(e)
                     \/ ExecStep(e)
                     \/ Watch(e) \/ TurnEnds(e) \/ CompactEnds(e) \/ LeakEntry(e)
                     \/ Deliver(e) \/ Reset(e)
  \/ \E r \in Run : Cancel(r) \/ CloseRow(r) \/ Sweep(r)

(* Tasks are polled and cancellation walks are synchronous code; nothing    *)
(* makes a turn end but the token it watches.                               *)
Fairness ==
  /\ \A e \in Exec : /\ WF_vars(ExecStep(e))
                     /\ WF_vars(Watch(e))
                     /\ WF_vars(e \in combined /\ TurnEnds(e))
                     /\ WF_vars(Reset(e))
  /\ \A r \in Run : WF_vars(Sweep(r))

Spec == Init /\ [][Next]_vars
FairSpec == Spec /\ Fairness

-----------------------------------------------------------------------------
TypeOK ==
  /\ row \in [Run -> {"open", "closed"}]
  /\ active \in [Run -> Exec \cup {NoExec}]
  /\ token \subseteq Exec /\ slots \subseteq Background
  /\ combined \subseteq Exec /\ cancelling \subseteq Exec \ Compactors
  /\ delivered \subseteq Exec /\ stopped \subseteq Exec /\ late \subseteq Exec
  /\ sweep \subseteq Run
  /\ epoch \in [Session -> Nat \ {0}]
  /\ gate \in [Session -> Exec \cup {NoExec}]
  /\ marker \in [Exec -> Nat]
  /\ ahead \in [Exec -> SUBSET Exec]
  /\ pc \in [Exec -> Steps]
  /\ report \in [Exec -> {"none", "ok", "err"}]
  /\ cancels \in 0..MaxCancels
  /\ errors \in 0..MaxErrors

(* Lane exclusion: of the executions and compactions of a Session at most   *)
(* one is past the gate, whatever the order of resets, refused entries and  *)
(* waiters that give up (session_lane.rs:93-117).                           *)
LaneExclusive ==
  \A e, f \in Exec :
    /\ pc[e] \in HoldsGate /\ pc[f] \in HoldsGate
    /\ SessionOf[e] = SessionOf[f]
    => e = f

(* The background turns that run at once never exceed the slots, and an     *)
(* execution that left its block by any path has given its slot back        *)
(* (run_runtime.rs:1147-1160, 1370).                                        *)
SlotsAccounted ==
  /\ Cardinality(slots) <= Slots
  /\ slots = {e \in Background : pc[e] \in {"enter"} \cup InLane}

(* A registry entry is always that of an execution still on its way, so a   *)
(* Run can be executed again once an attempt is over; the one exception is  *)
(* the entry left behind when finish_run_recovery fails                     *)
(* (run_runtime.rs:1583-1585 returns before the removal at 1595).           *)
EntriesLive ==
  \A r \in Run : active[r] # NoExec =>
    /\ RunOf[active[r]] = r
    /\ pc[active[r]] \notin {"idle", "called", "over", "compacting"}

(* Cancellation goes down: once an execution is over and its walk is done,  *)
(* every execution registered for a child Run is cancelled, except one that *)
(* registered after the parent's entry was gone (run_runtime.rs:1595-1596). *)
ChildrenFollow ==
  \A r \in Run :
    LET p == Parent[r] IN
    /\ p # NoRun
    /\ active[r] # NoExec /\ active[p] = NoExec
    /\ p \notin sweep
    /\ active[r] \notin late
    => active[r] \in token

(* The lanes and the registry implement their abstract specification: in    *)
(* particular an execution fenced while in the lane never reports success   *)
(* (run_runtime.rs:1556-1560).                                              *)
Ledger == INSTANCE LaneLedger WITH holder <- gate
ImplementsLedger == Ledger!LedgerSpec

(* An execution fenced while it waits for the lane or runs its turn leaves  *)
(* it, however long the turns of others take (session_lane.rs:100-103,      *)
(* run_runtime.rs:1394-1400).                                               *)
FencedLeaves ==
  \A e \in Exec \ Compactors : e \in stopped ~> pc[e] \in {"after", "over", "leaked"}
=============================================================================
