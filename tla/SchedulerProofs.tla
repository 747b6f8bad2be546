--------------------------- MODULE SchedulerProofs ---------------------------
(***************************************************************************)
(* What is true of the Scheduler for every number of Schedules, TaskRuns,  *)
(* revisions, retries and crashes.  IInv is the inductive invariant: the   *)
(* types, and the facts about who refers to which row of task_runs that    *)
(* the types of a step rest on.  TableStep says what one step, whoever     *)
(* takes it, may do to the tables; the safety properties follow from the   *)
(* two without another look at the actions, OneExecutor excepted.          *)
(***************************************************************************)
EXTENDS Scheduler, TLAPS

(* A row has an owner that was created and a well-formed claim; the row of *)
(* a free identifier has neither a claim nor a Run.                        *)
RowsOK ==
  \A t \in Tasks :
    IF Claimed(t)
    THEN /\ claim[t] \in [owner: Schedules, rev: Nat, key: Keys]
         /\ sched[claim[t].owner].state # "absent"
    ELSE claim[t] = NoClaim /\ run[t] = "none"

(* Whoever holds a TaskRun in memory holds one that was claimed.           *)
HoldersOK ==
  /\ \A t \in handoff : Claimed(t)
  /\ \A x \in listed : Claimed(x.id)
  /\ item \in Snapshots => Claimed(item.id)
  /\ job.task \in Tasks => Claimed(job.task)
  /\ \A w \in Workers : worker[w].pc # "idle" => Claimed(w[1])

(* The timer and the sweep hold what their next step uses.                 *)
PositionsOK ==
  /\ timerPc \in {"stop", "claim", "advance", "launch"} => job \in Jobs
  /\ timerPc = "launch" => job.task \in Tasks
  /\ phase \in {"dispatch", "follow"} => item \in Snapshots

IInv == TypeOK /\ RowsOK /\ HoldersOK /\ PositionsOK

EnvOK == now \in Nat /\ crashes \in Nat /\ faults \in Nat /\ dropped \subseteq Tasks

(* A step that claims nothing: only rows that are not terminal move, a     *)
(* runtime state lets go only of a row that is terminal now or of its      *)
(* Schedule, a created Schedule can only be removed, and enabling or       *)
(* disabling one takes a new revision.                                     *)
RowsMove ==
  /\ \A t \in Tasks :
       /\ claim'[t] = claim[t]
       /\ status'[t] # status[t]
            => status[t] \in Active /\ status'[t] \in TaskStatuses
  /\ \A s \in Schedules :
       /\ active'[s] # active[s]
            => \/ sched'[s].state # "live"
               \/ active[s] \in Tasks => status'[active[s]] \in Terminal
       /\ sched[s].state # "absent"
            => sched'[s].state \in {sched[s].state, "removed"}
       /\ sched[s].state = "live" /\ sched'[s].state = "live"
            => \/ sched'[s].rev = sched[s].rev /\ sched'[s].enabled = sched[s].enabled
               \/ sched'[s].rev > sched[s].rev

(* A step that claims; an occurrence is claimed by the timer, for the job  *)
(* at hand.                                                                *)
RowAdded ==
  \E s \in Schedules, t \in Tasks, r \in Nat, k \in Keys,
     wanted \in {"queued", "skipped"} :
       /\ ClaimInvocation(s, t, r, k, wanted)
       /\ sched' = sched
       /\ k[1] = "schedule" => timerPc = "claim" /\ s = job.sched /\ r = job.rev

TableStep == RowsMove \/ RowAdded
-----------------------------------------------------------------------------
(* Operations of the store.                                                *)

(* A transition of a row that is not terminal, or to the status it has,    *)
(* keeps the tables typed and moves one row.                               *)
LEMMA TransitionStep ==
  ASSUME IInv, NEW t \in Tasks, NEW to \in TaskStatuses, Claimed(t),
         status[t] # to => status[t] \in Active,
         Transition(t, to), UNCHANGED <<sched, claim, run>>
  PROVE  TablesOK' /\ RowsMove
<1>1. /\ status' \in [Tasks -> TaskStatuses \cup {"absent"}]
      /\ active' \in [Schedules -> Tasks \cup {NoTask}]
  BY DEF IInv, TypeOK, TablesOK, Transition
<1>2. TablesOK'
  BY <1>1 DEF IInv, TypeOK, TablesOK
<1>3. RowsMove
  BY DEF IInv, TypeOK, TablesOK, RowsMove, Transition
<1> QED BY <1>2, <1>3

(* A claim keeps the tables typed and is the claim of TableStep.           *)
LEMMA ClaimStep ==
  ASSUME IInv, NEW s \in Schedules, NEW t \in Tasks, NEW r \in Nat,
         NEW k \in Keys, NEW wanted \in {"queued", "skipped"},
         ClaimInvocation(s, t, r, k, wanted), UNCHANGED sched,
         k[1] = "schedule" => timerPc = "claim" /\ s = job.sched /\ r = job.rev
  PROVE  /\ TablesOK'
         /\ RowAdded
         /\ Claimed(t)'
         /\ UNCHANGED run
<1>1. [owner |-> s, rev |-> r, key |-> k] \in [owner: Schedules, rev: Nat, key: Keys]
  OBVIOUS
<1>2. claim' \in [Tasks -> [owner: Schedules, rev: Nat, key: Keys] \cup {NoClaim}]
  BY <1>1 DEF IInv, TypeOK, TablesOK, ClaimInvocation
<1>3. status' \in [Tasks -> TaskStatuses \cup {"absent"}] /\ Claimed(t)'
  BY DEF IInv, TypeOK, TablesOK, ClaimInvocation, TaskStatuses, Active,
         Terminal, Claimed
<1>4. active' \in [Schedules -> Tasks \cup {NoTask}]
  BY DEF IInv, TypeOK, TablesOK, ClaimInvocation
<1>5. TablesOK' /\ UNCHANGED run
  BY <1>2, <1>3, <1>4 DEF IInv, TypeOK, TablesOK, ClaimInvocation
<1> QED BY <1>3, <1>5 DEF RowAdded

(* A step on the definitions alone that keeps what was created.            *)
LEMMA ScheduleStep ==
  ASSUME IInv, UNCHANGED <<active, taskVars>>,
         NEW s \in Schedules,
         NEW row \in [state: {"absent", "live", "removed"}, enabled: BOOLEAN,
                      rev: Nat, authority: Nat, next: Nat],
         sched' = [sched EXCEPT ![s] = row],
         sched[s].state # "absent"
           => /\ row.state = sched[s].state
              /\ \/ row.rev = sched[s].rev /\ row.enabled = sched[s].enabled
                 \/ row.rev > sched[s].rev
  PROVE  TablesOK' /\ RowsMove
  BY DEF IInv, TypeOK, TablesOK, RowsMove, taskVars

(* Disabling a Schedule.                                                   *)
LEMMA DisableStep ==
  ASSUME IInv, UNCHANGED <<active, taskVars>>, NEW s \in Schedules,
         DisableSchedule(s)
  PROVE  TablesOK' /\ RowsMove
<1> DEFINE Row == [state: {"absent", "live", "removed"}, enabled: BOOLEAN,
                   rev: Nat, authority: Nat, next: Nat]
           row == [sched[s] EXCEPT !.enabled = FALSE, !.next = 0,
                                   !.rev = sched[s].rev + 1]
<1>1. sched[s] \in Row
  BY DEF IInv, TypeOK, TablesOK
<1>2. sched[s].rev + 1 \in Nat
  BY <1>1
<1>3. row \in Row /\ row.state = sched[s].state /\ row.rev > sched[s].rev
  <2>1. row \in Row /\ row.state = sched[s].state /\ row.rev = sched[s].rev + 1
    BY <1>1, <1>2
  <2>2. sched[s].rev \in Nat
    BY <1>1
  <2> HIDE DEF row
  <2> QED BY <2>1, <2>2
<1>4. sched' = [sched EXCEPT ![s] = row]
  BY DEF DisableSchedule, IInv, TypeOK, TablesOK
<1> HIDE DEF row
<1> QED BY <1>3, <1>4, ScheduleStep

(* Nothing changes in the tables.                                          *)
LEMMA TablesFrame ==
  ASSUME IInv, UNCHANGED <<scheduleVars, taskVars>>
  PROVE  TablesOK' /\ RowsMove
  BY DEF IInv, TypeOK, TablesOK, RowsMove, scheduleVars, taskVars

(* next_occurrence is an instant.                                          *)
LEMMA NextType ==
  ASSUME NEW s \in Schedules, NEW after \in Nat
  PROVE  NextOccurrence(s, after) \in Nat /\ NextWithinEnd(s, after) \in Nat
<1>1. Definition[s] \in Definitions
  BY SchedulerAssumption
<1> QED BY <1>1 DEF Definitions, NextOccurrence, NextWithinEnd
-----------------------------------------------------------------------------
(* The steps of workers.                                                   *)

NoNewWorker == \A w \in Workers : worker'[w].pc # "idle" => worker[w].pc # "idle"

(* A worker moves on within launch_claim.                                  *)
LEMMA GotoStep ==
  ASSUME LaunchOK, NEW w \in Workers, NEW pc \in WorkerPcs, Goto(w, pc),
         UNCHANGED launches, worker[w].pc # "idle"
  PROVE  LaunchOK' /\ NoNewWorker
<1>1. [worker[w] EXCEPT !.pc = pc] \in WorkerStates
  BY DEF LaunchOK, WorkerStates
<1> QED BY <1>1 DEF LaunchOK, Goto, NoNewWorker

(* The state of a worker that does not exist.                              *)
LEMMA IdleType == IdleWorker \in WorkerStates
  BY DEF IdleWorker, WorkerStates, WorkerPcs

(* A worker ends.                                                          *)
LEMMA LeaveStep ==
  ASSUME LaunchOK, NEW w \in Workers, Leave(w)
  PROVE  LaunchOK' /\ NoNewWorker
  BY IdleType DEF LaunchOK, Leave, IdleWorker, Workers, NoNewWorker

(* A worker has its outcome.                                               *)
LEMMA CompleteStep ==
  ASSUME LaunchOK, NEW w \in Workers, NEW outcome \in TaskStatuses,
         Complete(w, outcome), UNCHANGED launches, worker[w].pc # "idle", ControlOK
  PROVE  LaunchOK' /\ NoNewWorker
<1>1. [IdleWorker EXCEPT !.pc = "finishing", !.outcome = outcome, !.stop = now]
        \in WorkerStates
  BY DEF ControlOK, IdleWorker, WorkerStates, WorkerPcs
<1> QED BY <1>1 DEF LaunchOK, Complete, NoNewWorker

(* launch_claim spawns a worker.                                           *)
LEMMA LaunchStep ==
  ASSUME LaunchOK, NEW t \in Tasks, NEW o \in Origins, NEW r \in Nat,
         LaunchClaim(t, o, r)
  PROVE  /\ LaunchOK'
         /\ \A w \in Workers :
              worker'[w].pc # "idle" => worker[w].pc # "idle" \/ w[1] = t
<1>1. [IdleWorker EXCEPT !.pc = "spawned", !.rev = r] \in WorkerStates
  BY DEF IdleWorker, WorkerStates, WorkerPcs
<1>2. <<t, o>> \in Workers
  BY DEF Workers
<1> QED BY <1>1, <1>2 DEF LaunchOK, LaunchClaim

(* A token is cancelled.                                                   *)
LEMMA CancelledType ==
  ASSUME LaunchOK, NEW w \in Workers
  PROVE  Cancelled(w) \in WorkerStates /\ Cancelled(w).pc = worker[w].pc
<1>1. worker[w] \in WorkerStates
  BY DEF LaunchOK
<1> QED BY <1>1 DEF Cancelled, WorkerStates
-----------------------------------------------------------------------------
(* Putting the parts of IInv together.                                     *)

(* Rows stay claimed, and what holds a TaskRun keeps to claimed ones, when *)
(* the tables take a TableStep and new holders took claimed rows.          *)
LEMMA Combine ==
  ASSUME IInv, TablesOK', TableStep,
         \A t \in Tasks : run'[t] = run[t] \/ Claimed(t),
         ControlOK', TimerOK', SweepOK', LaunchOK', CommandsOK', PositionsOK',
         \A t \in handoff' : t \in handoff \/ Claimed(t)',
         \A x \in listed' : x \in listed \/ Claimed(x.id),
         item' \in {item, NoItem} \/ Claimed(item.id)',
         job'.task \in {job.task, NoTask} \/ Claimed(job.task)',
         \A w \in Workers : worker'[w].pc # "idle"
                              => worker[w].pc # "idle" \/ Claimed(w[1])
  PROVE  IInv'
<1>1. \A t \in Tasks : Claimed(t) => Claimed(t)'
  <2>1. CASE RowsMove
    BY <2>1 DEF RowsMove, Claimed, TaskStatuses, Active, Terminal
  <2>2. CASE RowAdded
    BY <2>2 DEF RowAdded, ClaimInvocation, Fresh, Claimed, IInv, TypeOK, TablesOK
  <2> QED BY <2>1, <2>2 DEF TableStep
<1>2. RowsOK'
  <2>1. CASE RowsMove
    BY <2>1, <1>1 DEF RowsMove, RowsOK, IInv, TypeOK, TablesOK, Claimed, Active
  <2>2. CASE RowAdded
    <3>1. PICK s \in Schedules, t \in Tasks, r \in Nat, k \in Keys,
               wanted \in {"queued", "skipped"} :
                 ClaimInvocation(s, t, r, k, wanted) /\ sched' = sched
      BY <2>2 DEF RowAdded
    <3>2. claim'[t] = [owner |-> s, rev |-> r, key |-> k] /\ Claimed(t)'
      BY <3>1 DEF ClaimInvocation, IInv, TypeOK, TablesOK, Claimed
    <3>3. sched[s].state # "absent"
      BY <3>1 DEF ClaimInvocation, AtRevision, Live
    <3>4. \A u \in Tasks \ {t} : claim'[u] = claim[u] /\ Claimed(u)' = Claimed(u)
      BY <3>1 DEF ClaimInvocation, IInv, TypeOK, TablesOK, Claimed
    <3>5. UNCHANGED <<sched, run>>
      BY <3>1 DEF ClaimInvocation
    <3> QED BY <3>2, <3>3, <3>4, <3>5 DEF RowsOK, IInv
  <2> QED BY <2>1, <2>2 DEF TableStep
<1>3. HoldersOK'
  <2>1. \A t \in handoff' : Claimed(t)'
    BY <1>1 DEF IInv, HoldersOK, TypeOK, CommandsOK
  <2>2. \A x \in listed' : Claimed(x.id)'
    BY <1>1 DEF IInv, HoldersOK, SweepOK, Snapshots
  <2>3. item' \in Snapshots => Claimed(item.id)'
    BY <1>1 DEF IInv, HoldersOK, SweepOK, Snapshots, NoItem, Active
  <2>4. job'.task \in Tasks => Claimed(job.task)'
    BY <1>1, SchedulerAssumption DEF IInv, HoldersOK
  <2>5. \A w \in Workers : worker'[w].pc # "idle" => Claimed(w[1])'
    BY <1>1 DEF IInv, HoldersOK, Workers
  <2> QED BY <2>1, <2>2, <2>3, <2>4, <2>5 DEF HoldersOK
<1> QED BY <1>2, <1>3 DEF IInv, TypeOK
-----------------------------------------------------------------------------
(* Every action preserves IInv and is a TableStep.  First the workers.     *)

(* What is left to show of a step of a worker.                             *)
LEMMA WorkerCombine ==
  ASSUME IInv, UNCHANGED <<controlVars, timerVars, sweepVars, commandVars>>,
         UNCHANGED envVars \/ EnvOK',
         TablesOK', RowsMove, LaunchOK', NoNewWorker,
         \A t \in Tasks : run'[t] = run[t] \/ Claimed(t)
  PROVE  IInv' /\ TableStep
<1>1. ControlOK' /\ TimerOK' /\ SweepOK' /\ CommandsOK' /\ PositionsOK'
  BY DEF IInv, TypeOK, ControlOK, TimerOK, SweepOK, CommandsOK, PositionsOK,
         controlVars, timerVars, sweepVars, commandVars, envVars, EnvOK
<1>2. UNCHANGED <<handoff, listed, item, job>>
  BY DEF timerVars, sweepVars, commandVars
<1> QED BY <1>1, <1>2, Combine DEF TableStep, NoNewWorker

(* A worker works for a claimed TaskRun.                                   *)
LEMMA WorkersTask ==
  ASSUME IInv, NEW w \in Workers, worker[w].pc # "idle"
  PROVE  w[1] \in Tasks /\ w[2] \in Origins /\ w = <<w[1], w[2]>> /\ Claimed(w[1])
  BY DEF IInv, HoldersOK, Workers

(* A conditional transition: applied, or the row stays.                    *)
LEMMA TransitionOrStay ==
  ASSUME IInv, NEW t \in Tasks, NEW to \in TaskStatuses, Claimed(t),
         UNCHANGED <<sched, claim, run>>,
         \/ Accepts(t, to) /\ Transition(t, to)
         \/ UNCHANGED <<status, active>>
  PROVE  TablesOK' /\ RowsMove
  BY TransitionStep, TablesFrame DEF scheduleVars, taskVars, Accepts, CanTransition

(* The move to preparing.                                                  *)
LEMMA PrepareInv ==
  ASSUME IInv, NEW w \in Workers, Prepare(w)
  PROVE  IInv' /\ TableStep
<1>1. w[1] \in Tasks /\ Claimed(w[1]) /\ worker[w].pc # "idle"
  BY WorkersTask DEF Prepare
<1>2. TablesOK' /\ RowsMove
  BY <1>1, TransitionOrStay DEF Prepare, TaskStatuses, Active
<1>3. LaunchOK' /\ NoNewWorker
  BY <1>1, GotoStep, LeaveStep DEF Prepare, IInv, TypeOK, WorkerPcs
<1> QED BY <1>2, <1>3, WorkerCombine DEF Prepare, WorkerUnchanged

(* The checks before the Run is created.                                   *)
LEMMA ValidateInv ==
  ASSUME IInv, NEW w \in Workers, Validate(w)
  PROVE  IInv' /\ TableStep
<1>1. worker[w].pc # "idle" /\ "creating" \in WorkerPcs
  BY DEF Validate, WorkerPcs
<1>2. LaunchFailures \subseteq TaskStatuses /\ "needs_attention" \in TaskStatuses
  BY SchedulerAssumption DEF TaskStatuses, Terminal
<1>3. LaunchOK' /\ NoNewWorker
  BY <1>1, <1>2, GotoStep, CompleteStep DEF Validate, IInv, TypeOK
<1> QED BY <1>3, TablesFrame, WorkerCombine DEF Validate, WorkerUnchanged, taskVars

(* The Run is created and bound.                                           *)
LEMMA CreateRunInv ==
  ASSUME IInv, NEW w \in Workers, CreateRun(w)
  PROVE  IInv' /\ TableStep
<1>1. /\ w[1] \in Tasks /\ Claimed(w[1]) /\ worker[w].pc # "idle"
      /\ "starting" \in WorkerPcs
  BY WorkersTask DEF CreateRun, WorkerPcs
<1>2. LaunchFailures \subseteq TaskStatuses /\ "failed" \in TaskStatuses
  BY SchedulerAssumption DEF TaskStatuses, Terminal
<1>3. LaunchOK' /\ NoNewWorker
  BY <1>1, <1>2, GotoStep, CompleteStep DEF CreateRun, IInv, TypeOK
<1>4. run' \in [Tasks -> RunStatuses] /\ \A t \in Tasks : run'[t] = run[t] \/ Claimed(t)
  BY <1>1 DEF CreateRun, IInv, TypeOK, TablesOK, RunStatuses
<1>5. TablesOK' /\ RowsMove
  BY <1>4 DEF CreateRun, IInv, TypeOK, TablesOK, RowsMove, scheduleVars
<1> QED BY <1>3, <1>4, <1>5, WorkerCombine DEF CreateRun, WorkerUnchanged

(* The move to running.                                                    *)
LEMMA StartRunInv ==
  ASSUME IInv, NEW w \in Workers, StartRun(w)
  PROVE  IInv' /\ TableStep
<1>1. w[1] \in Tasks /\ Claimed(w[1]) /\ worker[w].pc # "idle"
  BY WorkersTask DEF StartRun
<1>2. TablesOK' /\ RowsMove
  BY <1>1, TransitionOrStay DEF StartRun, TaskStatuses, Active
<1>3. LaunchOK' /\ NoNewWorker
  BY <1>1, GotoStep, CompleteStep
     DEF StartRun, IInv, TypeOK, WorkerPcs, TaskStatuses, Terminal
<1> QED BY <1>2, <1>3, WorkerCombine DEF StartRun, WorkerUnchanged

(* task_status_from_run yields a status of a TaskRun.                      *)
LEMMA OutcomeType == \A r : OutcomeOf(r) \in TaskStatuses
  BY DEF OutcomeOf, TaskStatuses, Terminal

(* The look at the token.                                                  *)
LEMMA DispatchRunInv ==
  ASSUME IInv, NEW w \in Workers, DispatchRun(w)
  PROVE  IInv' /\ TableStep
<1>1. worker[w].pc # "idle" /\ "registering" \in WorkerPcs
  BY DEF DispatchRun, WorkerPcs
<1>2. LaunchOK' /\ NoNewWorker
  BY <1>1, GotoStep, CompleteStep, OutcomeType DEF DispatchRun, IInv, TypeOK
<1> QED BY <1>2, TablesFrame, WorkerCombine DEF DispatchRun, WorkerUnchanged, taskVars

(* How a Run may end.                                                      *)
LEMMA EndingType ==
  ASSUME NEW e \in Endings
  PROVE  e[1] \in RunEnds /\ e[2] \in TaskStatuses
<1>1. PICK r \in RunEnds :
        \E o \in {OutcomeOf(r), "timed_out", "needs_attention"} : e = <<r, o>>
  BY SchedulerAssumption DEF PossibleEndings
<1> QED BY <1>1, OutcomeType DEF TaskStatuses, Terminal

SpentRuns == {t \in Tasks : run[t] \notin {"none", "queued"}}

RunEnding(w) == /\ worker[w].pc = "executing"
                /\ \E ending \in Endings : EndsAs(w[1], ending)

(* A worker that registers, begins or finishes writes at most its own Run, *)
(* and what it writes is no longer queued.                                 *)
LEMMA RunWritten ==
  ASSUME IInv, NEW w \in Workers, RegisterRun(w) \/ BeginRun(w) \/ RunEnding(w)
  PROVE  /\ run' \in [Tasks -> RunStatuses]
         /\ \A t \in Tasks : run'[t] = run[t] \/ Claimed(t)
         /\ SpentRuns \subseteq SpentRuns'
         /\ \A t \in SpentRuns' : Claimed(t)
<1> DEFINE Written(r) == r = run[w[1]] \/ r \in RunStatuses \ {"none", "queued"}
<1>1. /\ w[1] \in Tasks /\ Claimed(w[1])
      /\ run \in [Tasks -> RunStatuses]
      /\ \A t \in SpentRuns : Claimed(t)
  BY WorkersTask DEF RegisterRun, BeginRun, RunEnding, IInv, TypeOK, TablesOK, RowsOK,
                     SpentRuns
<1>2. ASSUME FailRun(w[1])
      PROVE  \E r : Written(r) /\ run' = [run EXCEPT ![w[1]] = r]
  <2>1. CASE run[w[1]] \in RunEnds
    BY <1>1, <1>2, <2>1 DEF FailRun
  <2>2. CASE run[w[1]] \notin RunEnds
    <3>1. run' = [run EXCEPT ![w[1]] = "failed"]
      BY <1>1, <1>2, <2>2 DEF FailRun
    <3> QED BY <3>1 DEF RunStatuses, RunEnds
  <2> QED BY <2>1, <2>2
<1>3. UNCHANGED run => \E r : Written(r) /\ run' = [run EXCEPT ![w[1]] = r]
  BY <1>1
<1>4. PICK r : Written(r) /\ run' = [run EXCEPT ![w[1]] = r]
  <2>1. CASE RegisterRun(w)
    BY <1>2, <1>3, <2>1 DEF RegisterRun
  <2>2. CASE BeginRun(w)
    BY <1>2, <2>2 DEF BeginRun, RunStatuses
  <2>3. CASE RunEnding(w)
    <3>1. PICK e \in Endings :
            run' = [run EXCEPT ![w[1]] = IF @ = "active" THEN e[1] ELSE @]
      BY <2>3 DEF RunEnding, EndsAs
    <3>2. e[1] \in RunEnds
      BY EndingType
    <3> QED BY <1>1, <3>1, <3>2 DEF RunStatuses, RunEnds
  <2> QED BY <2>1, <2>2, <2>3
<1>5. \A t \in Tasks : run'[t] = IF t = w[1] THEN r ELSE run[t]
  BY <1>1, <1>4
<1>6. run' \in [Tasks -> RunStatuses]
  BY <1>1, <1>4
<1> QED BY <1>1, <1>4, <1>5, <1>6 DEF SpentRuns

(* FinishRun ends the Run.                                                 *)
LEMMA FinishRunEnds == \A w \in Workers : FinishRun(w) => RunEnding(w)
  BY DEF FinishRun, RunEnding

(* The Run is registered, begins or ends.                                  *)
LEMMA ExecutionInv ==
  ASSUME IInv, NEW w \in Workers, RegisterRun(w) \/ BeginRun(w) \/ FinishRun(w)
  PROVE  IInv' /\ TableStep
<1>1. /\ w[1] \in Tasks /\ Claimed(w[1]) /\ worker[w].pc # "idle"
      /\ {"registered", "executing"} \subseteq WorkerPcs
      /\ worker \in [Workers -> WorkerStates]
  BY WorkersTask DEF RegisterRun, BeginRun, FinishRun, WorkerPcs, IInv, TypeOK, LaunchOK
<1>2. \/ \E outcome \in TaskStatuses : Complete(w, outcome)
      \/ \E pc \in {"registered", "executing"} : Goto(w, pc)
  BY OutcomeType, EndingType DEF RegisterRun, BeginRun, FinishRun
<1>3. LaunchOK' /\ NoNewWorker
  BY <1>1, <1>2, GotoStep, CompleteStep
     DEF RegisterRun, BeginRun, FinishRun, IInv, TypeOK
<1>4. TablesOK' /\ RowsMove
  BY RunWritten, FinishRunEnds
     DEF RegisterRun, BeginRun, FinishRun, IInv, TypeOK, TablesOK, RowsMove, scheduleVars
<1>5. UNCHANGED <<sched, claim>> /\ WorkerUnchanged
  BY DEF RegisterRun, BeginRun, FinishRun, scheduleVars
<1> QED BY <1>3, <1>4, <1>5, RunWritten, FinishRunEnds, WorkerCombine
           DEF WorkerUnchanged

(* The transition to the outcome.                                          *)
LEMMA FinishInv ==
  ASSUME IInv, NEW w \in Workers, Finish(w)
  PROVE  IInv' /\ TableStep
<1>1. w[1] \in Tasks /\ Claimed(w[1]) /\ worker[w].pc # "idle"
  BY WorkersTask DEF Finish
<1>2. worker[w].outcome \in TaskStatuses \cup {"absent"}
  BY DEF IInv, TypeOK, LaunchOK, WorkerStates
<1>3. Accepts(w[1], worker[w].outcome) => worker[w].outcome \in TaskStatuses
  BY <1>1, <1>2 DEF Accepts, CanTransition, Successors, Claimed, TaskStatuses, Active,
      Terminal
<1>4. TablesOK' /\ RowsMove
  BY <1>1, <1>3, TransitionOrStay, TablesFrame DEF Finish, scheduleVars, taskVars
<1>5. LaunchOK' /\ NoNewWorker
  BY <1>1, GotoStep, LeaveStep DEF Finish, IInv, TypeOK, WorkerPcs
<1> QED BY <1>4, <1>5, WorkerCombine DEF Finish, WorkerUnchanged

(* The reads of apply_stop_conditions.                                     *)
LEMMA ReadStopConditionsInv ==
  ASSUME IInv, NEW w \in Workers, ReadStopConditions(w)
  PROVE  IInv' /\ TableStep
<1> DEFINE s == claim[w[1]].owner
<1>1. w[1] \in Tasks /\ Claimed(w[1]) /\ worker[w].pc # "idle"
  BY WorkersTask DEF ReadStopConditions
<1>2. s \in Schedules
  BY <1>1 DEF IInv, RowsOK
<1>3. [worker[w] EXCEPT !.pc = "disabling", !.stop = sched[s].rev] \in WorkerStates
  <2>1. sched[s].rev \in Nat /\ worker[w] \in WorkerStates
    BY <1>2 DEF IInv, TypeOK, TablesOK, LaunchOK
  <2> QED BY <2>1 DEF WorkerStates, WorkerPcs
<1>4. LaunchOK' /\ NoNewWorker
  <2>1. CASE worker' = [worker EXCEPT ![w].pc = "disabling", ![w].stop = sched[s].rev]
             /\ UNCHANGED launches
    BY <2>1, <1>1, <1>3 DEF IInv, TypeOK, LaunchOK, NoNewWorker
  <2>2. CASE Leave(w)
    BY <2>2, LeaveStep DEF IInv, TypeOK
  <2> QED BY <2>1, <2>2 DEF ReadStopConditions
<1> QED BY <1>4, TablesFrame, WorkerCombine DEF ReadStopConditions, WorkerUnchanged, taskVars

(* The compare-and-swap of apply_stop_conditions.                          *)
LEMMA ApplyStopInv ==
  ASSUME IInv, NEW w \in Workers, ApplyStop(w)
  PROVE  IInv' /\ TableStep
<1>1. w[1] \in Tasks /\ Claimed(w[1])
  BY WorkersTask DEF ApplyStop
<1>2. claim[w[1]].owner \in Schedules
  BY <1>1 DEF IInv, RowsOK
<1>3. TablesOK' /\ RowsMove
  BY <1>2, DisableStep, TablesFrame DEF ApplyStop, scheduleVars
<1>4. LaunchOK' /\ NoNewWorker
  BY LeaveStep DEF ApplyStop, IInv, TypeOK
<1> QED BY <1>3, <1>4, WorkerCombine DEF ApplyStop, WorkerUnchanged, taskVars

(* Every step of a worker.                                                 *)
LEMMA WorkerInv ==
  ASSUME IInv, NEW w \in Workers, WorkerStep(w)
  PROVE  IInv' /\ TableStep
  BY PrepareInv, ValidateInv, CreateRunInv, StartRunInv, DispatchRunInv,
     ExecutionInv, FinishInv, ReadStopConditionsInv, ApplyStopInv
     DEF WorkerStep
-----------------------------------------------------------------------------
(* The commands.                                                           *)

(* What is left to show of a command, or of what it goes on to do.         *)
LEMMA CommandCombine ==
  ASSUME IInv, UNCHANGED <<controlVars, timerVars, sweepVars>>,
         UNCHANGED envVars \/ EnvOK',
         TablesOK', TableStep, LaunchOK', CommandsOK',
         \A t \in Tasks : run'[t] = run[t] \/ Claimed(t),
         \A t \in handoff' : t \in handoff \/ Claimed(t)',
         \A w \in Workers : worker'[w].pc # "idle"
                              => worker[w].pc # "idle" \/ Claimed(w[1])
  PROVE  IInv' /\ TableStep
<1>1. ControlOK' /\ TimerOK' /\ SweepOK' /\ PositionsOK'
  BY DEF IInv, TypeOK, ControlOK, TimerOK, SweepOK, PositionsOK,
         controlVars, timerVars, sweepVars, envVars, EnvOK
<1>2. UNCHANGED <<listed, item, job>>
  BY DEF timerVars, sweepVars
<1> QED BY <1>1, <1>2, Combine

(* A command on a definition alone.                                        *)
LEMMA DefinitionCombine ==
  ASSUME IInv, UNCHANGED <<taskVars, controlVars, timerVars, sweepVars, launchVars,
                           handoff, cancelling, envVars>>,
         TablesOK', RowsMove,
         followUps' \subseteq {"launches", "runs"} \X Schedules
  PROVE  IInv' /\ TableStep
<1>1. LaunchOK' /\ CommandsOK' /\ UNCHANGED <<run, worker, handoff>>
  BY DEF IInv, TypeOK, LaunchOK, CommandsOK, launchVars, taskVars
<1> QED BY <1>1, CommandCombine DEF TableStep

(* SchedulerService::create.                                               *)
LEMMA CreateInv ==
  ASSUME IInv, NEW s \in Schedules, NEW e \in BOOLEAN, Create(s, e)
  PROVE  IInv' /\ TableStep
<1> DEFINE row == [state |-> "live", enabled |-> e, rev |-> 1, authority |-> 1,
                   next |-> IF e THEN NextOccurrence(s, now) ELSE 0]
<1>1. NextOccurrence(s, now) \in Nat
  BY NextType DEF IInv, TypeOK, ControlOK
<1>2. row \in [state: {"absent", "live", "removed"}, enabled: BOOLEAN,
               rev: Nat, authority: Nat, next: Nat]
  BY <1>1
<1>3. /\ sched' = [sched EXCEPT ![s] = row] /\ sched[s].state = "absent"
      /\ UNCHANGED <<active, taskVars>>
  BY DEF Create
<1> HIDE DEF row
<1>4. TablesOK' /\ RowsMove
  BY <1>2, <1>3, ScheduleStep
<1>5. /\ UNCHANGED <<taskVars, controlVars, timerVars, sweepVars, launchVars,
                     handoff, cancelling, envVars>>
      /\ followUps' \subseteq {"launches", "runs"} \X Schedules
  BY DEF Create, commandVars, IInv, TypeOK, CommandsOK
<1> QED BY <1>4, <1>5, DefinitionCombine

(* update and set_enabled write the same columns.                          *)
LEMMA EditStep ==
  ASSUME IInv, UNCHANGED <<active, taskVars>>, NEW s \in Schedules,
         NEW e \in BOOLEAN, NEW next \in Nat, NEW authority \in Nat,
         sched' = [sched EXCEPT ![s].enabled = e, ![s].next = next,
                                ![s].rev = sched[s].rev + 1,
                                ![s].authority = authority]
  PROVE  TablesOK' /\ RowsMove
<1> DEFINE Row == [state: {"absent", "live", "removed"}, enabled: BOOLEAN,
                   rev: Nat, authority: Nat, next: Nat]
           row == [sched[s] EXCEPT !.enabled = e, !.next = next,
                                   !.rev = sched[s].rev + 1,
                                   !.authority = authority]
<1>1. sched[s] \in Row
  BY DEF IInv, TypeOK, TablesOK
<1>2. sched[s].rev + 1 \in Nat
  BY <1>1
<1>3. row \in Row /\ row.state = sched[s].state /\ row.rev > sched[s].rev
  <2>1. row \in Row /\ row.state = sched[s].state /\ row.rev = sched[s].rev + 1
    BY <1>1, <1>2
  <2>2. sched[s].rev \in Nat
    BY <1>1
  <2> HIDE DEF row
  <2> QED BY <2>1, <2>2
<1>4. sched' = [sched EXCEPT ![s] = row]
  BY DEF IInv, TypeOK, TablesOK
<1> HIDE DEF row
<1> QED BY <1>3, <1>4, ScheduleStep

(* SchedulerService::update.                                               *)
LEMMA UpdateInv ==
  ASSUME IInv, NEW s \in Schedules, NEW e \in BOOLEAN,
         NEW scopeChanged \in BOOLEAN, Update(s, e, scopeChanged)
  PROVE  IInv' /\ TableStep
<1> DEFINE next == IF e THEN NextOccurrence(s, now) ELSE 0
           authority == IF scopeChanged THEN sched[s].rev + 1 ELSE sched[s].authority
<1>1. next \in Nat
  BY NextType DEF IInv, TypeOK, ControlOK
<1>2. authority \in Nat
  <2>1. sched[s].rev \in Nat /\ sched[s].authority \in Nat
    BY DEF IInv, TypeOK, TablesOK
  <2> QED BY <2>1
<1>3. /\ sched' = [sched EXCEPT ![s].enabled = e, ![s].next = next,
                                ![s].rev = sched[s].rev + 1,
                                ![s].authority = authority]
      /\ UNCHANGED <<active, taskVars>>
  BY DEF Update, IInv, TypeOK, TablesOK
<1> HIDE DEF next, authority
<1>4. TablesOK' /\ RowsMove
  BY <1>1, <1>2, <1>3, EditStep
<1>5. /\ UNCHANGED <<taskVars, controlVars, timerVars, sweepVars, launchVars,
                     handoff, cancelling, envVars>>
      /\ followUps' \subseteq {"launches", "runs"} \X Schedules
  BY DEF Update, IInv, TypeOK, CommandsOK
<1> QED BY <1>4, <1>5, DefinitionCombine

(* SchedulerService::set_enabled.                                          *)
LEMMA SetEnabledInv ==
  ASSUME IInv, NEW s \in Schedules, NEW e \in BOOLEAN, SetEnabled(s, e)
  PROVE  IInv' /\ TableStep
<1> DEFINE next == IF e THEN NextOccurrence(s, now) ELSE 0
<1>1. next \in Nat
  BY NextType DEF IInv, TypeOK, ControlOK
<1>2. sched[s].authority \in Nat
  BY DEF IInv, TypeOK, TablesOK
<1>3. /\ sched' = [sched EXCEPT ![s].enabled = e, ![s].next = next,
                                ![s].rev = sched[s].rev + 1,
                                ![s].authority = sched[s].authority]
      /\ UNCHANGED <<active, taskVars>>
  BY DEF SetEnabled, IInv, TypeOK, TablesOK
<1> HIDE DEF next
<1>4. TablesOK' /\ RowsMove
  BY <1>1, <1>2, <1>3, EditStep
<1>5. /\ UNCHANGED <<taskVars, controlVars, timerVars, sweepVars, launchVars,
                     handoff, cancelling, envVars>>
      /\ followUps' \subseteq {"launches", "runs"} \X Schedules
  BY DEF SetEnabled, IInv, TypeOK, CommandsOK
<1> QED BY <1>4, <1>5, DefinitionCombine

(* SchedulerService::remove, which also drops the runtime state.           *)
LEMMA RemoveInv ==
  ASSUME IInv, NEW s \in Schedules, Remove(s)
  PROVE  IInv' /\ TableStep
<1> DEFINE row == [AbsentSchedule EXCEPT !.state = "removed"]
<1>1. /\ row \in [state: {"absent", "live", "removed"}, enabled: BOOLEAN,
                  rev: Nat, authority: Nat, next: Nat]
      /\ row.state = "removed"
  BY DEF AbsentSchedule
<1>2. sched' = [sched EXCEPT ![s] = row] /\ active' = [active EXCEPT ![s] = NoTask]
      /\ UNCHANGED taskVars
  BY DEF Remove
<1> HIDE DEF row
<1>3. TablesOK' /\ RowsMove
  BY <1>1, <1>2 DEF IInv, TypeOK, TablesOK, RowsMove, taskVars
<1>4. /\ UNCHANGED <<taskVars, controlVars, timerVars, sweepVars, launchVars,
                     handoff, cancelling, envVars>>
      /\ followUps' \subseteq {"launches", "runs"} \X Schedules
  BY DEF Remove, IInv, TypeOK, CommandsOK
<1> QED BY <1>3, <1>4, DefinitionCombine

(* cancel_active_launches_for_schedule: tokens only.                       *)
LEMMA CancelLaunchesInv ==
  ASSUME IInv, NEW s \in Schedules, CancelLaunches(s)
  PROVE  IInv' /\ TableStep
<1>1. LaunchOK' /\ NoNewWorker
  BY CancelledType DEF CancelLaunches, IInv, TypeOK, LaunchOK, NoNewWorker
<1>2. CommandsOK'
  BY DEF CancelLaunches, IInv, TypeOK, CommandsOK
<1> QED BY <1>1, <1>2, TablesFrame, CommandCombine
        DEF CancelLaunches, TableStep, NoNewWorker, taskVars

(* cancel_runs_for_permission_owner: Runs of claimed rows only.            *)
LEMMA CancelRunsInv ==
  ASSUME IInv, NEW s \in Schedules, CancelRuns(s)
  PROVE  IInv' /\ TableStep
<1>1. \A t \in Tasks : run'[t] = run[t] \/ Claimed(t)
  BY DEF CancelRuns, IInv, RowsOK
<1>2. TablesOK' /\ RowsMove
  BY DEF CancelRuns, IInv, TypeOK, TablesOK, RowsMove, scheduleVars, RunStatuses, RunEnds
<1>3. LaunchOK' /\ CommandsOK' /\ UNCHANGED <<worker, handoff>>
  BY DEF CancelRuns, IInv, TypeOK, LaunchOK, CommandsOK, launchVars
<1> QED BY <1>1, <1>2, <1>3, CommandCombine DEF CancelRuns, TableStep

(* run_now claims the row it hands over.                                   *)
LEMMA RunNowInv ==
  ASSUME IInv, NEW s \in Schedules, NEW t \in Tasks, RunNow(s, t)
  PROVE  IInv' /\ TableStep
<1>1. /\ sched[s].rev \in Nat /\ ManualKey(s, t) \in Keys
      /\ ManualKey(s, t)[1] # "schedule"
  BY DEF IInv, TypeOK, TablesOK, Keys, ManualKey
<1>2. TablesOK' /\ RowAdded /\ Claimed(t)' /\ UNCHANGED run
  BY <1>1, ClaimStep DEF RunNow
<1>3. LaunchOK' /\ CommandsOK' /\ UNCHANGED worker /\ handoff' \subseteq handoff \cup {t}
  BY DEF RunNow, IInv, TypeOK, LaunchOK, CommandsOK, launchVars
<1> QED BY <1>2, <1>3, CommandCombine DEF RunNow, TableStep

(* retry claims the row it hands over.                                     *)
LEMMA RetryInv ==
  ASSUME IInv, NEW p \in Tasks, NEW t \in Tasks, Retry(p, t)
  PROVE  IInv' /\ TableStep
<1> DEFINE s == claim[p].owner
<1>1. s \in Schedules
  BY DEF Retry, Linked, IInv, RowsOK
<1>2. /\ sched[s].rev \in Nat /\ RetryKey(p, t) \in Keys
      /\ RetryKey(p, t)[1] # "schedule"
  BY <1>1 DEF IInv, TypeOK, TablesOK, Keys, RetryKey
<1>3. ClaimInvocation(s, t, sched[s].rev, RetryKey(p, t), "queued") /\ UNCHANGED sched
  BY DEF Retry
<1> HIDE DEF s
<1>4. TablesOK' /\ RowAdded /\ Claimed(t)' /\ UNCHANGED run
  BY <1>1, <1>2, <1>3, ClaimStep
<1>5. LaunchOK' /\ CommandsOK' /\ UNCHANGED worker /\ handoff' \subseteq handoff \cup {t}
  BY DEF Retry, IInv, TypeOK, LaunchOK, CommandsOK, launchVars
<1> QED BY <1>4, <1>5, CommandCombine DEF Retry, TableStep

(* The launch_claim of run_now and retry.                                  *)
LEMMA LaunchHandoffInv ==
  ASSUME IInv, NEW t \in Tasks, LaunchHandoff(t)
  PROVE  IInv' /\ TableStep
<1>1. Claimed(t)
  BY DEF LaunchHandoff, IInv, HoldersOK
<1>2. claim[t].rev \in Nat
  BY <1>1 DEF IInv, RowsOK
<1>3. /\ LaunchOK'
      /\ \A w \in Workers : worker'[w].pc # "idle" => worker[w].pc # "idle" \/ w[1] = t
  BY <1>2, LaunchStep DEF LaunchHandoff, Origins, IInv, TypeOK
<1>4. CommandsOK' /\ handoff' \subseteq handoff
  BY DEF LaunchHandoff, IInv, TypeOK, CommandsOK
<1> QED BY <1>1, <1>3, <1>4, TablesFrame, CommandCombine
        DEF LaunchHandoff, TableStep, taskVars

(* The token cancel_task cancels.                                          *)
LEMMA CancelTaskInv ==
  ASSUME IInv, NEW t \in Tasks, CancelTask(t)
  PROVE  IInv' /\ TableStep
<1>1. launches[t] # "none" => <<t, launches[t]>> \in Workers
  BY DEF IInv, TypeOK, LaunchOK, Workers
<1>2. LaunchOK' /\ NoNewWorker
  BY <1>1, CancelledType DEF CancelTask, IInv, TypeOK, LaunchOK, NoNewWorker
<1>3. CommandsOK' /\ UNCHANGED handoff
  BY DEF CancelTask, IInv, TypeOK, CommandsOK
<1> QED BY <1>2, <1>3, TablesFrame, CommandCombine
        DEF CancelTask, TableStep, NoNewWorker, taskVars

(* The transition of cancel_task.                                          *)
LEMMA CommitCancelInv ==
  ASSUME IInv, NEW t \in Tasks, CommitCancel(t)
  PROVE  IInv' /\ TableStep
<1>1. Accepts(t, "cancelled") => Claimed(t)
  BY DEF Accepts, CanTransition, Claimed, Active
<1>2. TablesOK' /\ RowsMove
  BY <1>1, TransitionOrStay, TablesFrame
     DEF CommitCancel, TaskStatuses, Terminal, scheduleVars, taskVars
<1>3. LaunchOK' /\ CommandsOK' /\ UNCHANGED <<worker, handoff>>
  BY DEF CommitCancel, IInv, TypeOK, LaunchOK, CommandsOK, launchVars
<1> QED BY <1>2, <1>3, CommandCombine DEF CommitCancel, TableStep
-----------------------------------------------------------------------------
(* The timer.                                                              *)

(* What is left to show of a step of the timer.                            *)
LEMMA TimerCombine ==
  ASSUME IInv, UNCHANGED <<sweepVars, commandVars>>,
         TablesOK', TableStep, UNCHANGED run, ControlOK', TimerOK', LaunchOK',
         PositionsOK',
         job'.task \in {job.task, NoTask} \/ Claimed(job.task)',
         \A w \in Workers : worker'[w].pc # "idle"
                              => worker[w].pc # "idle" \/ Claimed(w[1])
  PROVE  IInv' /\ TableStep
<1>1. SweepOK' /\ CommandsOK'
  BY DEF IInv, TypeOK, SweepOK, CommandsOK, sweepVars, commandVars
<1>2. UNCHANGED <<handoff, listed, item>>
  BY DEF sweepVars, commandVars
<1> QED BY <1>1, <1>2, Combine

(* An error of a pass.                                                     *)
LEMMA AbandonPassStep ==
  ASSUME IInv, AbandonPass, UNCHANGED sweepVars, UNCHANGED envVars \/ EnvOK'
  PROVE  ControlOK' /\ TimerOK' /\ PositionsOK' /\ job'.task = NoTask
<1>1. ControlOK'
  <2>1. attempts' \in 0..MaxRetries
    BY SchedulerAssumption DEF AbandonPass, Abandon, IInv, TypeOK, ControlOK
  <2>2. phase' \in Phases /\ accepting' \in BOOLEAN
    BY DEF AbandonPass, Abandon, IInv, TypeOK, ControlOK, Phases
  <2> QED BY <2>1, <2>2 DEF IInv, TypeOK, ControlOK, envVars, EnvOK
<1>2. TimerOK' /\ job'.task = NoTask
  BY DEF AbandonPass, TimerOK, TimerPcs, NoJob
<1>3. PositionsOK'
  BY DEF AbandonPass, Abandon, IInv, PositionsOK, sweepVars
<1> QED BY <1>1, <1>2, <1>3

(* The timer moves on without an error.                                    *)
LEMMA TimerMoves ==
  ASSUME IInv, UNCHANGED <<controlVars, sweepVars, envVars>>,
         TimerOK',
         timerPc' \in {"stop", "claim", "advance", "launch"} => job' \in Jobs,
         timerPc' = "launch" => job'.task \in Tasks
  PROVE  ControlOK' /\ PositionsOK'
  BY DEF IInv, TypeOK, ControlOK, PositionsOK, controlVars, sweepVars, envVars

(* The listing of a pass.                                                  *)
LEMMA TriggerDueInv ==
  ASSUME IInv, TriggerDue
  PROVE  IInv' /\ TableStep
<1>1. due' \subseteq DueItems
  BY DEF TriggerDue, IInv, TypeOK, TablesOK, DueItems
<1>2. TimerOK' /\ timerPc' = "pass" /\ UNCHANGED job
  BY <1>1 DEF TriggerDue, IInv, TypeOK, TimerOK, ControlOK, TimerPcs
<1>3. LaunchOK' /\ UNCHANGED <<worker, run>>
  BY DEF TriggerDue, IInv, TypeOK, LaunchOK, launchVars, taskVars
<1> QED BY <1>2, <1>3, TablesFrame, TimerMoves, TimerCombine DEF TriggerDue, TableStep

(* The stop conditions of a listed Schedule.                               *)
LEMMA ExamineDueInv ==
  ASSUME IInv, NEW d \in due, ExamineDue(d)
  PROVE  IInv' /\ TableStep
<1>1. d \in DueItems /\ d \in Jobs /\ d.task = NoTask
  BY DEF IInv, TypeOK, TimerOK, DueItems, Jobs
<1>2. TimerOK' /\ timerPc' \in {"stop", "claim"} /\ job' = d
  BY <1>1 DEF ExamineDue, IInv, TypeOK, TimerOK, TimerPcs
<1>3. LaunchOK' /\ UNCHANGED <<worker, run>>
  BY DEF ExamineDue, IInv, TypeOK, LaunchOK, launchVars, taskVars
<1> QED BY <1>1, <1>2, <1>3, TablesFrame, TimerMoves, TimerCombine
        DEF ExamineDue, TableStep

(* The job of a pass that is past its examination.                         *)
LEMMA JobType ==
  ASSUME IInv, timerPc \in {"stop", "claim", "advance", "launch"}
  PROVE  /\ job \in Jobs
         /\ job.sched \in Schedules
         /\ job.rev \in Nat
         /\ job.at \in Nat
         /\ job.task \in Tasks \cup {NoTask}
  BY DEF IInv, PositionsOK, Jobs

(* The pass goes on with its next Schedule.                                *)
LEMMA ContinuePassStep ==
  ASSUME IInv, ContinuePass
  PROVE  TimerOK' /\ timerPc' = "pass" /\ job'.task = NoTask
  BY DEF ContinuePass, IInv, TypeOK, TimerOK, TimerPcs, NoJob

(* The disabling of a Schedule at its end.                                 *)
LEMMA StopDueInv ==
  ASSUME IInv, StopDue
  PROVE  IInv' /\ TableStep
<1>1. job.sched \in Schedules
  BY JobType DEF StopDue
<1>2. TablesOK' /\ RowsMove
  BY <1>1, DisableStep, TablesFrame DEF StopDue, scheduleVars
<1>3. ControlOK' /\ TimerOK' /\ PositionsOK' /\ job'.task = NoTask
  BY AbandonPassStep, ContinuePassStep, TimerMoves DEF StopDue
<1>4. LaunchOK' /\ UNCHANGED <<worker, run>>
  BY DEF StopDue, IInv, TypeOK, LaunchOK, launchVars, taskVars
<1> QED BY <1>2, <1>3, <1>4, TimerCombine DEF StopDue, TableStep

(* The claim of an occurrence: an existing row, a conflict, or a new row.  *)
LEMMA ClaimDueInv ==
  ASSUME IInv, ClaimDue
  PROVE  IInv' /\ TableStep
<1> DEFINE s == job.sched
           k == OccurrenceKey(s, job.at)
<1>1. /\ job \in Jobs /\ s \in Schedules /\ job.rev \in Nat
      /\ k \in Keys /\ WantedStatus \in {"queued", "skipped"}
  BY JobType DEF ClaimDue, OccurrenceKey, Keys, WantedStatus
<1>2. LaunchOK' /\ UNCHANGED <<sched, worker, sweepVars, commandVars, envVars>>
  BY DEF ClaimDue, IInv, TypeOK, LaunchOK, launchVars
<1>3. CASE KeyClaimed(k) /\ timerPc' = "advance"
           /\ UNCHANGED <<active, taskVars, controlVars, passNow, due, job>>
  <2>1. TablesOK' /\ RowsMove
    BY <1>2, <1>3, TablesFrame DEF scheduleVars
  <2>2. TimerOK'
    BY <1>3 DEF IInv, TypeOK, TimerOK, TimerPcs
  <2>3. ControlOK' /\ PositionsOK'
    BY <1>1, <1>2, <1>3, <2>2, TimerMoves
  <2> QED BY <1>2, <1>3, <2>1, <2>2, <2>3, TimerCombine DEF TableStep, taskVars
<1>4. CASE AbandonPass /\ UNCHANGED <<active, taskVars>>
  <2>1. TablesOK' /\ RowsMove
    BY <1>2, <1>4, TablesFrame DEF scheduleVars
  <2>2. ControlOK' /\ TimerOK' /\ PositionsOK' /\ job'.task = NoTask
    BY <1>2, <1>4, AbandonPassStep
  <2> QED BY <1>2, <1>4, <2>1, <2>2, TimerCombine DEF TableStep, taskVars
<1>5. ASSUME NEW t \in Tasks,
             ClaimInvocation(s, t, job.rev, k, WantedStatus),
             job' = [job EXCEPT !.task = IF Launches(s, WantedStatus) THEN t ELSE NoTask],
             timerPc' = "advance", UNCHANGED <<controlVars, passNow, due>>
      PROVE  IInv' /\ TableStep
  <2> HIDE DEF s, k
  <2>1. TablesOK' /\ RowAdded /\ Claimed(t)' /\ UNCHANGED run
    BY <1>1, <1>2, <1>5, ClaimStep DEF ClaimDue, s
  <2>2. job' \in Jobs /\ job'.task \in {t, NoTask}
    <3>1. job.task \in Tasks \cup {NoTask}
      BY <1>1 DEF Jobs
    <3> QED BY <3>1, <1>1, <1>5 DEF Jobs
  <2>3. TimerOK'
    BY <1>5, <2>2 DEF IInv, TypeOK, TimerOK, TimerPcs
  <2>4. ControlOK' /\ PositionsOK'
    BY <1>2, <1>5, <2>2, <2>3, TimerMoves
  <2>5. job'.task \in {job.task, NoTask} \/ Claimed(job.task)'
    BY <2>1, <2>2
  <2> QED BY <1>2, <2>1, <2>3, <2>4, <2>5, TimerCombine DEF TableStep
<1> QED BY <1>3, <1>4, <1>5 DEF ClaimDue

(* The next occurrence, or the disabling of an "at" Schedule.              *)
LEMMA AdvanceDueInv ==
  ASSUME IInv, AdvanceDue
  PROVE  IInv' /\ TableStep
<1> DEFINE s == job.sched
           pc == IF job.task = NoTask THEN "pass" ELSE "launch"
           kept == IF job.task = NoTask THEN NoJob ELSE job
<1>1. job \in Jobs /\ s \in Schedules /\ job.task \in Tasks \cup {NoTask}
  BY JobType DEF AdvanceDue
<1>2. /\ LaunchOK'
      /\ UNCHANGED <<active, taskVars, run, worker, sweepVars, commandVars, envVars>>
  BY DEF AdvanceDue, IInv, TypeOK, LaunchOK, launchVars, taskVars
<1>3. ASSUME job' = kept, timerPc' = pc, UNCHANGED <<controlVars, passNow, due>>
      PROVE  ControlOK' /\ TimerOK' /\ PositionsOK' /\ job'.task = job.task
  <2>1. TimerOK' /\ job'.task = job.task
    BY <1>1, <1>3 DEF IInv, TypeOK, TimerOK, TimerPcs, NoJob
  <2> QED BY <1>1, <1>2, <1>3, <2>1, TimerMoves
<1>4. CASE DisableSchedule(s) /\ job' = kept /\ timerPc' = pc
           /\ UNCHANGED <<controlVars, passNow, due>>
  <2>1. TablesOK' /\ RowsMove
    BY <1>1, <1>2, <1>4, DisableStep
  <2> QED BY <1>2, <1>3, <1>4, <2>1, TimerCombine DEF TableStep
<1>5. CASE /\ sched' = [sched EXCEPT ![s].next = NextWithinEnd(s, passNow)]
           /\ job' = kept /\ timerPc' = pc
           /\ UNCHANGED <<controlVars, passNow, due>>
  <2> DEFINE Row == [state: {"absent", "live", "removed"}, enabled: BOOLEAN,
                     rev: Nat, authority: Nat, next: Nat]
             row == [sched[s] EXCEPT !.next = NextWithinEnd(s, passNow)]
  <2>1. sched[s] \in Row
    BY <1>1 DEF IInv, TypeOK, TablesOK
  <2>2. NextWithinEnd(s, passNow) \in Nat
    BY <1>1, NextType DEF IInv, TypeOK, TimerOK
  <2>3. /\ row \in Row /\ row.state = sched[s].state
        /\ row.rev = sched[s].rev /\ row.enabled = sched[s].enabled
    BY <2>1, <2>2
  <2>4. sched' = [sched EXCEPT ![s] = row]
    BY <1>1, <1>5 DEF IInv, TypeOK, TablesOK
  <2> HIDE DEF row
  <2>5. TablesOK' /\ RowsMove
    BY <1>1, <1>2, <2>3, <2>4, ScheduleStep
  <2> QED BY <1>2, <1>3, <1>5, <2>5, TimerCombine DEF TableStep
<1>6. CASE AbandonPass /\ UNCHANGED sched
  <2>1. TablesOK' /\ RowsMove
    BY <1>2, <1>6, TablesFrame DEF scheduleVars
  <2>2. ControlOK' /\ TimerOK' /\ PositionsOK' /\ job'.task = NoTask
    BY <1>2, <1>6, AbandonPassStep
  <2> QED BY <1>2, <2>1, <2>2, TimerCombine DEF TableStep
<1> QED BY <1>4, <1>5, <1>6 DEF AdvanceDue

(* The launch of a claimed occurrence.                                     *)
LEMMA LaunchDueInv ==
  ASSUME IInv, LaunchDue
  PROVE  IInv' /\ TableStep
<1>1. job.task \in Tasks /\ Claimed(job.task) /\ job.rev \in Nat
  BY JobType DEF LaunchDue, IInv, PositionsOK, HoldersOK
<1>2. /\ LaunchOK'
      /\ \A w \in Workers : worker'[w].pc # "idle"
                              => worker[w].pc # "idle" \/ w[1] = job.task
  BY <1>1, LaunchStep DEF LaunchDue, Origins, IInv, TypeOK
<1>3. TimerOK' /\ timerPc' = "pass" /\ job'.task = NoTask
  BY ContinuePassStep DEF LaunchDue
<1>4. ControlOK' /\ PositionsOK' /\ UNCHANGED run
  BY <1>3, TimerMoves DEF LaunchDue, taskVars
<1> QED BY <1>1, <1>2, <1>3, <1>4, TablesFrame, TimerCombine DEF LaunchDue, TableStep

(* The end of a pass.                                                      *)
LEMMA EndPassInv ==
  ASSUME IInv, EndPass
  PROVE  IInv' /\ TableStep
<1>1. ControlOK'
  BY SchedulerAssumption DEF EndPass, IInv, TypeOK, ControlOK, envVars
<1>2. TimerOK' /\ job'.task = NoTask /\ PositionsOK'
  BY DEF EndPass, IInv, TypeOK, TimerOK, TimerPcs, NoJob, PositionsOK, sweepVars
<1>3. LaunchOK' /\ UNCHANGED <<worker, run>>
  BY DEF EndPass, IInv, TypeOK, LaunchOK, launchVars, taskVars
<1> QED BY <1>1, <1>2, <1>3, TablesFrame, TimerCombine DEF EndPass, TableStep
-----------------------------------------------------------------------------
(* The startup reconciliation.                                             *)

(* What is left to show of a step of the sweep.                            *)
LEMMA SweepCombine ==
  ASSUME IInv, UNCHANGED <<run, timerVars, commandVars>>,
         TablesOK', RowsMove, ControlOK', SweepOK', LaunchOK',
         phase' \in {"dispatch", "follow"} => item' \in Snapshots,
         \A x \in listed' : x \in listed \/ Claimed(x.id),
         item' \in {item, NoItem} \/ Claimed(item.id)',
         \A w \in Workers : worker'[w].pc # "idle"
                              => worker[w].pc # "idle" \/ Claimed(w[1])
  PROVE  IInv' /\ TableStep
<1>1. TimerOK' /\ CommandsOK' /\ PositionsOK' /\ UNCHANGED <<handoff, job>>
  BY DEF IInv, TypeOK, TimerOK, CommandsOK, PositionsOK, timerVars, commandVars
<1> QED BY <1>1, Combine DEF TableStep

(* An error of the sweep.                                                  *)
LEMMA AbandonSweepStep ==
  ASSUME IInv, AbandonSweep, UNCHANGED envVars \/ EnvOK'
  PROVE  /\ ControlOK' /\ SweepOK' /\ phase' \notin {"dispatch", "follow"}
         /\ listed' = {} /\ item' = NoItem
<1>1. attempts' \in 0..MaxRetries
  BY SchedulerAssumption DEF AbandonSweep, IInv, TypeOK, ControlOK
<1>2. /\ phase' \in Phases /\ accepting' \in BOOLEAN
      /\ phase' \notin {"dispatch", "follow"}
  BY DEF AbandonSweep, IInv, TypeOK, ControlOK, Phases
<1>3. ControlOK'
  BY <1>1, <1>2 DEF IInv, TypeOK, ControlOK, envVars, EnvOK
<1> QED BY <1>2, <1>3 DEF AbandonSweep, SweepOK

(* The control variables, when the sweep moves on without an error.        *)
LEMMA ControlMoves ==
  ASSUME IInv, UNCHANGED envVars \/ EnvOK', phase' \in Phases,
         accepting' \in BOOLEAN, attempts' \in {attempts, 0}
  PROVE  ControlOK'
  BY SchedulerAssumption DEF IInv, TypeOK, ControlOK, envVars, EnvOK

(* The listing of the reconciliation: rows that were claimed.              *)
LEMMA ListPendingInv ==
  ASSUME IInv, ListPending
  PROVE  IInv' /\ TableStep
<1>1. \A t \in Unfinished : /\ Claimed(t)
                            /\ [id |-> t, status |-> status[t], run |-> run[t],
                                linked |-> Linked(t)] \in Snapshots
  BY DEF Unfinished, Pending, Claimed, Active, IInv, TypeOK, TablesOK, Snapshots,
         Linked, Live
<1>2. listed' \subseteq Snapshots /\ \A x \in listed' : Claimed(x.id)
  BY <1>1 DEF ListPending
<1>3. SweepOK' /\ UNCHANGED item
  BY <1>2 DEF ListPending, IInv, TypeOK, SweepOK
<1>4. ControlOK' /\ phase' = "sweep"
  BY ControlMoves DEF ListPending, IInv, TypeOK, ControlOK, Phases, EnvOK
<1>5. LaunchOK' /\ UNCHANGED <<worker, run>>
  BY DEF ListPending, IInv, TypeOK, LaunchOK, launchVars, taskVars
<1> QED BY <1>2, <1>3, <1>4, <1>5, TablesFrame, SweepCombine DEF ListPending

(* A row that is being launched is skipped.                                *)
LEMMA SkipLaunchedInv ==
  ASSUME IInv, NEW x \in listed, SkipLaunched(x)
  PROVE  IInv' /\ TableStep
<1>1. SweepOK' /\ UNCHANGED item /\ listed' \subseteq listed
  BY DEF SkipLaunched, IInv, TypeOK, SweepOK
<1>2. ControlOK' /\ phase' = "sweep"
  BY ControlMoves DEF SkipLaunched, IInv, TypeOK, ControlOK, controlVars
<1>3. LaunchOK' /\ UNCHANGED <<worker, run>>
  BY DEF SkipLaunched, IInv, TypeOK, LaunchOK, launchVars, taskVars
<1> QED BY <1>1, <1>2, <1>3, TablesFrame, SweepCombine DEF SkipLaunched

(* A listed row.                                                           *)
LEMMA ListedType ==
  ASSUME IInv, NEW x \in listed
  PROVE  /\ x \in Snapshots /\ x.id \in Tasks /\ Claimed(x.id)
         /\ x.status \in Active /\ x.run \in RunStatuses
  BY DEF IInv, TypeOK, SweepOK, Snapshots, HoldersOK

(* A row that had not started is to be dispatched again.                   *)
LEMMA RequeueInv ==
  ASSUME IInv, NEW x \in listed, Requeue(x)
  PROVE  IInv' /\ TableStep
<1>1. x \in Snapshots /\ x.id \in Tasks /\ Claimed(x.id)
  BY ListedType
<1>2. /\ LaunchOK'
      /\ UNCHANGED <<sched, active, claim, run, worker, timerVars, commandVars, envVars>>
  BY DEF Requeue, IInv, TypeOK, LaunchOK, launchVars, scheduleVars
<1>3. CASE /\ item' = x /\ phase' = "dispatch" /\ listed' = listed \ {x}
           /\ UNCHANGED <<status, accepting, attempts>>
  <2>1. SweepOK' /\ Claimed(item.id)'
    BY <1>1, <1>3 DEF IInv, TypeOK, SweepOK, Claimed
  <2>2. ControlOK'
    BY <1>2, <1>3, ControlMoves DEF IInv, TypeOK, ControlOK, Phases
  <2>3. TablesOK' /\ RowsMove
    BY <1>2, <1>3, TablesFrame DEF scheduleVars, taskVars
  <2> QED BY <1>1, <1>2, <1>3, <2>1, <2>2, <2>3, SweepCombine
<1>4. CASE /\ status[x.id] = "preparing"
           /\ status' = [status EXCEPT ![x.id] = "queued"]
           /\ item' = [x EXCEPT !.status = "queued", !.linked = Linked(x.id)]
           /\ phase' = "dispatch" /\ listed' = listed \ {x}
           /\ UNCHANGED <<accepting, attempts>>
  <2>1. item' \in Snapshots /\ item'.id = x.id
    BY <1>1, <1>4 DEF Snapshots, Active, Linked, Live, Claimed
  <2>2. TablesOK' /\ RowsMove /\ status'[x.id] = "queued"
    BY <1>1, <1>2, <1>4 DEF IInv, TypeOK, TablesOK, RowsMove, TaskStatuses, Active
  <2>3. SweepOK' /\ Claimed(item.id)'
    BY <1>4, <2>1, <2>2 DEF IInv, TypeOK, SweepOK, Claimed
  <2>4. ControlOK'
    BY <1>2, <1>4, ControlMoves DEF IInv, TypeOK, ControlOK, Phases
  <2> QED BY <1>2, <1>4, <2>1, <2>2, <2>3, <2>4, SweepCombine
<1>5. CASE AbandonSweep /\ UNCHANGED status
  <2>1. TablesOK' /\ RowsMove
    BY <1>2, <1>5, TablesFrame DEF scheduleVars, taskVars
  <2> QED BY <1>2, <1>5, <2>1, AbandonSweepStep, SweepCombine
<1> QED BY <1>3, <1>4, <1>5 DEF Requeue

(* A row follows its Run, through running if need be.                      *)
LEMMA FollowRunInv ==
  ASSUME IInv, NEW x \in listed, FollowRun(x)
  PROVE  IInv' /\ TableStep
<1> DEFINE target == IF x.run = "none" THEN "needs_attention"
                     ELSE LinkedStatus(run[x.id])
           first  == IF x.status = "preparing" /\ target # "needs_attention"
                     THEN "running" ELSE target
<1>1. /\ x \in Snapshots /\ x.id \in Tasks /\ Claimed(x.id) /\ phase = "sweep"
      /\ item \in Snapshots \cup {NoItem} /\ run[x.id] \in RunStatuses
  BY ListedType DEF FollowRun, IInv, TypeOK, SweepOK, TablesOK
<1>2. first \in TaskStatuses
  BY DEF LinkedStatus, TaskStatuses, Active, Terminal
<1>3. /\ LaunchOK'
      /\ UNCHANGED <<sched, claim, run, worker, timerVars, commandVars, envVars>>
  BY DEF FollowRun, IInv, TypeOK, LaunchOK, launchVars
<1>4. CASE listed' = listed \ {x} /\ UNCHANGED <<status, active, controlVars, item>>
  <2>1. TablesOK' /\ RowsMove
    BY <1>3, <1>4, TablesFrame DEF scheduleVars, taskVars
  <2>2. SweepOK' /\ ControlOK' /\ phase' = "sweep"
    BY <1>1, <1>3, <1>4 DEF IInv, TypeOK, SweepOK, ControlOK, controlVars, envVars
  <2> QED BY <1>3, <1>4, <2>1, <2>2, SweepCombine
<1>5. CASE /\ Accepts(x.id, first)
           /\ Transition(x.id, first)
           /\ listed' = listed \ {x}
           /\ IF first = target
              THEN UNCHANGED <<controlVars, item>>
              ELSE /\ phase' = "follow"
                   /\ item' = [x EXCEPT !.run = run[x.id]]
                   /\ UNCHANGED <<accepting, attempts>>
  <2>1. TablesOK' /\ RowsMove
    <3> HIDE DEF first
    <3> QED BY <1>1, <1>2, <1>3, <1>5, TransitionOrStay
  <2>2. /\ [x EXCEPT !.run = run[x.id]] \in Snapshots
        /\ [x EXCEPT !.run = run[x.id]].id = x.id
    BY <1>1 DEF Snapshots
  <2>3. \/ item' = item /\ phase' = "sweep"
        \/ item' \in Snapshots /\ item'.id = x.id
    <3> HIDE DEF first, target
    <3>1. CASE first = target
      BY <1>1, <1>5, <3>1 DEF controlVars
    <3>2. CASE first # target
      BY <1>5, <2>2, <3>2
    <3> QED BY <3>1, <3>2
  <2>4. Claimed(x.id)'
    BY <1>1, <2>1 DEF RowsMove, Claimed, TaskStatuses, Active, Terminal
  <2>5. SweepOK' /\ (item' = item \/ Claimed(item.id)')
    BY <1>1, <1>5, <2>3, <2>4 DEF IInv, TypeOK, SweepOK, Claimed
  <2>6. ControlOK'
    BY <1>3, <1>5, ControlMoves DEF IInv, TypeOK, ControlOK, Phases, controlVars
  <2> QED BY <1>3, <1>5, <2>1, <2>3, <2>5, <2>6, SweepCombine
<1>6. CASE AbandonSweep /\ UNCHANGED <<status, active>>
  <2>1. TablesOK' /\ RowsMove
    BY <1>3, <1>6, TablesFrame DEF scheduleVars, taskVars
  <2> QED BY <1>3, <1>6, <2>1, AbandonSweepStep, SweepCombine
<1> QED BY <1>4, <1>5, <1>6 DEF FollowRun

(* The second transition of such a row.                                    *)
LEMMA FollowEndInv ==
  ASSUME IInv, FollowEnd
  PROVE  IInv' /\ TableStep
<1> DEFINE target == LinkedStatus(item.run)
<1>1. item \in Snapshots /\ item.id \in Tasks /\ Claimed(item.id)
  BY DEF FollowEnd, IInv, PositionsOK, HoldersOK, Snapshots
<1>2. target \in TaskStatuses
  BY DEF LinkedStatus, TaskStatuses, Active, Terminal
<1>3. /\ LaunchOK'
      /\ UNCHANGED <<sched, claim, run, worker, timerVars, commandVars, envVars>>
  BY DEF FollowEnd, IInv, TypeOK, LaunchOK, launchVars
<1>4. CASE /\ Accepts(item.id, target)
           /\ Transition(item.id, target)
           /\ phase' = "sweep" /\ item' = NoItem
           /\ UNCHANGED <<accepting, attempts, listed>>
  <2>1. TablesOK' /\ RowsMove
    <3> HIDE DEF target
    <3> QED BY <1>1, <1>2, <1>3, <1>4, TransitionOrStay
  <2>2. SweepOK' /\ ControlOK'
    BY <1>3, <1>4, ControlMoves DEF IInv, TypeOK, SweepOK, ControlOK, Phases
  <2> QED BY <1>3, <1>4, <2>1, <2>2, SweepCombine
<1>5. CASE AbandonSweep /\ UNCHANGED <<status, active>>
  <2>1. TablesOK' /\ RowsMove
    BY <1>3, <1>5, TablesFrame DEF scheduleVars, taskVars
  <2> QED BY <1>3, <1>5, <2>1, AbandonSweepStep, SweepCombine
<1> QED BY <1>4, <1>5 DEF FollowEnd

(* The dispatch of a queued row by the reconciliation.                     *)
LEMMA DispatchInv ==
  ASSUME IInv, Dispatch
  PROVE  IInv' /\ TableStep
<1> DEFINE t == item.id
<1>1. item \in Snapshots /\ t \in Tasks /\ Claimed(t)
  BY DEF Dispatch, IInv, PositionsOK, HoldersOK, Snapshots
<1>2. /\ SweepOK' /\ item' = NoItem /\ phase' = "sweep"
      /\ UNCHANGED <<claim, run, listed, accepting, attempts, timerVars, commandVars,
                     envVars>>
  BY DEF Dispatch, IInv, TypeOK, SweepOK
<1>3. ControlOK'
  BY <1>2, ControlMoves DEF IInv, TypeOK, ControlOK, Phases
<1>4. CASE UNCHANGED <<scheduleVars, status, launchVars>>
  <2>1. TablesOK' /\ RowsMove /\ LaunchOK' /\ UNCHANGED worker
    BY <1>2, <1>4, TablesFrame DEF IInv, TypeOK, LaunchOK, launchVars, taskVars
  <2> QED BY <1>2, <1>3, <2>1, SweepCombine
<1>5. CASE /\ IF Accepts(t, "needs_attention")
              THEN Transition(t, "needs_attention")
              ELSE UNCHANGED <<status, active>>
           /\ UNCHANGED <<sched, launchVars>>
  <2>1. TablesOK' /\ RowsMove
    BY <1>1, <1>2, <1>5, TransitionOrStay DEF TaskStatuses, Terminal
  <2>2. LaunchOK' /\ UNCHANGED worker
    BY <1>5 DEF IInv, TypeOK, LaunchOK, launchVars
  <2> QED BY <1>2, <1>3, <2>1, <2>2, SweepCombine
<1>6. CASE /\ LaunchClaim(t, "reconcile", sched[claim[t].owner].rev)
           /\ UNCHANGED <<scheduleVars, status>>
  <2>1. sched[claim[t].owner].rev \in Nat
    BY <1>1 DEF IInv, RowsOK, TypeOK, TablesOK
  <2>2. /\ LaunchOK'
        /\ \A w \in Workers : worker'[w].pc # "idle" => worker[w].pc # "idle" \/ w[1] = t
    <3> HIDE DEF t
    <3> QED BY <1>1, <1>6, <2>1, LaunchStep DEF Origins, IInv, TypeOK
  <2>3. TablesOK' /\ RowsMove
    BY <1>2, <1>6, TablesFrame DEF taskVars
  <2> QED BY <1>1, <1>2, <1>3, <2>2, <2>3, SweepCombine
<1> QED BY <1>4, <1>5, <1>6 DEF Dispatch

(* The start of the timer.                                                 *)
LEMMA StartInv ==
  ASSUME IInv, Start
  PROVE  IInv' /\ TableStep
<1>1. SweepOK' /\ UNCHANGED <<listed, item>>
  BY DEF Start, IInv, TypeOK, SweepOK, sweepVars
<1>2. ControlOK' /\ phase' = "running"
  BY ControlMoves DEF Start, Phases
<1>3. LaunchOK' /\ UNCHANGED <<worker, run>>
  BY DEF Start, IInv, TypeOK, LaunchOK, launchVars, taskVars
<1> QED BY <1>1, <1>2, <1>3, TablesFrame, SweepCombine DEF Start

(* Another attempt of the supervisor.                                      *)
LEMMA SupervisorRetryInv ==
  ASSUME IInv, SupervisorRetry
  PROVE  IInv' /\ TableStep
<1>1. SweepOK' /\ UNCHANGED <<listed, item>>
  BY DEF SupervisorRetry, IInv, TypeOK, SweepOK, sweepVars
<1>2. ControlOK' /\ phase' = "list"
  BY ControlMoves DEF SupervisorRetry, Phases, IInv, TypeOK, ControlOK
<1>3. LaunchOK' /\ UNCHANGED <<worker, run>>
  BY DEF SupervisorRetry, IInv, TypeOK, LaunchOK, launchVars, taskVars
<1> QED BY <1>1, <1>2, <1>3, TablesFrame, SweepCombine DEF SupervisorRetry
-----------------------------------------------------------------------------
(* Calls that fail.                                                        *)

(* What a failing call counts, and what its caller drops.                  *)
LEMMA FaultStep ==
  ASSUME IInv, Fault,
         dropped' = dropped \/ \E t \in Tasks : Drop(t)
  PROVE  EnvOK'
  BY DEF Fault, Drop, Unfinished, EnvOK, IInv, TypeOK, ControlOK

(* A failing call of a pass.                                               *)
LEMMA TimerFailsInv ==
  ASSUME IInv, TimerFails
  PROVE  IInv' /\ TableStep
<1>1. EnvOK'
  BY FaultStep DEF TimerFails
<1>2. ControlOK' /\ TimerOK' /\ PositionsOK' /\ job'.task = NoTask
  BY <1>1, AbandonPassStep DEF TimerFails
<1>3. LaunchOK' /\ UNCHANGED <<worker, run>>
  BY DEF TimerFails, IInv, TypeOK, LaunchOK, launchVars, taskVars
<1> QED BY <1>2, <1>3, TablesFrame, TimerCombine DEF TimerFails, TableStep

(* A failing call of the reconciliation.                                   *)
LEMMA SweepFailsInv ==
  ASSUME IInv, SweepFails
  PROVE  IInv' /\ TableStep
<1>1. EnvOK'
  BY FaultStep DEF SweepFails
<1>2. /\ ControlOK' /\ SweepOK' /\ phase' \notin {"dispatch", "follow"}
      /\ listed' \subseteq listed /\ item' = NoItem
  <2>1. CASE AbandonSweep
    BY <1>1, <2>1, AbandonSweepStep
  <2>2. CASE phase' = "sweep" /\ item' = NoItem /\ UNCHANGED <<accepting, attempts, listed>>
    BY <1>1, <2>2, ControlMoves DEF IInv, TypeOK, ControlOK, SweepOK, Phases
  <2> QED BY <2>1, <2>2 DEF SweepFails
<1>3. LaunchOK' /\ UNCHANGED <<worker, run, timerVars, commandVars>>
  BY DEF SweepFails, IInv, TypeOK, LaunchOK, launchVars, taskVars
<1> QED BY <1>2, <1>3, TablesFrame, SweepCombine DEF SweepFails

(* A failing call of a worker.                                             *)
LEMMA WorkerFailsInv ==
  ASSUME IInv, NEW w \in Workers, WorkerFails(w)
  PROVE  IInv' /\ TableStep
<1>1. worker[w].pc # "idle" /\ w[1] \in Tasks
  BY DEF WorkerFails, Workers
<1>2. EnvOK'
  BY <1>1, FaultStep DEF WorkerFails
<1>3. LaunchOK' /\ NoNewWorker
  <2>1. "failed" \in TaskStatuses
    BY DEF TaskStatuses, Terminal
  <2> QED BY <1>1, <2>1, LeaveStep, CompleteStep DEF WorkerFails, IInv, TypeOK
<1>4. run = run' \/ RunEnding(w)
  BY DEF WorkerFails, RunEnding
<1>5. run' \in [Tasks -> RunStatuses] /\ \A t \in Tasks : run'[t] = run[t] \/ Claimed(t)
  BY <1>4, RunWritten DEF IInv, TypeOK, TablesOK
<1>6. TablesOK' /\ RowsMove
  BY <1>5 DEF WorkerFails, IInv, TypeOK, TablesOK, RowsMove, scheduleVars
<1> QED BY <1>2, <1>3, <1>5, <1>6, WorkerCombine DEF WorkerFails

(* A failing call of a command.                                            *)
LEMMA CommandFailsInv ==
  ASSUME IInv, CommandFails
  PROVE  IInv' /\ TableStep
<1>1. EnvOK'
  BY FaultStep DEF CommandFails
<1>2. LaunchOK' /\ CommandsOK' /\ UNCHANGED <<worker, run, handoff>>
  BY DEF CommandFails, IInv, TypeOK, LaunchOK, CommandsOK, launchVars, taskVars
<1> QED BY <1>1, <1>2, TablesFrame, CommandCombine DEF CommandFails, TableStep
-----------------------------------------------------------------------------
(* The process and the clock.                                              *)

(* A restart: running rows are lost, and nobody holds a row.               *)
LEMMA RestartInv ==
  ASSUME IInv, Restart
  PROVE  IInv' /\ TableStep
<1>1. /\ status' \in [Tasks -> TaskStatuses \cup {"absent"}]
      /\ \A t \in Tasks : status'[t] # status[t]
           => status[t] \in Active /\ status'[t] \in TaskStatuses
  BY DEF Restart, IInv, TypeOK, TablesOK, TaskStatuses, Active, Terminal
<1>2. /\ run' \in [Tasks -> RunStatuses]
      /\ \A t \in Tasks : run'[t] = run[t] \/ Claimed(t)
  BY DEF Restart, IInv, TypeOK, TablesOK, RowsOK, RunStatuses
<1>3. TablesOK' /\ RowsMove
  BY <1>1, <1>2 DEF Restart, scheduleVars, IInv, TypeOK, TablesOK, RowsMove
<1>4. ControlOK'
  BY SchedulerAssumption DEF Restart, IInv, TypeOK, ControlOK, Phases
<1>5. TimerOK' /\ SweepOK' /\ CommandsOK' /\ PositionsOK' /\ job'.task = NoTask
  BY DEF Restart, TimerOK, TimerPcs, SweepOK, CommandsOK, PositionsOK, NoJob
<1>6. LaunchOK' /\ \A w \in Workers : worker'[w].pc = "idle"
  BY IdleType DEF Restart, LaunchOK, IdleWorker
<1> QED BY <1>2, <1>3, <1>4, <1>5, <1>6, Combine DEF Restart, TableStep

(* The clock.                                                              *)
LEMMA TickInv ==
  ASSUME IInv, Tick
  PROVE  IInv' /\ TableStep
<1>1. ControlOK' /\ TimerOK' /\ SweepOK' /\ LaunchOK' /\ CommandsOK' /\ PositionsOK'
  BY DEF Tick, IInv, TypeOK, ControlOK, TimerOK, SweepOK, LaunchOK, CommandsOK,
         PositionsOK, controlVars, timerVars, sweepVars, launchVars, commandVars
<1>2. UNCHANGED <<run, handoff, listed, item, job, worker>>
  BY DEF Tick, taskVars, timerVars, sweepVars, launchVars, commandVars
<1> QED BY <1>1, <1>2, TablesFrame, Combine DEF Tick, TableStep

(* Nothing happens.                                                        *)
LEMMA StutterInv ==
  ASSUME IInv, UNCHANGED vars
  PROVE  IInv' /\ TableStep
<1>1. ControlOK' /\ TimerOK' /\ SweepOK' /\ LaunchOK' /\ CommandsOK' /\ PositionsOK'
  BY DEF vars, IInv, TypeOK, ControlOK, TimerOK, SweepOK, LaunchOK, CommandsOK,
         PositionsOK
<1>2. UNCHANGED <<run, handoff, listed, item, job, worker, scheduleVars, taskVars>>
  BY DEF vars, scheduleVars, taskVars
<1> QED BY <1>1, <1>2, TablesFrame, Combine DEF TableStep
-----------------------------------------------------------------------------

(* The initial states.                                                     *)
LEMMA InitInv == Init => IInv
<1> SUFFICES ASSUME Init PROVE IInv
  OBVIOUS
<1>1. TablesOK
  BY DEF Init, TablesOK, AbsentSchedule, RunStatuses
<1>2. ControlOK /\ TimerOK /\ SweepOK /\ CommandsOK /\ PositionsOK
  BY SchedulerAssumption
     DEF Init, ControlOK, Phases, TimerOK, TimerPcs, SweepOK, CommandsOK, PositionsOK
<1>3. LaunchOK
  BY IdleType DEF Init, LaunchOK
<1>4. RowsOK
  BY DEF Init, RowsOK, Claimed
<1>5. HoldersOK
  BY SchedulerAssumption
     DEF Init, HoldersOK, NoItem, NoJob, Snapshots, Active, IdleWorker
<1> QED BY <1>1, <1>2, <1>3, <1>4, <1>5 DEF IInv, TypeOK

(* Every step preserves IInv and is a TableStep.                           *)
LEMMA StepInv ==
  ASSUME IInv, [Next]_vars
  PROVE  IInv' /\ TableStep
<1>1. CASE Command
  BY <1>1, CreateInv, UpdateInv, SetEnabledInv, RemoveInv, RunNowInv, RetryInv,
     CancelTaskInv DEF Command
<1>2. CASE Finishing
  BY <1>2, LaunchHandoffInv, CommitCancelInv, CancelLaunchesInv, CancelRunsInv
     DEF Finishing
<1>3. CASE TimerStep
  BY <1>3, TriggerDueInv, ExamineDueInv, StopDueInv, ClaimDueInv, AdvanceDueInv,
     LaunchDueInv, EndPassInv DEF TimerStep
<1>4. CASE SweepStep
  BY <1>4, ListPendingInv, SkipLaunchedInv, RequeueInv, FollowRunInv, FollowEndInv,
     DispatchInv, StartInv DEF SweepStep
<1>5. CASE SupervisorRetry
  BY <1>5, SupervisorRetryInv
<1>6. CASE \E w \in Workers : WorkerStep(w)
  BY <1>6, WorkerInv
<1>7. CASE Restart \/ Tick
  BY <1>7, RestartInv, TickInv
<1>8. CASE UNCHANGED vars
  BY <1>8, StutterInv
<1>9. CASE Failing
  BY <1>9, TimerFailsInv, SweepFailsInv, WorkerFailsInv, CommandFailsInv DEF Failing
<1> QED BY <1>1, <1>2, <1>3, <1>4, <1>5, <1>6, <1>7, <1>8, <1>9 DEF Next, Idle

(* IInv holds in every reachable state.                                    *)
THEOREM Invariance == Spec => []IInv
<1>1. IInv /\ [Next]_vars => IInv'
  BY StepInv
<1> QED BY InitInv, <1>1, PTL DEF Spec

(* Every variable holds values the code can store, and no retry loop goes  *)
(* past the delays it has, for every choice of the constants.              *)
THEOREM TypeCorrect == Spec => []TypeOK
<1>1. IInv => TypeOK
  BY DEF IInv
<1> QED BY Invariance, <1>1, PTL
-----------------------------------------------------------------------------
(* The safety properties.                                                  *)

(* A status that is terminal is final: RowsMove moves other rows only, and *)
(* a claim takes a free identifier.                                        *)
THEOREM TerminalStaysTerminal == Spec => TerminalFinal
<1>1. ASSUME IInv, [Next]_vars
      PROVE  \A t \in Tasks : status[t] \in Terminal => status'[t] = status[t]
  <2>1. CASE RowsMove
    BY <2>1 DEF RowsMove, Active, Terminal
  <2>2. CASE RowAdded
    BY <2>2 DEF RowAdded, ClaimInvocation, Fresh, Terminal, IInv, TypeOK, TablesOK
  <2> QED BY <1>1, <2>1, <2>2, StepInv DEF TableStep
<1> QED BY <1>1, Invariance, PTL DEF Spec, TerminalFinal

(* An invocation key is claimed once, through stale listings, retries of a *)
(* pass and restarts.                                                      *)
THEOREM InvocationsUnique == Spec => []InvocationUnique
<1>1. Init => InvocationUnique
  BY DEF Init, InvocationUnique, Claimed
<1>2. ASSUME IInv, InvocationUnique, [Next]_vars
      PROVE  InvocationUnique'
  <2>1. CASE RowsMove
    BY <1>2, <2>1 DEF RowsMove, InvocationUnique, Claimed, Active
  <2>2. CASE RowAdded
    <3>1. PICK s \in Schedules, t \in Tasks, r \in Nat, k \in Keys,
               wanted \in {"queued", "skipped"} :
                 ClaimInvocation(s, t, r, k, wanted)
      BY <2>2 DEF RowAdded
    <3>2. /\ claim'[t].key = k
          /\ \A u \in Tasks \ {t} : claim'[u] = claim[u] /\ status'[u] = status[u]
      BY <3>1, <1>2 DEF ClaimInvocation, IInv, TypeOK, TablesOK
    <3>3. \A u \in Tasks : Claimed(u) => claim[u].key # k
      BY <3>1 DEF ClaimInvocation, KeyClaimed
    <3> QED BY <1>2, <3>2, <3>3 DEF InvocationUnique, Claimed
  <2> QED BY <1>2, <2>1, <2>2, StepInv DEF TableStep
<1> QED BY <1>1, <1>2, Invariance, PTL DEF Spec

(* Until an occurrence is skipped, the runtime state names every           *)
(* invocation of the Schedule that is not terminal.                        *)
THEOREM NoOverlap == Spec => []NoOverlapBeforeSkip
<1>1. Init => NoOverlapBeforeSkip
  BY DEF Init, NoOverlapBeforeSkip, Live, AbsentSchedule
<1>2. ASSUME IInv, NoOverlapBeforeSkip, [Next]_vars
      PROVE  NoOverlapBeforeSkip'
  <2> SUFFICES ASSUME NEW s \in Schedules, Live(s)',
                      \A t \in Tasks : claim'[t].owner = s => status'[t] # "skipped",
                      NEW t \in Tasks, claim'[t].owner = s, Pending(t)'
               PROVE  active'[s] = t
    BY DEF NoOverlapBeforeSkip
  <2>1. CASE RowsMove
    <3>1. claim[t].owner = s /\ Pending(t)
      BY <2>1 DEF RowsMove, Pending
    <3>2. Live(s)
      <4>1. Claimed(t)
        BY <3>1 DEF Pending, Claimed, Active
      <4>2. sched[s].state # "absent"
        BY <1>2, <3>1, <4>1 DEF IInv, RowsOK
      <4> QED BY <2>1, <4>2 DEF RowsMove, Live
    <3>3. \A u \in Tasks : claim[u].owner = s => status[u] # "skipped"
      BY <2>1 DEF RowsMove, Active
    <3>4. active[s] = t
      BY <1>2, <3>1, <3>2, <3>3 DEF NoOverlapBeforeSkip
    <3> QED BY <2>1, <3>4 DEF RowsMove, Live, Pending, Active, Terminal
  <2>2. CASE RowAdded
    <3>1. PICK r \in Schedules, u \in Tasks, n \in Nat, k \in Keys,
               wanted \in {"queued", "skipped"} :
                 ClaimInvocation(r, u, n, k, wanted) /\ sched' = sched
      BY <2>2 DEF RowAdded
    <3>2. /\ status[u] = "absent" /\ claim'[u].owner = r
          /\ status'[u] = IF Overlaps(r) THEN "skipped" ELSE wanted
          /\ active'[r] = IF Launches(r, wanted) THEN u ELSE NoTask
          /\ \A q \in Schedules \ {r} : active'[q] = active[q]
          /\ \A v \in Tasks \ {u} : claim'[v] = claim[v] /\ status'[v] = status[v]
      BY <1>2, <3>1 DEF ClaimInvocation, Fresh, IInv, TypeOK, TablesOK
    <3>3. claim[u].owner # s
      BY <1>2, <3>2, SchedulerAssumption DEF IInv, RowsOK, Claimed, NoClaim
    <3>4. \A v \in Tasks : claim[v].owner = s => status[v] # "skipped"
      BY <3>2, <3>3
    <3>5. \A v \in Tasks : claim[v].owner = s /\ Pending(v) => active[s] = v
      BY <1>2, <3>1, <3>4 DEF NoOverlapBeforeSkip, Live
    <3>6. CASE s # r
      <4>1. t # u
        BY <3>2, <3>6
      <4> QED BY <3>2, <3>5, <3>6, <4>1 DEF Pending
    <3>7. CASE s = r
      <4>1. ~Overlaps(s) /\ wanted = "queued"
        BY <3>2, <3>7 
      <4>2. t = u
        BY <3>2, <3>5, <4>1, SchedulerAssumption DEF Overlaps, Pending
      <4> QED BY <3>2, <3>7, <4>1, <4>2 DEF Launches
    <3> QED BY <3>6, <3>7
  <2> QED BY <1>2, <2>1, <2>2, StepInv DEF TableStep
<1> QED BY <1>1, <1>2, Invariance, PTL DEF Spec
-----------------------------------------------------------------------------
(* The pass of the timer and the definitions it listed.                    *)

(* A listed definition that is still current is enabled.                   *)
ListedEnabled(d) ==
  /\ sched[d.sched].state # "absent"
  /\ Live(d.sched)
       => /\ d.rev <= sched[d.sched].rev
          /\ d.rev = sched[d.sched].rev => sched[d.sched].enabled

PassOK == /\ \A d \in due : ListedEnabled(d)
          /\ timerPc \in {"stop", "claim"} => ListedEnabled(job)

(* ListedEnabled outlives every step: revisions only grow.                 *)
LEMMA ListedStays ==
  ASSUME IInv, IInv', TableStep,
         NEW d, d.sched \in Schedules, d.rev \in Nat, ListedEnabled(d)
  PROVE  ListedEnabled(d)'
<1>1. sched[d.sched].rev \in Nat /\ sched'[d.sched].rev \in Nat
  BY DEF IInv, TypeOK, TablesOK
<1>2. CASE RowsMove
  BY <1>1, <1>2 DEF RowsMove, ListedEnabled, Live
<1>3. CASE sched' = sched
  BY <1>3 DEF ListedEnabled, Live
<1> QED BY <1>2, <1>3 DEF TableStep, RowAdded

(* What a step does to the pass.                                           *)
LEMMA PassStep ==
  ASSUME IInv, [Next]_vars
  PROVE  \/ TriggerDue
         \/ /\ due' \subseteq due
            /\ timerPc' \in {"stop", "claim"}
                 => \/ job' \in due
                    \/ timerPc \in {"stop", "claim"} /\ job' = job
<1>1. CASE UNCHANGED timerVars
  BY <1>1 DEF timerVars
<1>2. CASE TimerStep
  BY <1>2 DEF TimerStep, ExamineDue, StopDue, ClaimDue, AdvanceDue, LaunchDue, EndPass,
              ContinuePass, AbandonPass
<1>3. CASE Restart
  BY <1>3 DEF Restart
<1>4. CASE UNCHANGED vars
  BY <1>4 DEF vars
<1>5. CASE Command
  <2>1. \A s \in Schedules : Remove(s) => UNCHANGED timerVars
    BY DEF Remove
  <2>2. \A s \in Schedules, e \in BOOLEAN :
          Create(s, e) \/ SetEnabled(s, e) => UNCHANGED timerVars
    BY DEF Create, SetEnabled
  <2>3. \A s \in Schedules, e, scopeChanged \in BOOLEAN :
          Update(s, e, scopeChanged) => UNCHANGED timerVars
    BY DEF Update
  <2>4. \A s \in Schedules, t \in Tasks : RunNow(s, t) => UNCHANGED timerVars
    BY DEF RunNow
  <2>5. \A p, t \in Tasks : Retry(p, t) \/ CancelTask(t) => UNCHANGED timerVars
    BY DEF Retry, CancelTask
  <2> QED BY <1>1, <1>5, <2>1, <2>2, <2>3, <2>4, <2>5 DEF Command
<1>6. CASE Finishing
  BY <1>1, <1>6 DEF Finishing, LaunchHandoff, CommitCancel, CancelLaunches, CancelRuns
<1>7. CASE SweepStep \/ SupervisorRetry \/ Tick
  BY <1>1, <1>7 DEF SweepStep, ListPending, SkipLaunched, Requeue, FollowRun,
      FollowEnd, Dispatch,
                    Start, SupervisorRetry, Tick
<1>8. ASSUME NEW w \in Workers, WorkerStep(w) PROVE UNCHANGED timerVars
  BY <1>8 DEF WorkerStep, Prepare, Validate, CreateRun, StartRun, DispatchRun,
              RegisterRun, BeginRun, FinishRun, Finish, ReadStopConditions, ApplyStop,
              WorkerUnchanged
<1>9. CASE Failing
  <2>1. TimerFails => due' = {} /\ timerPc' = "idle"
    BY DEF TimerFails, AbandonPass
  <2>2. \A w \in Workers : WorkerFails(w) => UNCHANGED timerVars
    BY DEF WorkerFails
  <2> QED BY <1>1, <1>9, <2>1, <2>2 DEF Failing, SweepFails, CommandFails
<1> QED BY <1>1, <1>2, <1>3, <1>4, <1>5, <1>6, <1>7, <1>8, <1>9 DEF Next, Idle

(* PassOK is an invariant.                                                 *)
LEMMA PassInvariance == Spec => []PassOK
<1>1. Init => PassOK
  BY DEF Init, PassOK
<1>2. ASSUME IInv, PassOK, [Next]_vars
      PROVE  PassOK'
  <2>1. IInv' /\ TableStep
    BY <1>2, StepInv
  <2>2. \A d \in due \cup {job} :
          d \in Jobs /\ ListedEnabled(d) => ListedEnabled(d)'
    BY <1>2, <2>1, ListedStays DEF Jobs
  <2>3. due \subseteq Jobs /\ (timerPc \in {"stop", "claim"} => job \in Jobs)
    BY <1>2 DEF IInv, TypeOK, TimerOK, DueItems, Jobs, PositionsOK
  <2>4. CASE TriggerDue
    <3>1. UNCHANGED sched /\ timerPc' = "pass"
      BY <2>4 DEF TriggerDue, scheduleVars
    <3>2. \A d \in due' : \E s \in Schedules : /\ Live(s) /\ sched[s].enabled
                                               /\ d.sched = s /\ d.rev = sched[s].rev
      BY <2>4 DEF TriggerDue
    <3>3. \A s \in Schedules : sched[s].rev \in Nat
      BY <1>2 DEF IInv, TypeOK, TablesOK
    <3> QED BY <3>1, <3>2, <3>3 DEF PassOK, ListedEnabled, Live
  <2>5. CASE /\ due' \subseteq due
             /\ timerPc' \in {"stop", "claim"}
                  => \/ job' \in due
                     \/ timerPc \in {"stop", "claim"} /\ job' = job
    <3>1. \A d \in due' : ListedEnabled(d)'
      BY <1>2, <2>2, <2>3, <2>5 DEF PassOK
    <3>2. ASSUME timerPc' \in {"stop", "claim"} PROVE ListedEnabled(job)'
      <4>1. PICK d \in due \cup {job} : job' = d /\ d \in Jobs /\ ListedEnabled(d)
        BY <1>2, <2>3, <2>5, <3>2 DEF PassOK
      <4> QED BY <2>2, <4>1 DEF ListedEnabled, Live
    <3> QED BY <3>1, <3>2 DEF PassOK
  <2> QED BY <1>2, <2>4, <2>5, PassStep
<1> QED BY <1>1, <1>2, Invariance, PTL DEF Spec

(* The timer claims no occurrence of a Schedule that was disabled or       *)
(* removed since the pass listed it.                                       *)
THEOREM OnlyWhileEnabled == Spec => ScheduledOnlyWhileEnabled
<1>1. ASSUME IInv, PassOK, [Next]_vars
      PROVE  \A t \in Tasks :
               status[t] = "absent" /\ status'[t] # "absent"
                 /\ claim'[t].key[1] = "schedule"
                 => Live(claim'[t].owner) /\ sched[claim'[t].owner].enabled
  <2>1. CASE RowsMove
    BY <2>1 DEF RowsMove, Active
  <2>2. CASE RowAdded
    <3>1. PICK s \in Schedules, t \in Tasks, r \in Nat, k \in Keys,
               wanted \in {"queued", "skipped"} :
            /\ ClaimInvocation(s, t, r, k, wanted)
            /\ k[1] = "schedule" => timerPc = "claim" /\ s = job.sched /\ r = job.rev
      BY <2>2 DEF RowAdded
    <3>2. /\ claim'[t].key = k /\ claim'[t].owner = s
          /\ \A u \in Tasks \ {t} : status'[u] = status[u]
          /\ AtRevision(s, r)
      BY <1>1, <3>1 DEF ClaimInvocation, IInv, TypeOK, TablesOK
    <3>3. k[1] = "schedule" => Live(s) /\ sched[s].enabled
      BY <1>1, <3>1, <3>2 DEF PassOK, ListedEnabled, AtRevision
    <3> QED BY <3>2, <3>3
  <2> QED BY <1>1, <2>1, <2>2, StepInv DEF TableStep
<1> QED BY <1>1, Invariance, PassInvariance, PTL DEF Spec, ScheduledOnlyWhileEnabled
-----------------------------------------------------------------------------
(* Executions.                                                             *)

(* The steps that write a Run.                                             *)
LEMMA RunStep ==
  ASSUME [Next]_vars
  PROVE  \/ UNCHANGED run
         \/ \E w \in Workers :
              CreateRun(w) \/ RegisterRun(w) \/ BeginRun(w) \/ FinishRun(w)
                \/ WorkerFails(w)
         \/ \E s \in Schedules : CancelRuns(s)
         \/ Restart
<1>1. Command => UNCHANGED run
  <2>1. \A s \in Schedules : Remove(s) => UNCHANGED run
    BY DEF Remove, taskVars
  <2>2. \A s \in Schedules, e \in BOOLEAN :
          Create(s, e) \/ SetEnabled(s, e) => UNCHANGED run
    BY DEF Create, SetEnabled, taskVars
  <2>3. \A s \in Schedules, e, scopeChanged \in BOOLEAN :
          Update(s, e, scopeChanged) => UNCHANGED run
    BY DEF Update, taskVars
  <2>4. \A s \in Schedules, t \in Tasks : RunNow(s, t) => UNCHANGED run
    BY DEF RunNow, ClaimInvocation
  <2>5. \A p, t \in Tasks : Retry(p, t) \/ CancelTask(t) => UNCHANGED run
    BY DEF Retry, CancelTask, ClaimInvocation, taskVars
  <2> QED BY <2>1, <2>2, <2>3, <2>4, <2>5 DEF Command
<1>2. \A t \in Tasks : LaunchHandoff(t) \/ CommitCancel(t) => UNCHANGED run
  BY DEF LaunchHandoff, CommitCancel, taskVars
<1>3. \A s \in Schedules : CancelLaunches(s) => UNCHANGED run
  BY DEF CancelLaunches, taskVars
<1>4. TimerStep => UNCHANGED run
  BY DEF TimerStep, TriggerDue, ExamineDue, StopDue, ClaimDue, ClaimInvocation,
         AdvanceDue, LaunchDue, EndPass, taskVars
<1>5. SweepStep \/ SupervisorRetry \/ Tick \/ UNCHANGED vars => UNCHANGED run
  BY DEF SweepStep, ListPending, SkipLaunched, Requeue, FollowRun, FollowEnd, Dispatch,
      Start,
         SupervisorRetry, Tick, taskVars, vars
<1>6. \A w \in Workers :
        \/ Prepare(w) \/ Validate(w) \/ StartRun(w) \/ DispatchRun(w) \/ Finish(w)
        \/ ReadStopConditions(w) \/ ApplyStop(w)
        => UNCHANGED run
  BY DEF Prepare, Validate, StartRun, DispatchRun, Finish, ReadStopConditions,
         ApplyStop, taskVars
<1>7. TimerFails \/ SweepFails \/ CommandFails => UNCHANGED run
  BY DEF TimerFails, SweepFails, CommandFails, taskVars
<1> QED BY <1>1, <1>2, <1>3, <1>4, <1>5, <1>6, <1>7
        DEF Next, Idle, Finishing, WorkerStep, Failing

NoNewHolder ==
  \A w \in Workers :
    /\ worker'[w].pc \in Holding => worker[w].pc \in Holding
    /\ worker'[w].pc = "executing" => worker[w].pc = "executing"

(* A worker that moves on elsewhere holds no Run.                          *)
LEMMA WorkerMovesOn ==
  ASSUME IInv, NEW w \in Workers,
         \/ Leave(w)
         \/ \E outcome : Complete(w, outcome)
         \/ \E pc \in WorkerPcs \ Holding : Goto(w, pc)
  PROVE  NoNewHolder
<1>1. worker \in [Workers -> WorkerStates] /\ worker[w] \in WorkerStates
  BY DEF IInv, TypeOK, LaunchOK
<1>2. CASE Leave(w)
  BY <1>1, <1>2 DEF Leave, NoNewHolder, IdleWorker, Holding
<1>3. ASSUME NEW outcome, Complete(w, outcome) PROVE NoNewHolder
  <2>1. [IdleWorker EXCEPT !.pc = "finishing", !.outcome = outcome, !.stop = now].pc
          = "finishing"
    BY DEF IdleWorker
  <2> QED BY <1>1, <1>3, <2>1 DEF Complete, NoNewHolder, Holding
<1>4. ASSUME NEW pc \in WorkerPcs \ Holding, Goto(w, pc) PROVE NoNewHolder
  <2>1. [worker[w] EXCEPT !.pc = pc].pc = pc
    BY <1>1 DEF WorkerStates
  <2> QED BY <1>1, <1>4, <2>1 DEF Goto, NoNewHolder, Holding
<1> QED BY <1>2, <1>3, <1>4

(* Only RegisterRun and BeginRun make a worker hold or execute its Run.    *)
LEMMA ExecutorStep ==
  ASSUME IInv, [Next]_vars
  PROVE  NoNewHolder \/ \E w \in Workers : RegisterRun(w) \/ BeginRun(w)
<1>1. CASE UNCHANGED worker
  BY <1>1 DEF NoNewHolder
<1>2. ASSUME NEW t, NEW o, NEW r, LaunchClaim(t, o, r) PROVE NoNewHolder
  BY <1>2 DEF LaunchClaim, NoNewHolder, IInv, TypeOK, LaunchOK, IdleWorker,
                      Holding
<1>3. ASSUME NEW w \in Workers,
             \/ Leave(w)
             \/ \E outcome : Complete(w, outcome)
             \/ \E pc \in WorkerPcs \ Holding : Goto(w, pc)
      PROVE  NoNewHolder
  BY <1>3, WorkerMovesOn
<1>4. Command => NoNewHolder
  <2>1. \A s \in Schedules : Remove(s) => UNCHANGED worker
    BY DEF Remove, launchVars
  <2>2. \A s \in Schedules, e \in BOOLEAN :
          Create(s, e) \/ SetEnabled(s, e) => UNCHANGED worker
    BY DEF Create, SetEnabled, launchVars
  <2>3. \A s \in Schedules, e, scopeChanged \in BOOLEAN :
          Update(s, e, scopeChanged) => UNCHANGED worker
    BY DEF Update, launchVars
  <2>4. \A s \in Schedules, t \in Tasks : RunNow(s, t) => UNCHANGED worker
    BY DEF RunNow, launchVars
  <2>5. \A p, t \in Tasks : Retry(p, t) => UNCHANGED worker
    BY DEF Retry, launchVars
  <2>6. ASSUME NEW t \in Tasks, CancelTask(t) PROVE NoNewHolder
    <3>1. launches[t] # "none" => <<t, launches[t]>> \in Workers
      BY DEF IInv, TypeOK, LaunchOK, Workers
    <3> QED BY <2>6, <3>1, CancelledType DEF CancelTask, NoNewHolder, IInv, TypeOK,
          LaunchOK
  <2> QED BY <2>1, <2>2, <2>3, <2>4, <2>5, <2>6 DEF Command, NoNewHolder
<1>5. Finishing => NoNewHolder
  <2>1. \A t \in Tasks : LaunchHandoff(t) => NoNewHolder
    BY <1>2 DEF LaunchHandoff
  <2>2. \A t \in Tasks : CommitCancel(t) => UNCHANGED worker
    BY DEF CommitCancel, launchVars
  <2>3. \A s \in Schedules : CancelLaunches(s) => NoNewHolder
    BY CancelledType DEF CancelLaunches, NoNewHolder, IInv, TypeOK
  <2>4. \A s \in Schedules : CancelRuns(s) => UNCHANGED worker
    BY DEF CancelRuns, launchVars
  <2> QED BY <2>1, <2>2, <2>3, <2>4 DEF Finishing, NoNewHolder
<1>6. TimerStep => NoNewHolder
  <2>1. LaunchDue => NoNewHolder
    BY <1>2 DEF LaunchDue
  <2> QED BY <2>1 DEF TimerStep, TriggerDue, ExamineDue, StopDue, ClaimDue, AdvanceDue,
                      EndPass, launchVars, NoNewHolder
<1>7. SweepStep \/ SupervisorRetry \/ Tick \/ UNCHANGED vars => NoNewHolder
  <2>1. Dispatch => NoNewHolder
    BY <1>2 DEF Dispatch, launchVars, NoNewHolder
  <2> QED BY <2>1 DEF SweepStep, ListPending, SkipLaunched, Requeue, FollowRun,
        FollowEnd, Start,
                      SupervisorRetry, Tick, launchVars, vars, NoNewHolder
<1>8. Restart => NoNewHolder
  BY DEF Restart, NoNewHolder, IdleWorker, Holding
<1>9. ASSUME NEW w \in Workers, WorkerStep(w), ~RegisterRun(w), ~BeginRun(w)
      PROVE  NoNewHolder
  <2>1. {"launching", "creating", "starting", "dispatching", "registering", "stopping"}
          \subseteq WorkerPcs \ Holding
    BY DEF WorkerPcs, Holding
  <2>2. CASE Prepare(w)
    BY <1>3, <2>1, <2>2 DEF Prepare
  <2>3. CASE Validate(w)
    BY <1>3, <2>1, <2>3 DEF Validate
  <2>4. CASE CreateRun(w)
    BY <1>3, <2>1, <2>4 DEF CreateRun
  <2>5. CASE StartRun(w)
    BY <1>3, <2>1, <2>5 DEF StartRun
  <2>6. CASE DispatchRun(w)
    BY <1>3, <2>1, <2>6 DEF DispatchRun
  <2>7. CASE FinishRun(w)
    BY <1>3, <2>7 DEF FinishRun
  <2>8. CASE Finish(w)
    BY <1>3, <2>1, <2>8 DEF Finish
  <2>9. CASE ReadStopConditions(w)
    BY <1>3, <2>9 DEF ReadStopConditions, NoNewHolder, IInv, TypeOK, LaunchOK,
                      WorkerStates, Holding
  <2>10. CASE ApplyStop(w)
    BY <1>3, <2>10 DEF ApplyStop
  <2> QED BY <1>9, <2>2, <2>3, <2>4, <2>5, <2>6, <2>7, <2>8, <2>9, <2>10 DEF WorkerStep
<1>10. Failing => NoNewHolder
  <2>1. \A w \in Workers : WorkerFails(w) => NoNewHolder
    BY <1>3 DEF WorkerFails
  <2> QED BY <2>1 DEF Failing, TimerFails, SweepFails, CommandFails, launchVars,
                      NoNewHolder
<1> QED BY <1>4, <1>5, <1>6, <1>7, <1>8, <1>9, <1>10 DEF Next, Idle

(* The steps that write a Run, as the ledger sees them.                    *)
LEMMA SpendStep ==
  ASSUME IInv, [Next]_vars
  PROVE  \/ SpentRuns' = SpentRuns
         \/ /\ UNCHANGED <<status, claim>>
            /\ SpentRuns \subseteq SpentRuns'
            /\ \A t \in SpentRuns' : Claimed(t)
<1>1. CASE UNCHANGED run
  BY <1>1 DEF SpentRuns
<1>2. ASSUME NEW w \in Workers, CreateRun(w) PROVE SpentRuns' = SpentRuns
  BY <1>2 DEF CreateRun, SpentRuns, IInv, TypeOK, TablesOK
<1>3. ASSUME NEW w \in Workers, RegisterRun(w) \/ BeginRun(w) \/ FinishRun(w)
      PROVE  /\ UNCHANGED <<status, claim>>
             /\ SpentRuns \subseteq SpentRuns'
             /\ \A t \in SpentRuns' : Claimed(t)
  BY <1>3, RunWritten, FinishRunEnds DEF RegisterRun, BeginRun, FinishRun
<1>4. ASSUME NEW w \in Workers, WorkerFails(w), ~UNCHANGED run
      PROVE  /\ UNCHANGED <<status, claim>>
             /\ SpentRuns \subseteq SpentRuns'
             /\ \A t \in SpentRuns' : Claimed(t)
  BY <1>4, RunWritten DEF WorkerFails, RunEnding
<1>5. ASSUME NEW s \in Schedules, CancelRuns(s)
      PROVE  /\ UNCHANGED <<status, claim>>
             /\ SpentRuns \subseteq SpentRuns'
             /\ \A t \in SpentRuns' : Claimed(t)
  BY <1>5 DEF CancelRuns, SpentRuns, IInv, RowsOK
<1>6. CASE Restart
  BY <1>6 DEF Restart, SpentRuns, IInv, TypeOK, TablesOK
<1> QED BY <1>1, <1>2, <1>3, <1>4, <1>5, <1>6, RunStep

(* A Run has one holder at most, although a TaskRun may have two workers,  *)
(* and no Run that executes shows as queued.                               *)
THEOREM SingleExecutor == Spec => []OneExecutor
<1>1. Init => OneExecutor
  BY DEF Init, OneExecutor, IdleWorker, Workers, Holding
<1>2. ASSUME IInv, OneExecutor, [Next]_vars
      PROVE  OneExecutor'
  <2>1. SpentRuns \subseteq SpentRuns'
    BY <1>2, SpendStep
  <2>2. CASE NoNewHolder
    BY <1>2, <2>1, <2>2 DEF OneExecutor, NoNewHolder, Workers, SpentRuns, Holding
  <2>3. ASSUME NEW w \in Workers, RegisterRun(w), ~Registered(w[1])
        PROVE  OneExecutor'
    <3>1. w = <<w[1], w[2]>> /\ w[1] \in Tasks /\ w[2] \in Origins
      BY DEF Workers
    <3>2. /\ worker'[w].pc = "registered"
          /\ \A v \in Workers \ {w} : worker'[v] = worker[v]
      BY <1>2, <2>3 DEF RegisterRun, Goto, IInv, TypeOK, LaunchOK, WorkerStates
    <3>3. \A o \in Origins : worker[<<w[1], o>>].pc \notin Holding
      BY <2>3 DEF Registered
    <3> QED BY <1>2, <2>1, <3>1, <3>2, <3>3
            DEF OneExecutor, Workers, SpentRuns, Holding
  <2>4. ASSUME NEW w \in Workers, BeginRun(w), Goto(w, "executing"),
               run' = [run EXCEPT ![w[1]] = "active"]
        PROVE  OneExecutor'
    <3>1. w = <<w[1], w[2]>> /\ w[1] \in Tasks /\ w[2] \in Origins
      BY DEF Workers
    <3>2. /\ worker[w].pc \in Holding
          /\ worker'[w].pc = "executing"
          /\ \A v \in Workers \ {w} : worker'[v] = worker[v]
      BY <1>2, <2>4 DEF BeginRun, Goto, IInv, TypeOK, LaunchOK, WorkerStates, Holding
    <3>3. run'[w[1]] = "active"
      BY <1>2, <2>4, <3>1 DEF IInv, TypeOK, TablesOK
    <3> QED BY <1>2, <2>1, <3>1, <3>2, <3>3
            DEF OneExecutor, Workers, SpentRuns, Holding
  <2>5. ASSUME NEW w \in Workers, \E outcome : Complete(w, outcome)
        PROVE  NoNewHolder
    BY <1>2, <2>5, WorkerMovesOn
  <2>6. ASSUME NEW w \in Workers, RegisterRun(w) \/ BeginRun(w) PROVE OneExecutor'
    BY <2>2, <2>3, <2>4, <2>5, <2>6 DEF RegisterRun, BeginRun
  <2> QED BY <1>2, <2>2, <2>6, ExecutorStep
<1> QED BY <1>1, <1>2, Invariance, PTL DEF Spec
-----------------------------------------------------------------------------
(* The refinement.                                                         *)

Settles == {t \in Tasks : Pending(t) /\ ~Pending(t)'}

(* The Scheduler implements the ledger of invocations: claims are Claim,   *)
(* terminal statuses Settle, executions and withdrawals Spend, and every   *)
(* other step leaves the ledger as it is.                                  *)
THEOREM Refinement == Spec => ImplementsLedger
<1> DEFINE keyBar   == [t \in Tasks |-> claim[t].key]
           stageBar == [t \in Tasks |-> StageOf(t)]
<1>1. Init => Ledger!LedgerInit
  BY DEF Init, Ledger!LedgerInit, StageOf
<1>2. ASSUME IInv, [Next]_vars
      PROVE  [Ledger!LedgerNext]_(Ledger!ledgerVars)
  <2>1. IInv' /\ TableStep
    BY <1>2, StepInv
  <2>2. CASE RowAdded
    <3>1. PICK s \in Schedules, t \in Tasks, r \in Nat, k \in Keys,
               wanted \in {"queued", "skipped"} :
                 ClaimInvocation(s, t, r, k, wanted)
      BY <2>2 DEF RowAdded
    <3>2. /\ status[t] = "absent" /\ status'[t] \in {"queued", "skipped"}
          /\ claim'[t].key = k
          /\ \A u \in Tasks \ {t} : claim'[u] = claim[u] /\ status'[u] = status[u]
          /\ UNCHANGED run
      BY <1>2, <3>1 DEF ClaimInvocation, Fresh, IInv, TypeOK, TablesOK
    <3>3. PICK to \in {"claimed", "settled"} : to = StageOf(t)'
      BY <3>2 DEF StageOf
    <3>4. stageBar[t] = "free" /\ stageBar' = [stageBar EXCEPT ![t] = to]
      BY <3>2, <3>3 DEF StageOf, Pending
    <3>5. keyBar' = [keyBar EXCEPT ![t] = keyBar'[t]] /\ keyBar'[t] = k
      BY <3>2
    <3>6. \A u \in Tasks : claim[u].key # k
      <4>1. k # NoClaim.key
        BY DEF Keys, NoClaim
      <4> QED BY <1>2, <3>1, <4>1 DEF ClaimInvocation, KeyClaimed, IInv, RowsOK
    <3>7. Ledger!Claim(t, to)
      BY <3>2, <3>4, <3>5, <3>6 DEF Ledger!Claim
    <3> QED BY <3>7 DEF Ledger!LedgerNext
  <2>3. CASE RowsMove
    <3>1. keyBar' = keyBar
      BY <2>3 DEF RowsMove
    <3>2. CASE SpentRuns' = SpentRuns
      <4>1. stageBar' = [t \in Tasks |-> IF t \in Settles THEN "settled" ELSE stageBar[t]]
        BY <2>3 DEF RowsMove, Settles, StageOf, Pending, Active, TaskStatuses, Terminal
      <4>2. \A t \in Settles : stageBar[t] = "claimed"
        BY DEF Settles, StageOf, Pending, Active
      <4>3. Ledger!Settle(Settles)
        BY <3>1, <3>2, <4>1, <4>2 DEF Ledger!Settle, SpentRuns
      <4> QED BY <4>3 DEF Ledger!LedgerNext, Settles
    <3>3. CASE /\ UNCHANGED <<status, claim>>
               /\ SpentRuns \subseteq SpentRuns'
               /\ \A t \in SpentRuns' : Claimed(t)
      <4>1. PICK es \in SUBSET Tasks : es = SpentRuns' \ SpentRuns
        BY DEF SpentRuns
      <4>2. stageBar' = stageBar /\ SpentRuns' = SpentRuns \cup es
        BY <3>3, <4>1 DEF StageOf, Pending
      <4>3. \A t \in es : stageBar[t] # "free" /\ t \notin SpentRuns
        BY <3>3, <4>1 DEF StageOf, Claimed, SpentRuns
      <4>4. Ledger!Spend(es)
        BY <3>1, <4>2, <4>3 DEF Ledger!Spend, SpentRuns
      <4> QED BY <4>4 DEF Ledger!LedgerNext
    <3> QED BY <1>2, <3>2, <3>3, SpendStep
  <2> QED BY <2>1, <2>2, <2>3 DEF TableStep
<1> QED BY <1>1, <1>2, Invariance, PTL DEF Spec, ImplementsLedger, Ledger!LedgerSpec
=============================================================================
