------------------------- MODULE SchedulerSweepProofs -------------------------
(***************************************************************************)
(* Which claimed invocations are lost, for every number of Schedules,      *)
(* TaskRuns, edits, retries of the supervisor, crashes and failing calls:  *)
(* only the ones a failing call took from their holder.  Once the          *)
(* scheduler runs, any other row that has not started is held by a         *)
(* command, by the timer or by a worker.  The invariant says what holds    *)
(* before: while the startup reconciliation is under way such a row is     *)
(* held, or is still on its list, or is the one it is about to dispatch.   *)
(*                                                                         *)
(* Three things could break it, and the invariant says how far they go.  A *)
(* worker may end and leave its row waiting: of its own accord it does not *)
(* (WorkersOK), and a call that fails then puts the row into dropped,      *)
(* where the claim ends.  The reconciliation may pass over a row because   *)
(* its token is registered though nobody is behind it: a token has a       *)
(* worker, which holds the row (TokensOK).  And it may requeue a row under *)
(* a worker that still runs, whose token another worker took along as it   *)
(* ended: then it is about to dispatch that row itself.                    *)
(***************************************************************************)
EXTENDS SchedulerProofs

Waiting(t) == status[t] \in {"queued", "preparing"}

(* Who holds a waiting row: the command or the pass that claimed it, a     *)
(* worker that has yet to move it to preparing, and, as long as it is      *)
(* preparing, any worker of it.  A worker past its first step has lost a   *)
(* row that waits in the queue again.                                      *)
HoldsRow(w) ==
  \/ worker[w].pc = "spawned"
  \/ worker[w].pc # "idle" /\ status[w[1]] = "preparing"

Held(t) == \/ t \in handoff
           \/ job.task = t
           \/ \E o \in Origins : HoldsRow(<<t, o>>)

(* A worker that started its row, or settled it, meets no waiting row; one *)
(* that reports an outcome to a waiting row was refused before its Run     *)
(* started.                                                                *)
PastStart == {"dispatching", "registering", "registered", "executing",
              "stopping", "disabling"}

WorkerOK(w) ==
  /\ worker[w].pc \in PastStart => ~Waiting(w[1])
  /\ worker[w].pc = "finishing" /\ Waiting(w[1])
       => worker[w].outcome \in {"failed", "needs_attention"}

WorkersOK == \A w \in Workers : WorkerOK(w)

(* A registered token has a worker, which holds its row if the row waits.  *)
TokensOK ==
  \A t \in Tasks :
    LET w == <<t, launches[t]>> IN
    launches[t] # "none" => /\ worker[w].pc # "idle"
                            /\ status[t] = "queued" => worker[w].pc = "spawned"

(* The timer holds the row it claimed for the Schedule of its job.         *)
JobOK ==
  job.task \in Tasks => /\ timerPc \in {"advance", "launch"}
                        /\ claim[job.task].owner = job.sched

(* What the reconciliation read is outdated in one direction only: a row   *)
(* may have lost its Schedule since, and does not wait again once it ran.  *)
SnapOK(x) ==
  /\ Linked(x.id) => x.linked
  /\ x.status = "running" => ~Waiting(x.id)

SnapsOK ==
  /\ \A x \in listed : SnapOK(x)
  /\ item \in Snapshots => SnapOK(item)

(* The reconciliation has not passed the row yet.                          *)
Swept(t) ==
  \/ phase \in {"list", "suspended"}
  \/ phase \in {"sweep", "dispatch", "follow"} /\ \E x \in listed : x.id = t
  \/ phase = "dispatch" /\ item.id = t

Awaited(t) == Waiting(t) /\ Linked(t) /\ claim[t].owner \in Repeating

Kept(t) == Held(t) \/ t \in dropped

HeldOrSwept == \A t \in Tasks : Awaited(t) => Kept(t) \/ Swept(t)

SweepInv == WorkersOK /\ TokensOK /\ JobOK /\ SnapsOK /\ HeldOrSwept
-----------------------------------------------------------------------------
(* A step after which no claimed row waits that did not wait before.       *)
Onward ==
  \A t \in Tasks : Claimed(t) =>
    /\ Waiting(t)' => Waiting(t)
    /\ status'[t] = "queued" => status[t] = "queued"

(* A transition the table accepts leads onward.                            *)
LEMMA TransitionOnward ==
  ASSUME IInv, NEW t \in Tasks, NEW to \in TaskStatuses, Claimed(t),
         \/ Accepts(t, to) /\ Transition(t, to)
         \/ UNCHANGED status
  PROVE  Onward
<1>1. CASE Accepts(t, to) /\ Transition(t, to)
  <2>1. status[t] \in TaskStatuses /\ status'[t] = to
        /\ \A u \in Tasks \ {t} : status'[u] = status[u]
    BY <1>1 DEF IInv, TypeOK, TablesOK, Transition, Claimed
  <2>2. to = status[t] \/ (to \in Successors[status[t]] /\ status[t] \in Active)
    BY <1>1 DEF Accepts, CanTransition
  <2>3. /\ to # "queued" \/ status[t] = "queued"
        /\ to # "preparing" \/ status[t] \in {"queued", "preparing"}
    BY <2>2 DEF Successors, Active
  <2> QED BY <2>1, <2>3 DEF Onward, Waiting
<1>2. CASE UNCHANGED status
  BY <1>2 DEF Onward, Waiting
<1> QED BY <1>1, <1>2

(* So does a step that moves no row.                                       *)
LEMMA StatusFrame == UNCHANGED status => Onward
  BY DEF Onward, Waiting

(* A claimed row that is linked after a step was linked before it, with    *)
(* the same claim.                                                         *)
LEMMA LinkedBefore ==
  ASSUME IInv, TableStep, NEW t \in Tasks, Claimed(t)
  PROVE  /\ claim'[t] = claim[t]
         /\ Linked(t)' => Linked(t)
<1>1. claim[t].owner \in Schedules /\ sched[claim[t].owner].state # "absent"
  BY DEF IInv, RowsOK
<1>2. CASE RowsMove
  BY <1>1, <1>2 DEF RowsMove, Linked, Live
<1>3. CASE RowAdded
  BY <1>3 DEF RowAdded, ClaimInvocation, Fresh, Linked, Live, Claimed, IInv,
              TypeOK, TablesOK
<1> QED BY <1>2, <1>3 DEF TableStep

(* So does a row that is awaited after it.                                 *)
LEMMA AwaitedBefore ==
  ASSUME IInv, TableStep, Onward, NEW t \in Tasks, Claimed(t), Awaited(t)'
  PROVE  Awaited(t)
  BY LinkedBefore DEF Awaited, Onward, Repeating

(* What is left to show of a step.                                         *)
LEMMA Assemble ==
  ASSUME IInv, TableStep, Onward, SweepInv,
         WorkersOK', TokensOK', JobOK', SnapsOK',
         \A t \in Tasks : Awaited(t)' /\ Kept(t) => Kept(t)' \/ Swept(t)',
         \A t \in Tasks : Awaited(t)' /\ Swept(t) => Kept(t)' \/ Swept(t)',
         \A t \in Tasks : Awaited(t)' /\ ~Claimed(t) => Kept(t)'
  PROVE  SweepInv'
<1>1. HeldOrSwept'
  BY AwaitedBefore DEF HeldOrSwept, SweepInv
<1> QED BY <1>1 DEF SweepInv

(* What the reconciliation read stays right when rows move onward.         *)
LEMMA SnapsStay ==
  ASSUME IInv, TableStep, Onward, SnapsOK, listed' \subseteq listed,
         item' \in {item, NoItem} \cup listed
  PROVE  SnapsOK'
<1>1. ASSUME NEW x \in Snapshots, Claimed(x.id), SnapOK(x) PROVE SnapOK(x)'
  <2>1. x.id \in Tasks
    BY DEF Snapshots
  <2> QED BY <1>1, <2>1, LinkedBefore DEF SnapOK, Onward
<1>2. \A x \in listed : x \in Snapshots /\ Claimed(x.id) /\ SnapOK(x)
  BY ListedType DEF SnapsOK
<1>3. item \in Snapshots => Claimed(item.id) /\ SnapOK(item)
  BY DEF IInv, HoldersOK, SnapsOK
<1>4. NoItem \notin Snapshots
  BY DEF NoItem, Snapshots, Active
<1>5. \A x \in listed' : SnapOK(x)'
  BY <1>1, <1>2
<1>6. item' \in Snapshots => SnapOK(item)'
  BY <1>1, <1>2, <1>3, <1>4 DEF SnapOK
<1> QED BY <1>5, <1>6 DEF SnapsOK

(* So does what the timer holds.                                           *)
LEMMA JobStay ==
  ASSUME IInv, TableStep, JobOK, UNCHANGED <<timerPc, job>>
  PROVE  JobOK'
<1>1. job.task \in Tasks => Claimed(job.task)
  BY DEF IInv, HoldersOK
<1> QED BY <1>1, LinkedBefore DEF JobOK

(* What is left to show of a step that is not one of the reconciliation.   *)
LEMMA Outside ==
  ASSUME IInv, TableStep, Onward, SweepInv, UNCHANGED sweepVars,
         phase' \in {phase, "suspended"},
         WorkersOK', TokensOK', JobOK',
         \A t \in Tasks : Awaited(t)' /\ Kept(t) => Kept(t)',
         \A t \in Tasks : Awaited(t)' /\ ~Claimed(t) => Kept(t)'
  PROVE  SweepInv'
<1>1. SnapsOK'
  BY SnapsStay DEF SweepInv, sweepVars
<1>2. \A t \in Tasks : Swept(t) => Swept(t)'
  BY DEF Swept, sweepVars
<1> QED BY <1>1, <1>2, Assemble

(* Tokens keep their workers when no worker moves.                         *)
LEMMA TokensStay ==
  ASSUME IInv, TokensOK, Onward, UNCHANGED launches,
         \A w \in Workers : worker'[w].pc = worker[w].pc
  PROVE  TokensOK'
<1> SUFFICES ASSUME NEW t \in Tasks, launches[t] # "none"
             PROVE  /\ worker'[<<t, launches[t]>>].pc # "idle"
                    /\ status'[t] = "queued" => worker'[<<t, launches[t]>>].pc = "spawned"
  BY DEF TokensOK
<1>1. launches[t] \in Origins /\ <<t, launches[t]>> \in Workers
  BY DEF IInv, TypeOK, LaunchOK, Workers
<1>2. Claimed(t)
  BY <1>1 DEF TokensOK, IInv, HoldersOK
<1> QED BY <1>1, <1>2 DEF TokensOK, Onward

(* A row keeps its holders when no worker moves and it waits on.           *)
LEMMA HeldStays ==
  ASSUME IInv, Onward, NEW t \in Tasks, Waiting(t)',
         \A o \in Origins : worker'[<<t, o>>].pc = worker[<<t, o>>].pc,
         t \in handoff => t \in handoff',
         job.task = t => job'.task = t \/ t \in dropped',
         dropped \subseteq dropped', Kept(t)
  PROVE  Kept(t)'
<1>1. \A o \in Origins : HoldsRow(<<t, o>>) => HoldsRow(<<t, o>>)'
  <2> SUFFICES ASSUME NEW o \in Origins, HoldsRow(<<t, o>>)
               PROVE  HoldsRow(<<t, o>>)'
    OBVIOUS
  <2>1. <<t, o>> \in Workers /\ Claimed(t)
    BY DEF HoldsRow, Workers, IInv, HoldersOK
  <2> QED BY <2>1 DEF HoldsRow, Onward, Waiting
<1> QED BY <1>1 DEF Kept, Held

(* A worker that stays where it is keeps what is said of it.               *)
LEMMA WorkerStays ==
  ASSUME IInv, Onward, NEW w \in Workers, WorkerOK(w),
         worker'[w].pc = worker[w].pc, worker'[w].outcome = worker[w].outcome
  PROVE  WorkerOK(w)'
<1>1. CASE worker[w].pc = "idle"
  BY <1>1 DEF WorkerOK, PastStart
<1>2. CASE worker[w].pc # "idle"
  <2>1. w[1] \in Tasks /\ Claimed(w[1])
    BY <1>2, WorkersTask
  <2> QED BY <2>1, <1>2 DEF WorkerOK, Onward
<1> QED BY <1>1, <1>2

(* A launch registers the token of the worker it spawns.                   *)
LEMMA WorkersLaunch ==
  ASSUME IInv, WorkersOK, TokensOK, UNCHANGED status,
         NEW t \in Tasks, NEW o \in Origins, NEW r, LaunchClaim(t, o, r)
  PROVE  /\ WorkersOK' /\ TokensOK'
         /\ <<t, o>> \in Workers /\ worker[<<t, o>>].pc = "idle"
         /\ worker'[<<t, o>>].pc = "spawned"
         /\ \A w \in Workers \ {<<t, o>>} : worker'[w] = worker[w]
<1>1. /\ <<t, o>> \in Workers /\ worker[<<t, o>>].pc = "idle"
      /\ worker'[<<t, o>>].pc = "spawned"
      /\ \A w \in Workers \ {<<t, o>>} : worker'[w] = worker[w]
      /\ launches' = [launches EXCEPT ![t] = o]
      /\ o # "none"
  <2>1. [IdleWorker EXCEPT !.pc = "spawned", !.rev = r].pc = "spawned"
    BY DEF IdleWorker
  <2> QED BY <2>1 DEF LaunchClaim, Workers, IInv, TypeOK, LaunchOK, Origins
<1>2. WorkersOK'
  BY <1>1 DEF WorkersOK, WorkerOK, PastStart, Waiting
<1>3. TokensOK'
  <2> SUFFICES ASSUME NEW u \in Tasks, launches'[u] # "none"
               PROVE  /\ worker'[<<u, launches'[u]>>].pc # "idle"
                      /\ status'[u] = "queued" => worker'[<<u, launches'[u]>>].pc = "spawned"
    BY DEF TokensOK
  <2>1. CASE u = t
    BY <1>1, <2>1 DEF IInv, TypeOK, LaunchOK
  <2>2. CASE u # t
    <3>1. /\ launches'[u] = launches[u]
          /\ \A p \in Origins : <<u, p>> \in Workers \ {<<t, o>>}
      BY <1>1, <2>2 DEF IInv, TypeOK, LaunchOK, Workers
    <3>2. launches[u] \in Origins
      BY <3>1 DEF IInv, TypeOK, LaunchOK
    <3> QED BY <1>1, <3>1, <3>2 DEF TokensOK
  <2> QED BY <2>1, <2>2
<1> QED BY <1>1, <1>2, <1>3

(* It takes the row from nobody who holds another one.                     *)
LEMMA LaunchHolds ==
  ASSUME IInv, WorkersOK, TokensOK, UNCHANGED status,
         NEW t \in Tasks, NEW o \in Origins, NEW r, LaunchClaim(t, o, r)
  PROVE  /\ WorkersOK' /\ TokensOK' /\ Kept(t)'
         /\ \A u \in Tasks, p \in Origins : HoldsRow(<<u, p>>) => HoldsRow(<<u, p>>)'
<1>1. /\ WorkersOK' /\ TokensOK' /\ worker'[<<t, o>>].pc = "spawned"
      /\ \A w \in Workers \ {<<t, o>>} : worker'[w] = worker[w]
  BY WorkersLaunch
<1>2. \A u \in Tasks, p \in Origins : <<u, p>> \in Workers
  BY DEF Workers
<1> QED BY <1>1, <1>2 DEF Kept, Held, HoldsRow
-----------------------------------------------------------------------------
(* The steps of workers.                                                   *)

(* A worker moves on.                                                      *)
LEMMA GotoAt ==
  ASSUME IInv, NEW w \in Workers, NEW pc, Goto(w, pc)
  PROVE  worker'[w].pc = pc /\ \A v \in Workers \ {w} : worker'[v] = worker[v]
  BY DEF Goto, IInv, TypeOK, LaunchOK, WorkerStates

(* The launcher returned.                                                  *)
LEMMA CompleteAt ==
  ASSUME IInv, NEW w \in Workers, NEW outcome, Complete(w, outcome)
  PROVE  /\ worker'[w].pc = "finishing" /\ worker'[w].outcome = outcome
         /\ \A v \in Workers \ {w} : worker'[v] = worker[v]
<1> DEFINE done == [IdleWorker EXCEPT !.pc = "finishing", !.outcome = outcome,
                                      !.stop = now]
<1>1. done.pc = "finishing" /\ done.outcome = outcome
  BY DEF IdleWorker
<1>2. worker' = [worker EXCEPT ![w] = done]
  BY DEF Complete
<1> HIDE DEF done
<1> QED BY <1>1, <1>2 DEF IInv, TypeOK, LaunchOK

(* A transition moves one row, or none.                                    *)
LEMMA TransitionAt ==
  ASSUME IInv, NEW t \in Tasks, NEW to, Transition(t, to)
  PROVE  status'[t] = to /\ \A u \in Tasks \ {t} : status'[u] = status[u]
  BY DEF IInv, TypeOK, TablesOK, Transition

(* What is left to show of a step of a worker: it goes on and holds its    *)
(* row if that still waits, unless it did not hold it before; or it ends,  *)
(* and its row does not wait, or is dropped, or was not held by it.        *)
Released(w) ==
  \/ ~Waiting(w[1])'
  \/ w[1] \in dropped'
  \/ status'[w[1]] = "queued" /\ worker[w].pc # "spawned"

LEMMA WorkerMoves ==
  ASSUME IInv, SweepInv, TableStep, Onward,
         UNCHANGED <<controlVars, timerVars, sweepVars, commandVars>>,
         dropped \subseteq dropped',
         NEW w \in Workers, worker[w].pc # "idle",
         \A t \in Tasks \ {w[1]} : status'[t] = status[t],
         \/ /\ UNCHANGED launches
            /\ \A v \in Workers \ {w} : worker'[v] = worker[v]
            /\ worker'[w].pc \notin {"idle", "spawned"} /\ WorkerOK(w)'
            /\ status'[w[1]] = "queued" => worker[w].pc # "spawned"
         \/ Leave(w) /\ Released(w)
  PROVE  SweepInv'
<1>1. w[1] \in Tasks /\ w[2] \in Origins /\ w = <<w[1], w[2]>> /\ Claimed(w[1])
  BY WorkersTask
<1>2. /\ UNCHANGED <<phase, timerPc, job, sweepVars, handoff>>
      /\ WorkersOK /\ TokensOK /\ JobOK
  BY DEF controlVars, timerVars, commandVars, SweepInv
<1>3. JobOK'
  BY <1>2, JobStay
<1>4. \A t \in Tasks : Awaited(t)' => Claimed(t) /\ Waiting(t)'
  BY <1>1 DEF Awaited, Waiting, Claimed
<1>5. /\ \A v \in Workers \ {w} : worker'[v] = worker[v]
      /\ WorkerOK(w)'
  <2>1. CASE Leave(w)
    <3>1. worker'[w].pc = "idle" /\ \A v \in Workers \ {w} : worker'[v] = worker[v]
      BY <2>1 DEF Leave, IInv, TypeOK, LaunchOK, IdleWorker
    <3> QED BY <3>1 DEF WorkerOK, PastStart
  <2> QED BY <2>1
<1>6. WorkersOK'
  BY <1>2, <1>5, WorkerStays DEF WorkersOK
<1>7. \A t \in Tasks, o \in Origins :
        /\ <<t, o>> \in Workers
        /\ t # w[1] \/ o # w[2] => worker'[<<t, o>>] = worker[<<t, o>>]
  BY <1>1, <1>5 DEF Workers
<1>8. TokensOK'
  <2> SUFFICES ASSUME NEW t \in Tasks, launches'[t] # "none"
               PROVE  /\ worker'[<<t, launches'[t]>>].pc # "idle"
                      /\ status'[t] = "queued"
                           => worker'[<<t, launches'[t]>>].pc = "spawned"
    BY DEF TokensOK
  <2>1. launches'[t] = launches[t]
    BY DEF Leave, IInv, TypeOK, LaunchOK
  <2>2. launches[t] \in Origins
    BY <2>1 DEF IInv, TypeOK, LaunchOK
  <2>3. Leave(w) => t # w[1]
    BY <1>1 DEF Leave, IInv, TypeOK, LaunchOK
  <2>4. /\ worker[<<t, launches[t]>>].pc # "idle"
        /\ status[t] = "queued" => worker[<<t, launches[t]>>].pc = "spawned"
    BY <1>2, <2>1 DEF TokensOK
  <2>5. status'[t] = "queued" => status[t] = "queued"
    BY <1>7, <2>2, <2>4 DEF Onward, IInv, HoldersOK
  <2>6. CASE t # w[1] \/ launches[t] # w[2]
    BY <1>7, <2>1, <2>2, <2>4, <2>5, <2>6
  <2>7. CASE t = w[1] /\ launches[t] = w[2]
    <3>1. w = <<t, launches[t]>>
      BY <1>1, <2>7
    <3> QED BY <2>1, <2>3, <2>4, <2>5, <2>7, <3>1
  <2> QED BY <2>6, <2>7
<1>9. ASSUME NEW t \in Tasks, Awaited(t)', Kept(t) PROVE Kept(t)'
  <2>1. CASE t # w[1]
    <3>1. \A o \in Origins : worker'[<<t, o>>].pc = worker[<<t, o>>].pc
      BY <1>7, <2>1
    <3> QED BY <1>2, <1>4, <1>9, <3>1, HeldStays
  <2>2. CASE t = w[1] /\ ~Leave(w)
    <3>1. \A o \in Origins : o # w[2] => (HoldsRow(<<t, o>>) => HoldsRow(<<t, o>>)')
      BY <1>4, <1>7, <1>9, <2>2 DEF HoldsRow, Onward, Waiting
    <3>2. HoldsRow(w) => HoldsRow(w)'
      BY <1>1, <1>4, <1>9, <2>2 DEF HoldsRow, Onward, Waiting
    <3> QED BY <1>1, <1>2, <1>9, <2>2, <3>1, <3>2 DEF Kept, Held
  <2>3. CASE t = w[1] /\ Leave(w)
    <3>1. CASE t \in dropped'
      BY <3>1 DEF Kept
    <3>2. CASE status'[t] = "queued" /\ worker[w].pc # "spawned"
      <4>1. status[t] = "queued"
        BY <1>4, <1>9, <3>2 DEF Onward
      <4>2. ~HoldsRow(w)
        BY <2>3, <3>2, <4>1 DEF HoldsRow
      <4>3. \A o \in Origins : o # w[2] => (HoldsRow(<<t, o>>) => HoldsRow(<<t, o>>)')
        BY <1>7, <3>2, <4>1 DEF HoldsRow
      <4> QED BY <1>1, <1>2, <1>9, <2>3, <4>2, <4>3 DEF Kept, Held
    <3>3. worker'[w].pc = "idle"
      BY <2>3 DEF Leave, IInv, TypeOK, LaunchOK, IdleWorker
    <3> QED BY <1>4, <1>9, <2>3, <3>1, <3>2, <3>3 DEF Released
  <2> QED BY <2>1, <2>2, <2>3
<1> QED BY <1>2, <1>3, <1>4, <1>6, <1>8, <1>9, Outside

(* What a step of a worker that does not fail leaves alone.                *)
LEMMA WorkerFrame ==
  WorkerUnchanged => /\ UNCHANGED <<controlVars, timerVars, sweepVars, commandVars>>
                     /\ dropped \subseteq dropped'
  BY DEF WorkerUnchanged, envVars

(* The move to preparing, which a waiting row accepts.                     *)
LEMMA PrepareSweep ==
  ASSUME IInv, SweepInv, NEW w \in Workers, Prepare(w)
  PROVE  SweepInv'
<1>1. /\ w[1] \in Tasks /\ Claimed(w[1]) /\ worker[w].pc = "spawned"
      /\ TableStep /\ WorkerUnchanged
  BY WorkersTask, PrepareInv DEF Prepare
<1>2. CASE Accepts(w[1], "preparing") /\ Transition(w[1], "preparing")
           /\ Goto(w, "launching") /\ UNCHANGED launches
  <2>1. Onward
    BY <1>1, <1>2, TransitionOnward DEF TaskStatuses, Active
  <2>2. WorkerOK(w)' /\ status'[w[1]] = "preparing"
    BY <1>1, <1>2, GotoAt, TransitionAt DEF WorkerOK, PastStart
  <2> QED BY <1>1, <1>2, <2>1, <2>2, GotoAt, TransitionAt, WorkerFrame, WorkerMoves
<1>3. CASE ~Accepts(w[1], "preparing") /\ Leave(w) /\ UNCHANGED status
  <2>1. ~Waiting(w[1])
    BY <1>3 DEF Accepts, CanTransition, Successors, Active, Waiting
  <2>2. Onward /\ Released(w)
    BY <1>3, <2>1, StatusFrame DEF Waiting, Released
  <2> QED BY <1>1, <1>3, <2>2, WorkerFrame, WorkerMoves
<1> QED BY <1>2, <1>3 DEF Prepare

(* A step of a worker that moves no row.                                   *)
LEMMA WorkerHoldsRow ==
  ASSUME IInv, SweepInv, TableStep,
         UNCHANGED <<controlVars, timerVars, sweepVars, commandVars, status, launches>>,
         dropped \subseteq dropped',
         NEW w \in Workers, worker[w].pc \notin {"idle", "spawned"},
         \/ \E pc \in WorkerPcs \ {"idle", "spawned", "finishing"} :
              Goto(w, pc) /\ (pc \in PastStart => worker[w].pc \in PastStart)
         \/ \E outcome : /\ Complete(w, outcome)
                         /\ \/ outcome \in {"failed", "needs_attention"}
                            \/ worker[w].pc \in PastStart
  PROVE  SweepInv'
<1>1. worker[w].pc \in PastStart => ~Waiting(w[1])
  BY DEF SweepInv, WorkersOK, WorkerOK
<1>2. ASSUME NEW pc \in WorkerPcs \ {"idle", "spawned", "finishing"}, Goto(w, pc),
             pc \in PastStart => worker[w].pc \in PastStart
      PROVE  SweepInv'
  <2>1. WorkerOK(w)'
    BY <1>1, <1>2, GotoAt DEF WorkerOK, Waiting
  <2> QED BY <1>2, <2>1, GotoAt, StatusFrame, WorkerMoves
<1>3. ASSUME NEW outcome, Complete(w, outcome),
             outcome \in {"failed", "needs_attention"} \/ worker[w].pc \in PastStart
      PROVE  SweepInv'
  <2>1. WorkerOK(w)'
    BY <1>1, <1>3, CompleteAt DEF WorkerOK, PastStart, Waiting
  <2> QED BY <1>3, <2>1, CompleteAt, StatusFrame, WorkerMoves
<1> QED BY <1>2, <1>3

(* The checks, the creation, and what follows the start of the Run.        *)
LEMMA LaunchSweep ==
  ASSUME IInv, SweepInv, NEW w \in Workers,
         \/ Validate(w) \/ CreateRun(w) \/ DispatchRun(w)
         \/ RegisterRun(w) \/ BeginRun(w) \/ FinishRun(w)
  PROVE  SweepInv'
<1>1. /\ TableStep /\ dropped \subseteq dropped'
      /\ UNCHANGED <<controlVars, timerVars, sweepVars, commandVars, status, launches>>
  BY ValidateInv, CreateRunInv, DispatchRunInv, ExecutionInv, WorkerFrame
     DEF Validate, CreateRun, DispatchRun, RegisterRun, BeginRun, FinishRun, taskVars
<1>2. LaunchFailures \subseteq {"failed", "needs_attention"}
  BY SchedulerAssumption
<1>3. {"creating", "starting", "registering", "registered", "executing"}
        \subseteq WorkerPcs \ {"idle", "spawned", "finishing"}
  BY DEF WorkerPcs
<1>4. CASE Validate(w)
  BY <1>1, <1>2, <1>3, <1>4, WorkerHoldsRow DEF Validate, PastStart
<1>5. CASE CreateRun(w)
  BY <1>1, <1>2, <1>3, <1>5, WorkerHoldsRow DEF CreateRun, PastStart
<1>6. CASE DispatchRun(w)
  BY <1>1, <1>3, <1>6, WorkerHoldsRow DEF DispatchRun, PastStart
<1>7. CASE RegisterRun(w) \/ BeginRun(w) \/ FinishRun(w)
  <2>1. worker[w].pc \in {"registering", "registered", "executing"}
    BY <1>7 DEF RegisterRun, BeginRun, FinishRun
  <2>2. \/ \E outcome : Complete(w, outcome)
        \/ \E pc \in {"registered", "executing"} : Goto(w, pc)
    BY <1>7 DEF RegisterRun, BeginRun, FinishRun
  <2> QED BY <1>1, <1>3, <2>1, <2>2, WorkerHoldsRow DEF PastStart
<1> QED BY <1>4, <1>5, <1>6, <1>7

(* The move to running.                                                    *)
LEMMA StartRunSweep ==
  ASSUME IInv, SweepInv, NEW w \in Workers, StartRun(w)
  PROVE  SweepInv'
<1>1. /\ w[1] \in Tasks /\ Claimed(w[1]) /\ worker[w].pc = "starting"
      /\ TableStep /\ WorkerUnchanged /\ UNCHANGED launches
  BY WorkersTask, StartRunInv DEF StartRun
<1>2. CASE Accepts(w[1], "running") /\ Transition(w[1], "running")
           /\ Goto(w, "dispatching")
  <2>1. Onward
    BY <1>1, <1>2, TransitionOnward DEF TaskStatuses, Active
  <2>2. WorkerOK(w)'
    BY <1>1, <1>2, GotoAt, TransitionAt DEF WorkerOK, PastStart, Waiting
  <2> QED BY <1>1, <1>2, <2>1, <2>2, GotoAt, TransitionAt, WorkerFrame, WorkerMoves
<1>3. CASE Complete(w, "failed") /\ UNCHANGED status
  BY <1>1, <1>3, WorkerFrame, WorkerHoldsRow
<1> QED BY <1>2, <1>3 DEF StartRun

(* The transition to the outcome.  A row that is still preparing accepts   *)
(* the outcomes of a launch that was refused; one that is queued again may *)
(* not, but the worker does not hold it any more.                          *)
LEMMA FinishSweep ==
  ASSUME IInv, SweepInv, NEW w \in Workers, Finish(w)
  PROVE  SweepInv'
<1> DEFINE outcome == worker[w].outcome
<1>1. /\ w[1] \in Tasks /\ Claimed(w[1]) /\ worker[w].pc = "finishing"
      /\ TableStep /\ WorkerUnchanged
  BY WorkersTask, FinishInv DEF Finish
<1>2. /\ Waiting(w[1]) => outcome \in {"failed", "needs_attention"}
      /\ status[w[1]] \in TaskStatuses
  BY <1>1 DEF SweepInv, WorkersOK, WorkerOK, Waiting, IInv, TypeOK, TablesOK, Claimed
<1>3. CASE Accepts(w[1], outcome) /\ Transition(w[1], outcome)
           /\ Goto(w, "stopping") /\ UNCHANGED launches
  <2>1. outcome \in TaskStatuses /\ outcome \notin {"queued", "preparing"}
    BY <1>2, <1>3 DEF Accepts, CanTransition, Successors, Waiting, TaskStatuses, Active,
                      Terminal
  <2> HIDE DEF outcome
  <2>2. Onward
    BY <1>1, <1>3, <2>1, TransitionOnward
  <2>3. WorkerOK(w)'
    BY <1>1, <1>3, <2>1, GotoAt, TransitionAt DEF WorkerOK, Waiting
  <2> QED BY <1>1, <1>3, <2>2, <2>3, GotoAt, TransitionAt, WorkerFrame, WorkerMoves
<1>4. CASE ~Accepts(w[1], outcome) /\ Leave(w) /\ UNCHANGED status
  <2>1. status[w[1]] # "preparing"
    BY <1>2, <1>4 DEF Accepts, CanTransition, Successors, Active, Waiting
  <2>2. Onward /\ Released(w)
    BY <1>1, <1>4, <2>1, StatusFrame DEF Waiting, Released
  <2> QED BY <1>1, <1>4, <2>2, WorkerFrame, WorkerMoves
<1> QED BY <1>3, <1>4 DEF Finish

(* apply_stop_conditions, after the row is terminal.                       *)
LEMMA StopSweep ==
  ASSUME IInv, SweepInv, NEW w \in Workers, ReadStopConditions(w) \/ ApplyStop(w)
  PROVE  SweepInv'
<1>1. /\ worker[w].pc \in {"stopping", "disabling"}
      /\ TableStep /\ WorkerUnchanged /\ UNCHANGED status
  BY ReadStopConditionsInv, ApplyStopInv DEF ReadStopConditions, ApplyStop, taskVars
<1>2. ~Waiting(w[1]) /\ ~Waiting(w[1])' /\ Onward
  BY <1>1, StatusFrame DEF SweepInv, WorkersOK, WorkerOK, PastStart, Waiting
<1>3. CASE Leave(w)
  BY <1>1, <1>2, <1>3, WorkerFrame, WorkerMoves DEF Released
<1>4. ASSUME NEW r, worker' = [worker EXCEPT ![w].pc = "disabling", ![w].stop = r],
             UNCHANGED launches
      PROVE  SweepInv'
  <2>1. /\ worker'[w].pc = "disabling"
        /\ \A v \in Workers \ {w} : worker'[v] = worker[v]
    BY <1>4 DEF IInv, TypeOK, LaunchOK, WorkerStates
  <2>2. WorkerOK(w)'
    BY <1>2, <2>1 DEF WorkerOK, Waiting
  <2> QED BY <1>1, <1>2, <1>4, <2>1, <2>2, WorkerFrame, WorkerMoves
<1> QED BY <1>3, <1>4 DEF ReadStopConditions, ApplyStop

(* Every step of a worker.                                                 *)
LEMMA WorkerSweep ==
  ASSUME IInv, SweepInv, NEW w \in Workers, WorkerStep(w)
  PROVE  SweepInv'
  BY PrepareSweep, LaunchSweep, StartRunSweep, FinishSweep, StopSweep DEF WorkerStep

(* A failing call of a worker: it drops its row, or reports a failed       *)
(* launch.                                                                 *)
LEMMA WorkerFailsSweep ==
  ASSUME IInv, SweepInv, NEW w \in Workers, WorkerFails(w)
  PROVE  SweepInv'
<1>1. /\ TableStep /\ dropped \subseteq dropped'
      /\ UNCHANGED <<controlVars, timerVars, sweepVars, commandVars, status>>
  BY WorkerFailsInv DEF WorkerFails, Drop
<1>2. w[1] \in Tasks
  BY DEF Workers
<1>3. CASE worker[w].pc \in {"spawned", "finishing"} /\ Leave(w) /\ Drop(w[1])
  <2>1. Released(w)
    BY <1>1, <1>2, <1>3 DEF Released, Drop, Unfinished, Pending, Active, Waiting
  <2> QED BY <1>1, <1>3, <2>1, StatusFrame, WorkerMoves
<1>4. CASE /\ worker[w].pc \in {"launching", "creating", "starting", "executing"}
           /\ Complete(w, "failed") /\ UNCHANGED launches
  BY <1>1, <1>4, WorkerHoldsRow
<1>5. CASE worker[w].pc \in {"stopping", "disabling"} /\ Leave(w)
  <2>1. ~Waiting(w[1]) /\ Released(w)
    BY <1>1, <1>5 DEF SweepInv, WorkersOK, WorkerOK, PastStart, Waiting, Released
  <2> QED BY <1>1, <1>5, <2>1, StatusFrame, WorkerMoves
<1> QED BY <1>3, <1>4, <1>5 DEF WorkerFails
-----------------------------------------------------------------------------
(* The commands.                                                           *)

(* What is left to show of a step that leaves every worker where it is.    *)
LEMMA WorkersWait ==
  ASSUME IInv, SweepInv, TableStep, Onward, UNCHANGED sweepVars,
         phase' \in {phase, "suspended"}, JobOK', UNCHANGED launches,
         \A w \in Workers : /\ worker'[w].pc = worker[w].pc
                            /\ worker'[w].outcome = worker[w].outcome,
         dropped \subseteq dropped',
         \A t \in Tasks : Awaited(t)' /\ t \in handoff => t \in handoff',
         \A t \in Tasks : Awaited(t)' /\ job.task = t
                            => job'.task = t \/ t \in dropped',
         \A t \in Tasks : Awaited(t)' /\ ~Claimed(t)
                            => t \in handoff' \/ job'.task = t
  PROVE  SweepInv'
<1>1. WorkersOK'
  BY WorkerStays DEF SweepInv, WorkersOK
<1>2. TokensOK'
  BY TokensStay DEF SweepInv
<1>3. \A t \in Tasks, o \in Origins : <<t, o>> \in Workers
  BY DEF Workers
<1>4. \A t \in Tasks : Awaited(t)' /\ Kept(t) => Kept(t)'
  BY <1>3, HeldStays DEF Awaited
<1> QED BY <1>1, <1>2, <1>4, Outside DEF Kept, Held

(* A step that claims nothing and leaves the timer alone too.              *)
LEMMA TimerWaits ==
  ASSUME IInv, SweepInv, TableStep, Onward,
         UNCHANGED <<timerVars, sweepVars, phase, launches, dropped>>,
         \A w \in Workers : /\ worker'[w].pc = worker[w].pc
                            /\ worker'[w].outcome = worker[w].outcome,
         handoff \subseteq handoff',
         \A t \in Tasks : Waiting(t)' /\ ~Claimed(t) => t \in handoff'
  PROVE  SweepInv'
<1>1. JobOK' /\ UNCHANGED job
  BY JobStay DEF SweepInv, timerVars
<1> QED BY <1>1, WorkersWait DEF Awaited

(* A command, or what it goes on to do, that moves no row.                 *)
LEMMA EditSweep ==
  ASSUME IInv, SweepInv, IInv' /\ TableStep,
         UNCHANGED <<status, controlVars, timerVars, sweepVars, launchVars, handoff,
                     dropped>>
  PROVE  SweepInv'
<1>1. Onward /\ UNCHANGED <<phase, launches, worker>>
  BY StatusFrame DEF controlVars, launchVars
<1>2. \A t \in Tasks : Waiting(t)' => Claimed(t)
  BY DEF Waiting, Claimed
<1> QED BY <1>1, <1>2, TimerWaits

(* A cancelled token changes neither.                                      *)
LEMMA CancelledAt ==
  ASSUME IInv, NEW w \in Workers
  PROVE  Cancelled(w).pc = worker[w].pc /\ Cancelled(w).outcome = worker[w].outcome
<1>1. worker[w] \in WorkerStates
  BY DEF IInv, TypeOK, LaunchOK
<1> QED BY <1>1 DEF Cancelled, WorkerStates

(* A new row is queued only when its claim is to be launched.              *)
LEMMA ClaimAt ==
  ASSUME IInv, NEW s \in Schedules, NEW t \in Tasks, NEW r, NEW k, NEW wanted,
         wanted \in {"queued", "skipped"}, ClaimInvocation(s, t, r, k, wanted)
  PROVE  /\ ~Claimed(t) /\ claim'[t].owner = s
         /\ Waiting(t)' => Launches(s, wanted)
         /\ \A u \in Tasks \ {t} : status'[u] = status[u]
         /\ Onward
<1>1. /\ status[t] = "absent" /\ claim'[t].owner = s
      /\ status'[t] = IF Overlaps(s) THEN "skipped" ELSE wanted
      /\ \A u \in Tasks \ {t} : status'[u] = status[u]
  BY DEF ClaimInvocation, Fresh, IInv, TypeOK, TablesOK
<1> QED BY <1>1 DEF Claimed, Waiting, Launches, Onward

(* run_now hands the row it claims over.                                   *)
LEMMA RunNowSweep ==
  ASSUME IInv, SweepInv, NEW s \in Schedules, NEW t \in Tasks, RunNow(s, t)
  PROVE  SweepInv'
<1>1. /\ TableStep
      /\ UNCHANGED <<timerVars, sweepVars, phase, launches, worker, dropped>>
      /\ ClaimInvocation(s, t, sched[s].rev, ManualKey(s, t), "queued")
      /\ handoff' = IF Launches(s, "queued") THEN handoff \cup {t} ELSE handoff
  BY RunNowInv DEF RunNow, controlVars, launchVars, envVars
<1>2. /\ Onward
      /\ \A u \in Tasks : Waiting(u)' /\ ~Claimed(u) => u \in handoff'
  BY <1>1, ClaimAt DEF Waiting, Claimed
<1> QED BY <1>1, <1>2, TimerWaits

(* So does retry, for the Schedule of the row it repeats.                  *)
LEMMA RetrySweep ==
  ASSUME IInv, SweepInv, NEW p \in Tasks, NEW t \in Tasks, Retry(p, t)
  PROVE  SweepInv'
<1> DEFINE s == claim[p].owner
<1>1. /\ TableStep
      /\ UNCHANGED <<timerVars, sweepVars, phase, launches, worker, dropped>>
      /\ ClaimInvocation(s, t, sched[s].rev, RetryKey(p, t), "queued")
      /\ handoff' = IF Launches(s, "queued") THEN handoff \cup {t} ELSE handoff
  BY RetryInv DEF Retry, controlVars, launchVars, envVars
<1>2. s \in Schedules
  BY DEF Retry, Linked, IInv, RowsOK
<1> HIDE DEF s
<1>3. /\ Onward
      /\ \A u \in Tasks : Waiting(u)' /\ ~Claimed(u) => u \in handoff'
  BY <1>1, <1>2, ClaimAt DEF Waiting, Claimed
<1> QED BY <1>1, <1>3, TimerWaits

(* A worker takes the row over, from a command or from the timer.          *)
LEMMA HandedOver ==
  ASSUME IInv, SweepInv, TableStep, UNCHANGED <<status, sweepVars, phase, dropped>>,
         NEW t \in Tasks, NEW o \in Origins, NEW r, LaunchClaim(t, o, r),
         JobOK', handoff \ {t} \subseteq handoff', job'.task = job.task \/ job.task = t
  PROVE  SweepInv'
<1>1. /\ WorkersOK' /\ TokensOK' /\ Kept(t)'
      /\ \A u \in Tasks, p \in Origins : HoldsRow(<<u, p>>) => HoldsRow(<<u, p>>)'
  BY LaunchHolds DEF SweepInv
<1>3. \A u \in Tasks : Kept(u) => Kept(u)'
  BY <1>1, SchedulerAssumption DEF Kept, Held
<1>4. Onward /\ \A u \in Tasks : Awaited(u)' => Claimed(u)
  BY StatusFrame DEF Awaited, Waiting, Claimed
<1> QED BY <1>1, <1>3, <1>4, Outside

(* The launch_claim that ends run_now and retry.                           *)
LEMMA LaunchHandoffSweep ==
  ASSUME IInv, SweepInv, NEW t \in Tasks, LaunchHandoff(t)
  PROVE  SweepInv'
<1>1. /\ TableStep /\ UNCHANGED <<status, sweepVars, phase, timerPc, job, dropped>>
      /\ LaunchClaim(t, "claim", claim[t].rev) /\ handoff' = handoff \ {t}
  BY LaunchHandoffInv DEF LaunchHandoff, controlVars, timerVars, taskVars, envVars
<1>2. JobOK'
  BY <1>1, JobStay DEF SweepInv
<1> QED BY <1>1, <1>2, HandedOver DEF Origins

(* Tokens are cancelled.                                                   *)
LEMMA CancelLaunchesSweep ==
  ASSUME IInv, SweepInv, NEW s \in Schedules, CancelLaunches(s)
  PROVE  SweepInv'
<1>1. /\ TableStep
      /\ UNCHANGED <<status, timerVars, sweepVars, phase, launches, handoff, dropped>>
  BY CancelLaunchesInv DEF CancelLaunches, controlVars, taskVars, envVars
<1>2. \A w \in Workers : /\ worker'[w].pc = worker[w].pc
                         /\ worker'[w].outcome = worker[w].outcome
  BY CancelledAt DEF CancelLaunches
<1>3. Onward /\ \A t \in Tasks : Waiting(t)' => Claimed(t)
  BY <1>1, StatusFrame DEF Waiting, Claimed
<1> QED BY <1>1, <1>2, <1>3, TimerWaits

(* cancel_task cancels one of them.                                        *)
LEMMA CancelTaskSweep ==
  ASSUME IInv, SweepInv, NEW t \in Tasks, CancelTask(t)
  PROVE  SweepInv'
<1>1. /\ TableStep
      /\ UNCHANGED <<status, timerVars, sweepVars, phase, launches, handoff, dropped>>
  BY CancelTaskInv DEF CancelTask, controlVars, taskVars, envVars
<1>2. launches[t] # "none" => <<t, launches[t]>> \in Workers
  BY DEF IInv, TypeOK, LaunchOK, Workers
<1>3. \A w \in Workers : /\ worker'[w].pc = worker[w].pc
                         /\ worker'[w].outcome = worker[w].outcome
  BY <1>2, CancelledAt DEF CancelTask, IInv, TypeOK, LaunchOK
<1>4. Onward /\ \A u \in Tasks : Waiting(u)' => Claimed(u)
  BY <1>1, StatusFrame DEF Waiting, Claimed
<1> QED BY <1>1, <1>3, <1>4, TimerWaits

(* A row is cancelled, and waits no more.                                  *)
LEMMA CommitCancelSweep ==
  ASSUME IInv, SweepInv, NEW t \in Tasks, CommitCancel(t)
  PROVE  SweepInv'
<1>1. /\ TableStep
      /\ UNCHANGED <<timerVars, sweepVars, phase, launches, worker, handoff, dropped>>
  BY CommitCancelInv DEF CommitCancel, controlVars, launchVars, envVars
<1>2. CASE Accepts(t, "cancelled") /\ Transition(t, "cancelled")
  <2>1. Claimed(t)
    BY <1>2 DEF Accepts, CanTransition, Claimed, Active
  <2>2. Onward
    BY <1>2, <2>1, TransitionOnward DEF TaskStatuses, Terminal
  <2>3. \A u \in Tasks : Waiting(u)' => Claimed(u)
    BY <1>2, <2>1, TransitionAt DEF Waiting, Claimed
  <2> QED BY <1>1, <2>2, <2>3, TimerWaits
<1>3. CASE UNCHANGED status
  <2>1. Onward /\ \A u \in Tasks : Waiting(u)' => Claimed(u)
    BY <1>3, StatusFrame DEF Waiting, Claimed
  <2> QED BY <1>1, <2>1, TimerWaits
<1> QED BY <1>2, <1>3 DEF CommitCancel

(* Every command, and what it goes on to do.                               *)
LEMMA CommandSweep ==
  ASSUME IInv, SweepInv, Command \/ Finishing
  PROVE  SweepInv'
<1>1. ASSUME NEW s \in Schedules,
             \/ \E e \in BOOLEAN : Create(s, e) \/ SetEnabled(s, e)
             \/ \E e, scopeChanged \in BOOLEAN : Update(s, e, scopeChanged)
             \/ Remove(s) \/ CancelRuns(s)
      PROVE  SweepInv'
  <2>1. UNCHANGED <<status, controlVars, timerVars, sweepVars, launchVars, handoff,
                    dropped>>
    BY <1>1 DEF Create, SetEnabled, Update, Remove, CancelRuns, taskVars, commandVars,
                envVars
  <2>2. IInv' /\ TableStep
    BY <1>1, CreateInv, SetEnabledInv, UpdateInv, RemoveInv, CancelRunsInv
  <2> QED BY <2>1, <2>2, EditSweep
<1> QED BY <1>1, RunNowSweep, RetrySweep, CancelTaskSweep, LaunchHandoffSweep,
           CommitCancelSweep, CancelLaunchesSweep DEF Command, Finishing

(* A failing call of a command.                                            *)
LEMMA CommandFailsSweep ==
  ASSUME IInv, SweepInv, CommandFails
  PROVE  SweepInv'
<1>1. UNCHANGED <<status, controlVars, timerVars, sweepVars, launchVars, handoff, dropped>>
  BY DEF CommandFails, taskVars
<1> QED BY <1>1, CommandFailsInv, EditSweep
-----------------------------------------------------------------------------
(* The timer.                                                              *)

(* What is left to show of a step of the timer that launches nothing.      *)
LEMMA TimerMovesJob ==
  ASSUME IInv, SweepInv, TableStep, Onward, JobOK', phase' \in {phase, "suspended"},
         UNCHANGED <<sweepVars, launchVars, handoff>>, dropped \subseteq dropped',
         \A t \in Tasks : Awaited(t)' /\ job.task = t
                            => job'.task = t \/ t \in dropped',
         \A t \in Tasks : Awaited(t)' /\ ~Claimed(t) => job'.task = t
  PROVE  SweepInv'
  BY WorkersWait DEF launchVars

(* A pass that holds no row moves on without one.                          *)
LEMMA TimerEmpty ==
  ASSUME IInv, SweepInv, TableStep, timerPc \notin {"advance", "launch"},
         UNCHANGED <<status, sweepVars, launchVars, handoff>>, dropped \subseteq dropped',
         phase' \in {phase, "suspended"}, job'.task \in {job.task, NoTask}
  PROVE  SweepInv'
<1>1. job.task \notin Tasks /\ job'.task \notin Tasks
  BY SchedulerAssumption DEF SweepInv, JobOK
<1>2. JobOK' /\ Onward /\ \A t \in Tasks : Awaited(t)' => Claimed(t)
  BY <1>1, StatusFrame DEF JobOK, Awaited, Waiting, Claimed
<1> QED BY <1>1, <1>2, TimerMovesJob

(* The listing, the examination, the stop and the end of a pass.           *)
LEMMA PassSweep ==
  ASSUME IInv, SweepInv,
         TriggerDue \/ (\E d \in due : ExamineDue(d)) \/ StopDue \/ EndPass
  PROVE  SweepInv'
<1>1. TableStep
  BY TriggerDueInv, ExamineDueInv, StopDueInv, EndPassInv
<1>2. /\ timerPc \notin {"advance", "launch"}
      /\ UNCHANGED <<status, sweepVars, launchVars, handoff, dropped>>
      /\ phase' \in {phase, "suspended"}
  BY DEF TriggerDue, ExamineDue, StopDue, EndPass, AbandonPass, Abandon, taskVars,
         controlVars, commandVars, envVars
<1>3. job'.task \in {job.task, NoTask}
  <2>1. \A d \in due : d.task = NoTask
    BY DEF IInv, TypeOK, TimerOK, DueItems
  <2>2. NoJob.task = NoTask
    BY DEF NoJob
  <2> QED BY <2>1, <2>2 DEF TriggerDue, ExamineDue, StopDue, EndPass, AbandonPass,
                            ContinuePass
<1> QED BY <1>1, <1>2, <1>3, TimerEmpty

(* The claim of an occurrence: the timer holds the row if it is queued.    *)
LEMMA ClaimDueSweep ==
  ASSUME IInv, SweepInv, ClaimDue
  PROVE  SweepInv'
<1> DEFINE s == job.sched
           k == OccurrenceKey(s, job.at)
<1>1. /\ TableStep /\ UNCHANGED <<sweepVars, launchVars, handoff, dropped>>
      /\ timerPc = "claim"
  BY ClaimDueInv DEF ClaimDue, commandVars, envVars
<1>2. job \in Jobs /\ s \in Schedules /\ job.task \notin Tasks
  BY <1>1, JobType DEF SweepInv, JobOK
<1>3. CASE UNCHANGED <<active, taskVars, controlVars, passNow, due, job>>
  BY <1>1, <1>3, TimerEmpty DEF taskVars, controlVars
<1>4. CASE AbandonPass /\ UNCHANGED <<active, taskVars>>
  <2>1. job'.task = NoTask /\ phase' \in {phase, "suspended"} /\ UNCHANGED status
    BY <1>4 DEF AbandonPass, Abandon, NoJob, taskVars
  <2> QED BY <1>1, <2>1, TimerEmpty
<1>5. ASSUME NEW t \in Tasks,
             ClaimInvocation(s, t, job.rev, k, WantedStatus),
             job' = [job EXCEPT !.task = IF Launches(s, WantedStatus) THEN t ELSE NoTask],
             timerPc' = "advance", UNCHANGED controlVars
      PROVE  SweepInv'
  <2>1. /\ job'.task = IF Launches(s, WantedStatus) THEN t ELSE NoTask
        /\ job'.sched = s
    BY <1>2, <1>5 DEF Jobs
  <2>2. WantedStatus \in {"queued", "skipped"}
    BY DEF WantedStatus
  <2> HIDE DEF s, k
  <2>3. /\ ~Claimed(t) /\ claim'[t].owner = s /\ Onward
        /\ Waiting(t)' => Launches(s, WantedStatus)
        /\ \A u \in Tasks \ {t} : status'[u] = status[u]
    BY <1>2, <1>5, <2>2, ClaimAt
  <2>4. JobOK'
    BY <1>5, <2>1, <2>3, SchedulerAssumption DEF JobOK
  <2>5. \A u \in Tasks : Awaited(u)' /\ ~Claimed(u) => job'.task = u
    BY <2>1, <2>3 DEF Awaited, Waiting, Claimed
  <2> QED BY <1>1, <1>2, <1>5, <2>3, <2>4, <2>5, TimerMovesJob DEF controlVars
<1> QED BY <1>3, <1>4, <1>5 DEF ClaimDue

(* The next occurrence.  A pass lets go of its row here only when the      *)
(* Schedule is gone, or is not a recurring one.                            *)
LEMMA AdvanceDueSweep ==
  ASSUME IInv, SweepInv, AdvanceDue
  PROVE  SweepInv'
<1> DEFINE s == job.sched
<1>1. /\ TableStep /\ UNCHANGED <<status, claim, sweepVars, launchVars, handoff, dropped>>
      /\ timerPc = "advance"
  BY AdvanceDueInv DEF AdvanceDue, commandVars, taskVars, envVars
<1>2. job \in Jobs /\ s \in Schedules /\ job.task \in Tasks \cup {NoTask}
  BY <1>1, JobType
<1>3. Onward /\ \A t \in Tasks : Awaited(t)' => Claimed(t)
  BY <1>1, StatusFrame DEF Awaited, Waiting, Claimed
<1>4. job.task \in Tasks => claim[job.task].owner = s
  BY DEF SweepInv, JobOK
<1>5. CASE /\ job' = (IF job.task = NoTask THEN NoJob ELSE job)
           /\ timerPc' = (IF job.task = NoTask THEN "pass" ELSE "launch")
           /\ UNCHANGED controlVars
  <2>1. job'.task = job.task /\ (job.task \in Tasks => job' = job /\ timerPc' = "launch")
    BY <1>2, <1>5, SchedulerAssumption DEF NoJob
  <2>2. JobOK'
    BY <1>1, <1>4, <2>1 DEF JobOK
  <2> QED BY <1>1, <1>3, <1>5, <2>1, <2>2, TimerMovesJob DEF controlVars
<1>6. CASE /\ IF Definition[s].kind = "at" THEN ~AtRevision(s, job.rev) ELSE ~Live(s)
           /\ AbandonPass /\ UNCHANGED sched
  <2>1. job'.task = NoTask /\ phase' \in {phase, "suspended"}
    BY <1>6 DEF AbandonPass, Abandon, NoJob
  <2>2. JobOK'
    BY <2>1, SchedulerAssumption DEF JobOK
  <2>3. s \in Repeating => ~Live(s)
    BY <1>6 DEF Repeating
  <2>4. \A t \in Tasks : job.task = t => ~Awaited(t)'
    BY <1>1, <1>4, <1>6, <2>3 DEF Awaited, Linked, Live
  <2> QED BY <1>1, <1>3, <2>1, <2>2, <2>4, TimerMovesJob
<1> QED BY <1>5, <1>6 DEF AdvanceDue

(* The launch of the row the timer holds.                                  *)
LEMMA LaunchDueSweep ==
  ASSUME IInv, SweepInv, LaunchDue
  PROVE  SweepInv'
<1>1. /\ TableStep /\ UNCHANGED <<status, sweepVars, phase, handoff, dropped>>
      /\ LaunchClaim(job.task, "claim", job.rev) /\ job.task \in Tasks
      /\ job'.task = NoTask
  BY LaunchDueInv, ContinuePassStep
     DEF LaunchDue, IInv, PositionsOK, taskVars, controlVars, commandVars, envVars
<1>2. JobOK'
  BY <1>1, SchedulerAssumption DEF JobOK
<1> QED BY <1>1, <1>2, HandedOver DEF Origins

(* Every step of the timer.                                                *)
LEMMA TimerSweep ==
  ASSUME IInv, SweepInv, TimerStep
  PROVE  SweepInv'
  BY PassSweep, ClaimDueSweep, AdvanceDueSweep, LaunchDueSweep DEF TimerStep

(* A failing call of the timer, which drops the row it holds.              *)
LEMMA TimerFailsSweep ==
  ASSUME IInv, SweepInv, TimerFails
  PROVE  SweepInv'
<1>1. /\ TableStep /\ UNCHANGED <<status, sweepVars, launchVars, handoff>>
      /\ job'.task = NoTask /\ phase' \in {phase, "suspended"}
      /\ dropped \subseteq dropped'
  BY TimerFailsInv DEF TimerFails, AbandonPass, Abandon, NoJob, Drop, taskVars, commandVars
<1>2. JobOK'
  BY <1>1, SchedulerAssumption DEF JobOK
<1>3. Onward /\ \A t \in Tasks : Awaited(t)' => Claimed(t) /\ t \in Unfinished
  BY <1>1, StatusFrame DEF Awaited, Waiting, Claimed, Unfinished, Pending, Active
<1>4. \A t \in Tasks : Awaited(t)' /\ job.task = t => t \in dropped'
  BY <1>3 DEF TimerFails, Drop
<1> QED BY <1>1, <1>2, <1>3, <1>4, TimerMovesJob
-----------------------------------------------------------------------------
(* The startup reconciliation.                                             *)

(* What is left to show of a step of the reconciliation that launches      *)
(* nothing.                                                                *)
LEMMA SweepMoves ==
  ASSUME IInv, SweepInv, TableStep, Onward,
         UNCHANGED <<timerVars, launchVars, commandVars>>,
         SnapsOK', \A t \in Tasks : Waiting(t)' => Claimed(t),
         dropped \subseteq dropped' \/ (\A t \in Tasks : Awaited(t)' => Swept(t)'),
         \A t \in Tasks : Awaited(t)' /\ Swept(t) => Kept(t) \/ Swept(t)'
  PROVE  SweepInv'
<1>1. WorkersOK'
  BY WorkerStays DEF SweepInv, WorkersOK, launchVars
<1>2. TokensOK'
  BY TokensStay DEF SweepInv, launchVars
<1>3. JobOK'
  BY JobStay DEF SweepInv, timerVars
<1>4. \A t \in Tasks : Awaited(t)' /\ Kept(t) => Kept(t)' \/ Swept(t)'
  BY HeldStays DEF Awaited, timerVars, launchVars, commandVars
<1>5. \A t \in Tasks : Awaited(t)' => Claimed(t)
  BY DEF Awaited
<1> QED BY <1>1, <1>2, <1>3, <1>4, <1>5, Assemble

(* A step that takes at most one row off the list.                         *)
LEMMA ListStays ==
  ASSUME IInv, SweepInv, TableStep, Onward,
         UNCHANGED <<timerVars, launchVars, commandVars>>,
         listed' \subseteq listed, item' \in {item, NoItem} \cup listed,
         UNCHANGED dropped, \A t \in Tasks : Waiting(t)' => Claimed(t),
         \A t \in Tasks : Awaited(t)' /\ Swept(t) => Kept(t) \/ Swept(t)'
  PROVE  SweepInv'
  BY SnapsStay, SweepMoves DEF SweepInv

(* An error: the reconciliation starts over, or gives up.                  *)
LEMMA AbandonSweepSweep ==
  ASSUME IInv, SweepInv, TableStep, AbandonSweep, UNCHANGED status,
         UNCHANGED <<timerVars, launchVars, commandVars, dropped>>
  PROVE  SweepInv'
<1>1. /\ listed' \subseteq listed /\ item' \in {item, NoItem} \cup listed
      /\ phase' \in {"list", "suspended"}
  BY DEF AbandonSweep
<1>2. Onward /\ \A t \in Tasks : Waiting(t)' => Claimed(t)
  BY StatusFrame DEF Waiting, Claimed
<1> QED BY <1>1, <1>2, ListStays DEF Swept

(* The listing holds every row that waits.                                 *)
LEMMA ListPendingSweep ==
  ASSUME IInv, SweepInv, ListPending
  PROVE  SweepInv'
<1>1. /\ TableStep
      /\ UNCHANGED <<status, claim, sched, item, timerVars, launchVars, commandVars>>
      /\ phase' = "sweep"
      /\ listed' = {[id |-> t, status |-> status[t], run |-> run[t],
                     linked |-> Linked(t)] : t \in Unfinished}
  BY ListPendingInv DEF ListPending, scheduleVars, taskVars
<1>2. Onward /\ \A t \in Tasks : Waiting(t)' => Claimed(t)
  BY <1>1, StatusFrame DEF Waiting, Claimed
<1>3. \A t \in Tasks : Linked(t)' = Linked(t) /\ Waiting(t)' = Waiting(t)
  BY <1>1 DEF Linked, Live, Claimed, Waiting
<1>4. \A x \in listed' : SnapOK(x)'
  <2>1. \A x \in listed' : /\ x.id \in Tasks /\ x.status = status[x.id]
                           /\ x.linked = Linked(x.id)
    BY <1>1 DEF Unfinished
  <2> QED BY <1>3, <2>1 DEF SnapOK, Waiting
<1>5. item' \in Snapshots => SnapOK(item)'
  <2>1. item \in Snapshots => item.id \in Tasks
    BY DEF Snapshots
  <2> QED BY <1>1, <1>3, <2>1 DEF SnapOK, SweepInv, SnapsOK
<1>6. \A t \in Tasks : Waiting(t)' => \E x \in listed' : x.id = t
  <2> SUFFICES ASSUME NEW t \in Tasks, Waiting(t)'
               PROVE  \E x \in listed' : x.id = t
    OBVIOUS
  <2> DEFINE row == [id |-> t, status |-> status[t], run |-> run[t],
                     linked |-> Linked(t)]
  <2>1. t \in Unfinished
    BY <1>1 DEF Unfinished, Pending, Active, Waiting
  <2>2. row \in listed' /\ row.id = t
    BY <1>1, <2>1
  <2> QED BY <2>2
<1> QED BY <1>1, <1>2, <1>4, <1>5, <1>6, SweepMoves DEF SnapsOK, Swept, Awaited

(* A row is skipped when its token is registered, and then it has a        *)
(* worker.                                                                 *)
LEMMA SkipLaunchedSweep ==
  ASSUME IInv, SweepInv, NEW x \in listed, SkipLaunched(x)
  PROVE  SweepInv'
<1>1. /\ TableStep
      /\ UNCHANGED <<status, phase, item, timerVars, launchVars, commandVars, dropped>>
      /\ phase = "sweep" /\ listed' = listed \ {x} /\ launches[x.id] # "none"
  BY SkipLaunchedInv DEF SkipLaunched, controlVars, taskVars, envVars
<1>2. Onward /\ \A t \in Tasks : Waiting(t)' => Claimed(t)
  BY <1>1, StatusFrame DEF Waiting, Claimed
<1>3. Waiting(x.id) => Held(x.id)
  <2>1. x.id \in Tasks /\ launches[x.id] \in Origins
    BY <1>1, ListedType DEF IInv, TypeOK, LaunchOK
  <2>2. Waiting(x.id) => HoldsRow(<<x.id, launches[x.id]>>)
    BY <1>1, <2>1 DEF SweepInv, TokensOK, HoldsRow, Waiting
  <2> QED BY <2>1, <2>2 DEF Held
<1>4. \A t \in Tasks : Awaited(t)' /\ Swept(t) => Kept(t) \/ Swept(t)'
  BY <1>1, <1>2, <1>3 DEF Swept, Awaited, Onward, Kept
<1> QED BY <1>1, <1>2, <1>4, ListStays

(* A queued row goes on to its dispatch.  So does a preparing one, which   *)
(* waits again; a worker of it that is left, without a token, loses it.    *)
LEMMA RequeueSweep ==
  ASSUME IInv, SweepInv, NEW x \in listed, Requeue(x)
  PROVE  SweepInv'
<1>1. /\ TableStep /\ IInv'
      /\ UNCHANGED <<sched, claim, timerVars, launchVars, commandVars, dropped>>
      /\ phase = "sweep" /\ launches[x.id] = "none"
      /\ x.id \in Tasks /\ Claimed(x.id)
  BY RequeueInv, ListedType DEF Requeue, scheduleVars, envVars
<1>2. CASE item' = x /\ phase' = "dispatch" /\ listed' = listed \ {x} /\ UNCHANGED status
  <2>1. Onward /\ \A t \in Tasks : Waiting(t)' => Claimed(t)
    BY <1>2, StatusFrame DEF Waiting, Claimed
  <2>2. \A t \in Tasks : Swept(t) => Swept(t)'
    BY <1>1, <1>2 DEF Swept
  <2> QED BY <1>1, <1>2, <2>1, <2>2, ListStays
<1>3. CASE /\ status[x.id] = "preparing"
           /\ status' = [status EXCEPT ![x.id] = "queued"]
           /\ item' = [x EXCEPT !.status = "queued", !.linked = Linked(x.id)]
           /\ phase' = "dispatch" /\ listed' = listed \ {x}
  <2>1. /\ status'[x.id] = "queued"
        /\ \A t \in Tasks \ {x.id} : status'[t] = status[t]
    BY <1>1, <1>3 DEF IInv, TypeOK, TablesOK
  <2>2. \A t \in Tasks : Waiting(t)' = Waiting(t) /\ Linked(t)' = Linked(t)
    BY <1>1, <1>3, <2>1 DEF Waiting, Linked, Live, Claimed
  <2>4. WorkersOK'
    <3> SUFFICES ASSUME NEW w \in Workers PROVE WorkerOK(w)'
      BY DEF WorkersOK
    <3>1. w[1] \in Tasks /\ WorkerOK(w)
      BY DEF Workers, SweepInv, WorkersOK
    <3> QED BY <1>1, <2>2, <3>1 DEF WorkerOK, launchVars
  <2>5. TokensOK' /\ JobOK'
    BY <1>1, <2>1, JobStay DEF SweepInv, TokensOK, launchVars, timerVars
  <2>6. SnapsOK'
    <3>1. \A y \in listed : y.id \in Tasks /\ SnapOK(y)
      BY ListedType DEF SweepInv, SnapsOK
    <3>2. \A y \in listed : SnapOK(y)'
      BY <2>2, <3>1 DEF SnapOK
    <3>3. x \in Snapshots
      BY ListedType
    <3>4. item'.id = x.id /\ item'.status = "queued" /\ item'.linked = Linked(x.id)
      BY <1>3, <3>3 DEF Snapshots
    <3>5. SnapOK(item)'
      BY <1>1, <2>2, <3>4 DEF SnapOK
    <3> QED BY <1>3, <3>2, <3>5 DEF SnapsOK
  <2>7. item'.id = x.id
    <3>1. x \in Snapshots
      BY ListedType
    <3> QED BY <1>3, <3>1 DEF Snapshots
  <2>8. \A t \in Tasks : /\ Awaited(t)' => Awaited(t)
                         /\ Swept(t) => Swept(t)'
    BY <1>1, <1>3, <2>2, <2>7 DEF Awaited, Swept
  <2>9. Swept(x.id)'
    BY <1>3, <2>7 DEF Swept
  <2>10. \A t \in Tasks \ {x.id} : Kept(t) => Kept(t)'
    BY <1>1, <2>1 DEF Kept, Held, HoldsRow, timerVars, launchVars, commandVars
  <2> QED BY <2>4, <2>5, <2>6, <2>8, <2>9, <2>10 DEF SweepInv, HeldOrSwept
<1>4. CASE AbandonSweep /\ UNCHANGED status
  BY <1>1, <1>4, AbandonSweepSweep
<1> QED BY <1>2, <1>3, <1>4 DEF Requeue

(* A row that got past preparing waits no more.                            *)
LEMMA FollowRunSweep ==
  ASSUME IInv, SweepInv, NEW x \in listed, FollowRun(x)
  PROVE  SweepInv'
<1> DEFINE target == IF x.run = "none" THEN "needs_attention"
                     ELSE LinkedStatus(run[x.id])
           first  == IF x.status = "preparing" /\ target # "needs_attention"
                     THEN "running" ELSE target
<1>1. /\ TableStep /\ UNCHANGED <<timerVars, launchVars, commandVars, dropped>>
      /\ phase = "sweep" /\ x \in Snapshots /\ x.id \in Tasks /\ Claimed(x.id)
  BY FollowRunInv, ListedType DEF FollowRun, envVars
<1>2. CASE x.status = "running" /\ listed' = listed \ {x}
           /\ UNCHANGED <<status, controlVars, item>>
  <2>1. ~Waiting(x.id)
    BY <1>2 DEF SweepInv, SnapsOK, SnapOK
  <2>2. Onward /\ \A t \in Tasks : Waiting(t)' => Waiting(t) /\ Claimed(t)
    BY <1>2, StatusFrame DEF Waiting, Claimed
  <2>3. \A t \in Tasks : Awaited(t)' /\ Swept(t) => Swept(t)'
    BY <1>1, <1>2, <2>1, <2>2 DEF Swept, Awaited, controlVars
  <2> QED BY <1>1, <1>2, <2>2, <2>3, ListStays
<1>3. CASE /\ Accepts(x.id, first) /\ Transition(x.id, first)
           /\ listed' = listed \ {x}
           /\ IF first = target
              THEN UNCHANGED <<controlVars, item>>
              ELSE /\ phase' = "follow"
                   /\ item' = [x EXCEPT !.run = run[x.id]]
                   /\ UNCHANGED <<accepting, attempts>>
  <2>1. first \in TaskStatuses /\ first \notin {"queued", "preparing"}
    BY DEF LinkedStatus, TaskStatuses, Active, Terminal
  <2>2. phase' \in {"sweep", "follow"}
        /\ (item' = item \/ item' = [x EXCEPT !.run = run[x.id]])
    BY <1>1, <1>3 DEF controlVars
  <2> HIDE DEF first, target
  <2>3. Onward
    BY <1>1, <1>3, <2>1, TransitionOnward
  <2>4. ~Waiting(x.id)' /\ \A t \in Tasks : Waiting(t)' => Claimed(t)
    BY <1>1, <1>3, <2>1, TransitionAt DEF Waiting, Claimed
  <2>5. SnapsOK'
    <3>1. CASE item' = item
      BY <1>1, <1>3, <2>3, <3>1, SnapsStay DEF SweepInv
    <3>2. CASE item' = [x EXCEPT !.run = run[x.id]]
      <4>1. item'.id = x.id /\ item'.status = x.status /\ item'.linked = x.linked
        BY <1>1, <3>2 DEF Snapshots
      <4>2. \A y \in listed : y.id \in Tasks /\ Claimed(y.id) /\ SnapOK(y)
        BY ListedType DEF SweepInv, SnapsOK
      <4>3. \A y \in listed : SnapOK(y)'
        BY <1>1, <2>3, <4>2, LinkedBefore DEF SnapOK, Onward
      <4>4. SnapOK(item)'
        BY <4>1, <4>3 DEF SnapOK
      <4> QED BY <1>3, <4>3, <4>4 DEF SnapsOK
    <3> QED BY <2>2, <3>1, <3>2
  <2>6. \A t \in Tasks : Awaited(t)' /\ Swept(t) => Swept(t)'
    BY <1>1, <1>3, <2>2, <2>4 DEF Swept, Awaited
  <2> QED BY <1>1, <2>3, <2>4, <2>5, <2>6, SweepMoves
<1>4. CASE AbandonSweep /\ UNCHANGED status
  BY <1>1, <1>4, AbandonSweepSweep
<1> QED BY <1>2, <1>3, <1>4 DEF FollowRun

(* The second transition of such a row.                                    *)
LEMMA FollowEndSweep ==
  ASSUME IInv, SweepInv, FollowEnd
  PROVE  SweepInv'
<1> DEFINE target == LinkedStatus(item.run)
<1>1. /\ TableStep /\ UNCHANGED <<timerVars, launchVars, commandVars, dropped>>
      /\ phase = "follow" /\ item.id \in Tasks /\ Claimed(item.id)
  BY FollowEndInv DEF FollowEnd, IInv, PositionsOK, HoldersOK, Snapshots, envVars
<1>2. CASE /\ Accepts(item.id, target) /\ Transition(item.id, target)
           /\ phase' = "sweep" /\ item' = NoItem /\ UNCHANGED listed
  <2>1. target \in TaskStatuses /\ target \notin {"queued", "preparing"}
    BY DEF LinkedStatus, TaskStatuses, Active, Terminal
  <2> HIDE DEF target
  <2>2. Onward
    BY <1>1, <1>2, <2>1, TransitionOnward
  <2>3. \A t \in Tasks : Waiting(t)' => Claimed(t)
    BY <1>1, <1>2, <2>1, TransitionAt DEF Waiting, Claimed
  <2>4. \A t \in Tasks : Swept(t) => Swept(t)'
    BY <1>1, <1>2 DEF Swept
  <2> QED BY <1>1, <1>2, <2>2, <2>3, <2>4, ListStays
<1>3. CASE AbandonSweep /\ UNCHANGED status
  BY <1>1, <1>3, AbandonSweepSweep
<1> QED BY <1>2, <1>3 DEF FollowEnd

(* The dispatch passes over a row without a Schedule only.                 *)
LEMMA DispatchSweep ==
  ASSUME IInv, SweepInv, Dispatch
  PROVE  SweepInv'
<1>1. PICK t \in Tasks : t = item.id
  BY DEF Dispatch, IInv, PositionsOK, Snapshots
<1>2. /\ TableStep /\ UNCHANGED <<sched, claim, listed, timerVars, commandVars, dropped>>
      /\ phase = "dispatch" /\ phase' = "sweep" /\ item' = NoItem
      /\ Claimed(t) /\ item \in Snapshots
  BY <1>1, DispatchInv
     DEF Dispatch, IInv, PositionsOK, HoldersOK, Snapshots, scheduleVars, envVars
<1>3. \A u \in Tasks \ {t} : Swept(u) => Swept(u)'
  BY <1>1, <1>2 DEF Swept
<1>4. CASE ~item.linked \/ ~Live(claim[t].owner)
  <2>1. ~Linked(t)
    BY <1>1, <1>2, <1>4 DEF SweepInv, SnapsOK, SnapOK, Linked
  <2>2. ~Awaited(t)'
    BY <1>2, <2>1 DEF Awaited, Linked, Live, Claimed
  <2>3. /\ UNCHANGED launchVars
        /\ \/ Accepts(t, "needs_attention") /\ Transition(t, "needs_attention")
           \/ UNCHANGED status
    BY <1>1, <1>4 DEF Dispatch
  <2>4. Onward
    BY <1>2, <2>3, TransitionOnward DEF TaskStatuses, Terminal
  <2>5. \A u \in Tasks : Waiting(u)' => Claimed(u)
    BY <1>2, <2>3, TransitionAt DEF Waiting, Claimed
  <2> QED BY <1>2, <1>3, <2>2, <2>3, <2>4, <2>5, ListStays
<1>5. CASE LaunchClaim(t, "reconcile", sched[claim[t].owner].rev) /\ UNCHANGED status
  <2>1. "reconcile" \in Origins
    BY DEF Origins
  <2>2. /\ WorkersOK' /\ TokensOK' /\ Kept(t)'
        /\ \A u \in Tasks, o \in Origins : HoldsRow(<<u, o>>) => HoldsRow(<<u, o>>)'
    BY <1>2, <1>5, <2>1, LaunchHolds DEF SweepInv
  <2>3. Onward /\ \A u \in Tasks : Awaited(u)' => Claimed(u)
    BY <1>5, StatusFrame DEF Awaited, Waiting, Claimed
  <2>4. JobOK' /\ SnapsOK'
    BY <1>2, <2>3, JobStay, SnapsStay DEF SweepInv, timerVars
  <2>6. Kept(t)' /\ \A u \in Tasks : Kept(u) => Kept(u)'
    BY <1>2, <2>2 DEF Kept, Held, timerVars, commandVars
  <2> QED BY <1>2, <1>3, <2>2, <2>3, <2>4, <2>6, Assemble
<1> QED BY <1>1, <1>4, <1>5 DEF Dispatch

(* The scheduler starts when nothing is left on the list, and lists again  *)
(* when it is asked to retry.                                              *)
LEMMA StartSweep ==
  ASSUME IInv, SweepInv, Start \/ SupervisorRetry
  PROVE  SweepInv'
<1>1. /\ TableStep
      /\ UNCHANGED <<status, listed, item, timerVars, launchVars, commandVars, dropped>>
      /\ \/ phase = "sweep" /\ listed = {}
         \/ phase' = "list"
  BY StartInv, SupervisorRetryInv DEF Start, SupervisorRetry, taskVars, sweepVars, envVars
<1>2. Onward /\ \A t \in Tasks : Waiting(t)' => Claimed(t)
  BY <1>1, StatusFrame DEF Waiting, Claimed
<1>3. \A t \in Tasks : Swept(t) => Swept(t)'
  BY <1>1 DEF Swept
<1> QED BY <1>1, <1>2, <1>3, ListStays

(* A failing call of the reconciliation: it starts over or gives up, or    *)
(* leaves a row without a Schedule as it is.                               *)
LEMMA SweepFailsSweep ==
  ASSUME IInv, SweepInv, SweepFails
  PROVE  SweepInv'
<1>1. /\ TableStep
      /\ UNCHANGED <<status, claim, sched, timerVars, launchVars, commandVars, dropped>>
  BY SweepFailsInv DEF SweepFails, taskVars, scheduleVars
<1>2. CASE AbandonSweep
  BY <1>1, <1>2, AbandonSweepSweep
<1>3. CASE /\ phase = "dispatch" /\ ~Live(claim[item.id].owner)
           /\ phase' = "sweep" /\ item' = NoItem /\ UNCHANGED listed
  <2>1. Onward /\ \A t \in Tasks : Waiting(t)' => Claimed(t)
    BY <1>1, StatusFrame DEF Waiting, Claimed
  <2>2. \A t \in Tasks : Awaited(t)' /\ Swept(t) => Swept(t)'
    BY <1>1, <1>3 DEF Swept, Awaited, Linked, Live
  <2> QED BY <1>1, <1>3, <2>1, <2>2, ListStays
<1> QED BY <1>2, <1>3 DEF SweepFails

(* A restart: nobody holds a row, and the reconciliation is still to come. *)
LEMMA RestartSweep ==
  ASSUME IInv, SweepInv, Restart
  PROVE  SweepInv'
<1>1. \A w \in Workers : worker'[w].pc = "idle"
  BY DEF Restart, IdleWorker
<1>2. WorkersOK'
  BY <1>1 DEF WorkersOK, WorkerOK, PastStart
<1>3. \A t \in Tasks, o \in Origins : <<t, o>> \in Workers
  BY DEF Workers
<1>4. TokensOK'
  BY DEF Restart, TokensOK
<1>5. JobOK' /\ SnapsOK' /\ HeldOrSwept'
  BY SchedulerAssumption
     DEF Restart, NoJob, NoItem, JobOK, SnapsOK, Snapshots, Active, HeldOrSwept, Swept
<1> QED BY <1>2, <1>4, <1>5 DEF SweepInv
-----------------------------------------------------------------------------

(* The initial states.                                                     *)
LEMMA InitSweep == Init => SweepInv
<1> SUFFICES ASSUME Init PROVE SweepInv
  OBVIOUS
<1>1. WorkersOK
  BY DEF Init, WorkersOK, WorkerOK, PastStart, IdleWorker
<1>2. TokensOK /\ HeldOrSwept
  BY DEF Init, TokensOK, HeldOrSwept, Awaited, Waiting
<1>3. JobOK /\ SnapsOK
  BY SchedulerAssumption DEF Init, NoJob, NoItem, JobOK, SnapsOK, Snapshots, Active
<1> QED BY <1>1, <1>2, <1>3 DEF SweepInv

(* SweepInv holds in every reachable state.                                *)
THEOREM SweepInvariance == Spec => []SweepInv
<1>1. ASSUME IInv, SweepInv, [Next]_vars
      PROVE  SweepInv'
  <2>1. CASE Tick \/ UNCHANGED vars
    <3>1. UNCHANGED <<status, controlVars, timerVars, sweepVars, launchVars, handoff,
                      dropped>>
      BY <2>1 DEF Tick, vars, taskVars, controlVars, timerVars, sweepVars, launchVars,
                  commandVars
    <3> QED BY <1>1, <2>1, <3>1, TickInv, StutterInv, EditSweep
  <2>2. CASE SweepStep \/ SupervisorRetry
    BY <1>1, <2>2, ListPendingSweep, SkipLaunchedSweep, RequeueSweep, FollowRunSweep,
       FollowEndSweep, DispatchSweep, StartSweep DEF SweepStep
  <2>3. CASE Failing
    BY <1>1, <2>3, TimerFailsSweep, SweepFailsSweep, WorkerFailsSweep, CommandFailsSweep
       DEF Failing
  <2> QED BY <1>1, <2>1, <2>2, <2>3, CommandSweep, TimerSweep, WorkerSweep, RestartSweep
          DEF Next, Idle
<1> QED BY InitSweep, <1>1, Invariance, PTL DEF Spec

(* Once the scheduler runs, a claimed invocation of a recurring Schedule   *)
(* that has not started is held by a command, by the timer or by a worker, *)
(* unless a call that failed took it from its holder since the table was   *)
(* last listed, whatever edits, failed passes and crashes came before.     *)
THEOREM NoInvocationLost == Spec => []NoLostInvocation
<1>1. SweepInv => NoLostInvocation
  BY DEF SweepInv, HeldOrSwept, NoLostInvocation, Awaited, Waiting, Swept, Kept, Held,
         HoldsRow, Carried
<1> QED BY SweepInvariance, <1>1, PTL
=============================================================================
