--------------------------- MODULE ChannelDispatch ---------------------------
(***************************************************************************)
(* How an accepted message of a channel becomes a Run and its answer: the   *)
(* gateway loop of the desktop (gateway_runtime.rs) claims one row of       *)
(* channel_ingress at a time and process_ingress                            *)
(* (channel_agent_dispatch.rs) creates the Run, executes it, reads how it   *)
(* ended, enqueues the reply and closes the row.                            *)
(*                                                                          *)
(* The composition with ChannelIntake: both processes write the row.  The   *)
(* desktop may die anywhere.  The claim it held runs out, a reconciliation  *)
(* gives the row back and the next claim goes on with the Run of the first; *)
(* meanwhile the automatic recovery (workbench_commands.rs) or the user     *)
(* resumes or cancels that same Run.                                        *)
(*                                                                          *)
(* All messages belong to one Session.  Replies are the outbox's            *)
(* idempotency keys: enqueueing one again adds nothing; what becomes of     *)
(* them is ChannelOutbox.  A Run's states that no decision here tells apart *)
(* are one: "running" from preparing to cancelling, "ended" every terminal  *)
(* one but succeeded.                                                       *)
(***************************************************************************)
EXTENDS ChannelIntake

CONSTANT NoMessage

ASSUME DispatchAssumption == NoMessage \notin Message

VARIABLES
  control,    \* the messages that are /connect, /new, /status or /link
  claimOver,  \* claim_expires_at_ms is null or past
  run,        \* the Run of each message
  exec,       \* who registered the Run with the executor
  resumer,    \* a recovery is resolved, its executor not yet spawned
  replies,    \* reactive deliveries enqueued, by their final_item_id
  at, msg,    \* where the loop stands, with which row
  look,       \* the Run's status in the loop's snapshot
  want        \* the reply it has decided on

rowVars == <<status, claimOver>>
runVars == <<run, exec, resumer>>
loopVars == <<at, msg, look, want>>
dispatchVars == <<claimOver, runVars, replies, loopVars>>
vars == <<control, intakeVars, status, faults, dispatchVars>>

Active == {"queued", "running", "recovering", "deciding"}
RunStatuses == Active \union {"none", "succeeded", "ended"}
Replies == {"answer", "attention", "grant", "control"}
Places == {"idle", "claimed", "launched", "prepared", "executing", "read",
           "enqueue", "finish", "failing"}

TypeOK ==
  /\ IntakeType
  /\ control \subseteq Message
  /\ claimOver \in [Message -> BOOLEAN]
  /\ run \in [Message -> RunStatuses]
  /\ exec \in [Message -> {"none", "loop", "resumer"}]
  /\ resumer \in [Message -> BOOLEAN]
  /\ replies \in [Message -> SUBSET Replies]
  /\ at \in Places
  /\ msg \in Message \union {NoMessage}
  /\ (at = "idle") = (msg = NoMessage)
  /\ look \in RunStatuses
  /\ want \in Replies

Init ==
  /\ IntakeInit
  /\ control \in SUBSET (Message \ Malformed)
  /\ claimOver = [m \in Message |-> TRUE]
  /\ run = [m \in Message |-> "none"]
  /\ exec = [m \in Message |-> "none"]
  /\ resumer = [m \in Message |-> FALSE]
  /\ replies = [m \in Message |-> {}]
  /\ at = "idle"
  /\ msg = NoMessage
  /\ look = "none"
  /\ want = "attention"

------------------------------------------------------------------------------
(* The loop.                                                               *)

Goto(place) == at' = place /\ UNCHANGED msg

Rest ==
  /\ at' = "idle"
  /\ msg' = NoMessage
  /\ look' = "none"
  /\ want' = "attention"

SetRow(m, s, over) ==
  /\ status' = [status EXCEPT ![m] = s]
  /\ claimOver' = [claimOver EXCEPT ![m] = over]

(* A claim that leaves rows with a Run to whoever claimed them first.      *)
MutClaimsNew(m) == status[m] = "accepted"

(* claim_next_ingress.                                                     *)
Claimable(m) ==
  \/ status[m] = "accepted"
  \/ status[m] = "run_created" /\ claimOver[m]

Claim(m) ==
  /\ at = "idle"
  /\ Claimable(m)
  /\ SetRow(m, "claimed", FALSE)
  /\ at' = "claimed"
  /\ msg' = m
  /\ UNCHANGED <<look, want, runVars, replies, faults, intakeVars>>

(* process_control_command.                                                *)
Command ==
  /\ at = "claimed"
  /\ msg \in control
  /\ want' = "control"
  /\ Goto("enqueue")
  /\ UNCHANGED <<look, rowVars, runVars, replies, faults, intakeVars>>

(* A launch that does not count the Session's active Runs.                 *)
MutCountsNoRuns ==
  LET m == msg
      Known == run[m] # "none" /\ status[m] \in {"claimed", "run_created"}
      Fresh == /\ run[m] = "none"
               /\ status[m] = "claimed"
  IN  /\ at = "claimed"
      /\ m \notin control
      /\ IF Known \/ Fresh
           THEN /\ status' = [status EXCEPT ![m] = "run_created"]
                /\ run' = IF Fresh THEN [run EXCEPT ![m] = "queued"] ELSE run
                /\ look' = run'[m]
                /\ Goto("launched")
           ELSE Goto("failing") /\ UNCHANGED <<status, run, look>>
      /\ UNCHANGED <<claimOver, exec, resumer, replies, want, faults, intakeVars>>

(* create_channel_agent_run: the Run this message's key already names, or a *)
(* new one when no Run of the Session is active.                            *)
Launch ==
  LET m == msg
      Known == run[m] # "none" /\ status[m] \in {"claimed", "run_created"}
      Fresh == /\ run[m] = "none"
               /\ status[m] = "claimed"
               /\ \A n \in Message : run[n] \notin Active
  IN  /\ at = "claimed"
      /\ m \notin control
      /\ IF Known \/ Fresh
           THEN /\ status' = [status EXCEPT ![m] = "run_created"]
                /\ run' = IF Fresh THEN [run EXCEPT ![m] = "queued"] ELSE run
                /\ look' = run'[m]
                /\ Goto("launched")
           ELSE Goto("failing") /\ UNCHANGED <<status, run, look>>
      /\ UNCHANGED <<claimOver, exec, resumer, replies, want, faults, intakeVars>>

Prepare ==
  /\ at = "launched"
  /\ Goto("prepared")
  /\ UNCHANGED <<look, want, rowVars, runVars, replies, faults, intakeVars>>

(* The grants drifted or an attachment cannot be prepared: the Run is       *)
(* interrupted, which a Run in some states refuses.                         *)
Interruptible == {"queued", "running"}

PrepareFails ==
  /\ at = "launched"
  /\ IF run[msg] \in Interruptible
       THEN /\ run' = [run EXCEPT ![msg] = "ended"]
            /\ want' = "grant"
            /\ Goto("enqueue")
       ELSE Goto("failing") /\ UNCHANGED <<run, want>>
  /\ UNCHANGED <<look, exec, resumer, rowVars, replies, faults, intakeVars>>

(* Only a Run queued in the snapshot of the launch is executed, and only if *)
(* no executor has registered it.                                           *)
Execute ==
  /\ at = "prepared"
  /\ IF look = "queued" /\ exec[msg] = "none"
       THEN exec' = [exec EXCEPT ![msg] = "loop"] /\ Goto("executing")
       ELSE Goto("read") /\ UNCHANGED exec
  /\ UNCHANGED <<look, want, run, resumer, rowVars, replies, faults, intakeVars>>

(* Every Run that is over has an answer.                                   *)
MutVerdict(s) == IF s \in {"succeeded", "ended"} THEN "answer" ELSE "attention"

(* The status after the execution decides the reply.                       *)
Verdict(s) == IF s = "succeeded" THEN "answer" ELSE "attention"

Read ==
  /\ at = "read"
  /\ want' = Verdict(run[msg])
  /\ Goto("enqueue")
  /\ UNCHANGED <<look, rowVars, runVars, replies, faults, intakeVars>>

Enqueue ==
  /\ at = "enqueue"
  /\ replies' = [replies EXCEPT ![msg] = @ \union {want}]
  /\ Goto("finish")
  /\ UNCHANGED <<look, want, rowVars, runVars, faults, intakeVars>>

(* No stable output, an account that is not healthy, a failed statement.   *)
Errs ==
  /\ at \in {"claimed", "read", "enqueue"}
  /\ Goto("failing")
  /\ UNCHANGED <<look, want, rowVars, runVars, replies, faults, intakeVars>>

(* finish_control_ingress wants the row claimed, finish_ingress wants it    *)
(* run_created.                                                             *)
Final(w) == IF w \in {"answer", "control"} THEN "completed" ELSE "needs_attention"

Finish ==
  /\ at = "finish"
  /\ IF status[msg] = (IF want = "control" THEN "claimed" ELSE "run_created")
       THEN SetRow(msg, Final(want), TRUE) /\ Rest
       ELSE Goto("failing") /\ UNCHANGED <<rowVars, look, want>>
  /\ UNCHANGED <<runVars, replies, faults, intakeVars>>

(* fail_ingress, whose own failure is ignored.                             *)
Fail ==
  /\ at = "failing"
  /\ \/ IF status[msg] \in {"claimed", "run_created"}
          THEN SetRow(msg, "needs_attention", TRUE) /\ UNCHANGED faults
          ELSE UNCHANGED <<rowVars, faults>>
     \/ faults < MaxFaults /\ faults' = faults + 1 /\ UNCHANGED rowVars
  /\ Rest
  /\ UNCHANGED <<runVars, replies, intakeVars>>

------------------------------------------------------------------------------
(* The claim's expiry and reconcile_startup.  Under a live loop the claim   *)
(* of a row without a Run runs out only when the machine stops for a while; *)
(* that of a row with a Run runs out whenever the Run takes a minute.       *)
Stalled(m) == msg = m /\ status[m] = "claimed"

Expire(m) ==
  /\ status[m] \in {"claimed", "run_created"}
  /\ ~claimOver[m]
  /\ IF Stalled(m) THEN faults < MaxFaults /\ faults' = faults + 1
                   ELSE UNCHANGED faults
  /\ claimOver' = [claimOver EXCEPT ![m] = TRUE]
  /\ UNCHANGED <<status, runVars, replies, loopVars, intakeVars>>

(* A reconciliation that forgets to ask for the status.                    *)
MutLapsed(m) == status[m] # "absent" /\ claimOver[m]

Lapsed(m) == status[m] = "claimed" /\ claimOver[m]

Reconcile ==
  /\ \E m \in Message : Lapsed(m)
  /\ status' = [m \in Message |->
                 IF Lapsed(m)
                   THEN IF run[m] = "none" THEN "accepted" ELSE "run_created"
                   ELSE status[m]]
  /\ UNCHANGED <<claimOver, runVars, replies, loopVars, faults, intakeVars>>

------------------------------------------------------------------------------
(* The executor, and what else happens to the Runs.                        *)

(* The executor leaves; the loop, if it was its caller, reads on.          *)
Leave(m) ==
  /\ exec' = [exec EXCEPT ![m] = "none"]
  /\ IF exec[m] = "loop" THEN Goto("read") ELSE UNCHANGED <<at, msg>>

ExecBegin(m) ==
  /\ exec[m] # "none"
  /\ run[m] = "queued"
  /\ run' = [run EXCEPT ![m] = "running"]
  /\ UNCHANGED <<exec, resumer, replies, loopVars, rowVars, faults, intakeVars>>

(* The lane was reset while the executor waited for it: the Run stays       *)
(* queued.                                                                  *)
ExecRefused(m) ==
  /\ exec[m] # "none"
  /\ run[m] = "queued"
  /\ Leave(m)
  /\ UNCHANGED <<run, resumer, replies, look, want, rowVars, faults, intakeVars>>

ExecEnd(m) ==
  /\ exec[m] # "none"
  /\ run[m] # "queued"
  /\ \/ run[m] = "running" /\ \E end \in {"succeeded", "ended"} :
                                 run' = [run EXCEPT ![m] = end]
     \/ run[m] # "running" /\ UNCHANGED run
  /\ Leave(m)
  /\ UNCHANGED <<resumer, replies, look, want, rowVars, faults, intakeVars>>

(* The user cancels a Run that is not executing; one that is ends by        *)
(* ExecEnd.                                                                 *)
UserCancel(m) ==
  /\ run[m] \in Active \ {"running"}
  /\ run' = [run EXCEPT ![m] = "ended"]
  /\ UNCHANGED <<exec, resumer, replies, loopVars, rowVars, faults, intakeVars>>

(* resolve_run_recovery, for an eligible Run or by the user's decision,     *)
(* queues the Run again; launch_recovered_workbench_run then executes it.   *)
Resume(m) ==
  /\ run[m] \in {"recovering", "deciding"}
  /\ run' = [run EXCEPT ![m] = "queued"]
  /\ resumer' = [resumer EXCEPT ![m] = TRUE]
  /\ UNCHANGED <<exec, replies, loopVars, rowVars, faults, intakeVars>>

Spawn(m) ==
  /\ resumer[m]
  /\ resumer' = [resumer EXCEPT ![m] = FALSE]
  /\ exec' = IF exec[m] = "none" THEN [exec EXCEPT ![m] = "resumer"] ELSE exec
  /\ UNCHANGED <<run, replies, loopVars, rowVars, faults, intakeVars>>

(* The desktop dies; the next start finds the Runs that were executing and  *)
(* marks each for recovery, by itself or by the user.                       *)
DesktopCrash ==
  /\ faults < MaxFaults
  /\ faults' = faults + 1
  /\ \E automatic \in SUBSET Message :
       run' = [m \in Message |->
                IF run[m] # "running" THEN run[m]
                ELSE IF m \in automatic THEN "recovering" ELSE "deciding"]
  /\ exec' = [m \in Message |-> "none"]
  /\ resumer' = [m \in Message |-> FALSE]
  /\ Rest
  /\ UNCHANGED <<rowVars, replies, intakeVars>>

------------------------------------------------------------------------------
LoopStep ==
  \/ \E m \in Message : Claim(m)
  \/ Command \/ Launch \/ Prepare \/ PrepareFails \/ Execute \/ Read
  \/ Enqueue \/ Errs \/ Finish \/ Fail

ExecStep(m) == ExecBegin(m) \/ ExecRefused(m) \/ ExecEnd(m)

Dispatch ==
  \/ LoopStep
  \/ Reconcile
  \/ DesktopCrash
  \/ \E m \in Message :
       Expire(m) \/ ExecStep(m) \/ UserCancel(m) \/ Resume(m) \/ Spawn(m)

Next ==
  /\ \/ Intake /\ UNCHANGED dispatchVars
     \/ Dispatch
  /\ UNCHANGED control

Spec == Init /\ [][Next]_vars

(* The desktop's loop goes on, a claim runs out, a reconciliation comes     *)
(* every 30 seconds, and a turn is bounded by its budget.  Nothing is       *)
(* assumed of the intake, the recoveries and the user.                      *)
Fairness ==
  /\ WF_vars(LoopStep /\ UNCHANGED control)
  /\ WF_vars(Reconcile /\ UNCHANGED control)
  /\ WF_vars((\E m \in Message : Expire(m)) /\ UNCHANGED control)
  /\ WF_vars((\E m \in Message : ExecStep(m)) /\ UNCHANGED control)

FairSpec == Spec /\ Fairness

------------------------------------------------------------------------------
Settled == {"completed", "needs_attention"}

(* process_ingress: what a chat is told is true.  An answer is enqueued     *)
(* only for a Run that succeeded; a row is completed only when its answer   *)
(* or the response to its command is in the outbox.                         *)
RepliesTruthful ==
  \A m \in Message :
    /\ "answer" \in replies[m] => run[m] = "succeeded"
    /\ status[m] = "completed" => replies[m] \intersect {"answer", "control"} # {}

(* create_channel_agent_run_inner: whatever crashes, retries and resumes    *)
(* happen, a chat's Session never has two Runs that are not over, and no    *)
(* row beyond its launch is without a Run.                                  *)
OneRunPerChat ==
  /\ Cardinality({m \in Message : run[m] \in Active}) <= 1
  /\ \A m \in Message : status[m] = "run_created" => run[m] # "none"

(* serve_loopback: a hook answered with success is in the table, through    *)
(* concurrent requests and crashes of both processes.                       *)
HookAckDurable ==
  \A m \in Hook : platform[m] = "acked" => status[m] # "absent"

(* finish_ingress, fail_ingress, reconcile_startup: a settled row is never  *)
(* taken up again.                                                          *)
SettledForGood ==
  [][\A m \in Message : status[m] \in Settled => status'[m] = status[m]]_vars

(* gateway_runtime.rs: every accepted message is settled in the end.       *)
Handled ==
  \A m \in Message : status[m] = "accepted" ~> status[m] \in Settled

(* docs/references/enterprise/normalized/DINGTALK-API-20260730.md:7:        *)
(* stream events are acknowledged only after durable ingress acceptance.    *)
(* Weaker: an event the platform has been told is taken is in the table or  *)
(* still on its way there.                                                  *)
AckedIsKept ==
  \A m \in Stream \ Malformed :
    platform[m] = "acked" =>
      status[m] # "absent" \/ m \in inbox \union queue \/ calls[m] > 0

(* docs/adr/0005: channel ingress survives restarts of the app.  When a     *)
(* message's Run has succeeded and its row is settled, the chat has the     *)
(* answer.                                                                  *)
AnswerArrives ==
  \A m \in Message :
    run[m] = "succeeded" /\ status[m] \in Settled => "answer" \in replies[m]
==============================================================================
