---------------------------- MODULE ToolApprovals ----------------------------
(***************************************************************************)
(* Questions a Run puts to its user and what its tool calls do with the     *)
(* answers: PersistentApprovalBroker (crates/hachimi-approvals),            *)
(* PersistentUserInputBroker (crates/hachimi-user-input), the rows of       *)
(* approval_requests and user_input_requests, and the callers: AuthorizedTool*)
(* (hachimi-agent/src/security_tools.rs), request_user_input and the Forge  *)
(* commands of the workbench (forge_commands.rs).                           *)
(*                                                                          *)
(* A row is decided in the database; the call that waits for it learns the  *)
(* decision through a oneshot channel held in memory, and the Run's status  *)
(* says that a decision is awaited.  The three are written by different     *)
(* actors, in different transactions.  One Run is modelled: the calls of a  *)
(* response of its model (tool_loop.rs runs them concurrently, the ones that *)
(* are not parallel_safe alone, tool_runtime.rs), and the Forge commands its *)
(* user issues beside it.  A life is the time between two starts of the     *)
(* application; every call belongs to one life.                             *)
(*                                                                          *)
(* Failures of the store and the drop of a call that outlives the five      *)
(* seconds of grace after its cancellation are not modelled, nor are the    *)
(* expiry of a question without defaults, which request_user_input never    *)
(* asks, and the questions MCP servers ask in the middle of a call.         *)
(***************************************************************************)
EXTENDS Naturals, FiniteSets

CONSTANTS
  Read,      \* parallel-safe calls outside their grants: session approval
  Effect,    \* calls with a side effect: session approval, claimed
  Command,   \* Forge mutations of the workbench: approval for one use
  Question,  \* request_user_input
  Shared,    \* session calls of one action, resource and host
  NoCall,
  MaxCalls,  \* bound on the calls that begin
  MaxLives   \* bound on starts of the application

Session == Read \cup Effect
Tool == Session \cup Question
Approval == Session \cup Command
Call == Tool \cup Command

ASSUME ApprovalsAssumption ==
  /\ NoCall \notin Call
  /\ Shared \subseteq Session
  /\ Read \cap (Effect \cup Command \cup Question) = {}
  /\ Effect \cap (Command \cup Question) = {}
  /\ Command \cap Question = {}
  /\ MaxCalls \in Nat
  /\ MaxLives \in Nat \ {0}

VARIABLES
  run,      \* runs.status
  life,     \* starts of the application, and the Run's generation
  turn,     \* the executor of the Run is in its turn
  stop,     \* the Run's cancellation token
  row,      \* status of each call's request, or "none"
  born,     \* life in which each call began
  pc,       \* where each call stands
  mail,     \* oneshot channel of each request: empty, closed or a status
  got,      \* what the broker returned to the call
  basis,    \* approval row the call relies on
  late,     \* calls whose tool_timeout_ms ran out
  reply,    \* resolutions committed and not yet sent to the waiter
  killer,   \* where the command that cancels the Run stands
  revokes,  \* that command was issued for a change of permissions
  listed,   \* approvals that command found pending
  ran,      \* history: the approval each call that took effect relied on
  granted   \* history: requests ever approved

runVars == <<run, life, turn, stop>>
callVars == <<pc, got, basis>>
killVars == <<killer, revokes, listed>>
histVars == <<ran, granted>>
vars == <<runVars, row, born, callVars, mail, late, reply, killVars, histVars>>

Waiting == {"waiting_approval", "waiting_user_input"}
Ended == {"succeeded", "failed"}
Closed == {"cancelling"} \cup Ended

Init ==
  /\ run = "running" /\ life = 1 /\ turn = TRUE /\ stop = FALSE
  /\ row = [c \in Call |-> "none"]
  /\ born = [c \in Call |-> 0]
  /\ pc = [c \in Call |-> "idle"]
  /\ mail = [c \in Call |-> "empty"]
  /\ got = [c \in Call |-> "none"]
  /\ basis = [c \in Call |-> NoCall]
  /\ late = {}
  /\ reply = [c \in Call |-> "none"]
  /\ killer = "idle" /\ revokes = FALSE /\ listed = {}
  /\ ran = [c \in Call |-> NoCall]
  /\ granted = {}

------------------------------------------------------------------------------
(* A call up to its question.                                               *)

Goto(c, l) ==
  /\ pc' = [pc EXCEPT ![c] = l]
  /\ late' = IF l = "over" THEN late \ {c} ELSE late

InTool(c) == pc[c] \notin {"idle", "over"}

\* The calls that are not parallel-safe run alone.
Admitted(c) ==
  /\ turn /\ ~stop
  /\ \A d \in Tool : InTool(d) => c \in Read /\ d \in Read

\* The token of the call: the Run's, and the timeout of the tool.  A Forge
\* command has a token nobody cancels.
Halted(c) == c \in Tool /\ (stop \/ c \in late)

SameAuthority(b, c) == b = c \/ {b, c} \subseteq Shared

\* approved_session_tool_authority: an approval of the Session for the same
\* action, resource and host, whichever call or Run asked for it.
Reusable(c) == {b \in Session : row[b] = "approved" /\ SameAuthority(b, c)}

\* A session call first looks for an approval it can reuse.
Begin(c) ==
  /\ pc[c] = "idle"
  /\ Cardinality({d \in Call : pc[d] # "idle"}) < MaxCalls
  /\ c \in Tool => Admitted(c)
  /\ born' = [born EXCEPT ![c] = life]
  /\ \/ \E b \in Reusable(c) :
          /\ c \in Session
          /\ basis' = [basis EXCEPT ![c] = b]
          /\ Goto(c, "use")
     \/ /\ c \in Session => Reusable(c) = {}
        /\ Goto(c, IF c \in Question THEN "ask" ELSE "enter")
        /\ UNCHANGED basis
  /\ UNCHANGED <<runVars, row, got, mail, reply, killVars, histVars>>

\* enter_approval_wait: a Run neither running nor waiting fails the call.
Enter(c) ==
  /\ pc[c] = "enter"
  /\ IF run \in {"running", "waiting_approval"}
       THEN run' = "waiting_approval" /\ Goto(c, "ask")
       ELSE Goto(c, "over") /\ UNCHANGED run
  /\ UNCHANGED <<life, turn, stop, row, born, got, basis, mail, reply,
                 killVars, histVars>>

\* The waiter is registered and the row written.  create_approval does not
\* look at the Run; create_user_input_request needs it running.
Ask(c) ==
  /\ pc[c] = "ask"
  /\ IF c \in Approval
       THEN /\ row' = [row EXCEPT ![c] = "pending"]
            /\ Goto(c, "wait")
            /\ UNCHANGED run
       ELSE IF run = "running"
       THEN /\ row' = [row EXCEPT ![c] = "pending"]
            /\ run' = "waiting_user_input"
            /\ Goto(c, "wait")
       ELSE Goto(c, "over") /\ UNCHANGED <<run, row>>
  /\ UNCHANGED <<life, turn, stop, born, got, basis, mail, reply,
                 killVars, histVars>>

------------------------------------------------------------------------------
(* The wait of the broker: an answer, the expiry or the cancellation.       *)

\* A decision sent from here on reaches nobody.
DropReceiver(c) ==
  /\ mail' = [mail EXCEPT ![c] = "empty"]
  /\ reply' = [reply EXCEPT ![c] = "none"]

MutSkipsLeave(c, outcome) ==
  /\ DropReceiver(c)
  /\ IF outcome = "approved"
       THEN got' = [got EXCEPT ![c] = outcome] /\ Goto(c, "leave")
       ELSE Goto(c, "over") /\ UNCHANGED got

\* What the call does with the broker's outcome: an approval leaves the wait
\* first; the answer of a question is its result.  The receiver is dropped.
Return(c, outcome) ==
  /\ DropReceiver(c)
  /\ IF c \in Approval
       THEN got' = [got EXCEPT ![c] = outcome] /\ Goto(c, "leave")
       ELSE Goto(c, "over") /\ UNCHANGED got

Deliver(c) ==
  /\ pc[c] = "wait"
  /\ mail[c] # "empty"
  /\ Return(c, mail[c])
  /\ UNCHANGED <<runVars, row, born, basis, killVars, histVars>>

\* APPROVAL_TTL of a Forge command, auto_resolution_ms of a question.  The
\* receiver is gone from here on, the sender still listed.
Expire(c) ==
  /\ pc[c] = "wait"
  /\ c \in Command \cup Question
  /\ mail[c] = "empty"
  /\ DropReceiver(c)
  /\ Goto(c, "expire")
  /\ UNCHANGED <<runVars, row, born, got, basis, killVars, histVars>>

\* resolve_approval and resolve_user_input decide a pending row while the Run
\* waits for that kind of answer.
Resolvable(c) ==
  /\ row[c] = "pending"
  /\ born[c] = life
  /\ run = IF c \in Approval THEN "waiting_approval" ELSE "waiting_user_input"

\* An answer to a question lets the Run go on in the same transaction.
Decide(c, decision) ==
  /\ row' = [row EXCEPT ![c] = decision]
  /\ run' = IF c \in Question THEN "running" ELSE run

\* The timer resolves: a denial dated at the expiry is an expiry, a question
\* is answered with its defaults.
ExpireCommit(c) ==
  /\ pc[c] = "expire"
  /\ IF Resolvable(c)
       THEN LET outcome == IF c \in Command THEN "expired" ELSE "resolved"
            IN Decide(c, outcome) /\ Return(c, outcome)
       ELSE Return(c, "error") /\ UNCHANGED <<run, row>>
  /\ UNCHANGED <<life, turn, stop, born, basis, killVars, histVars>>

\* cancel_run_approvals, cancel_run_user_inputs: all that is pending for the
\* Run, and the Run's own status is left as it is.
CancelPending(calls) ==
  row' = [c \in Call |-> IF c \in calls /\ row[c] = "pending"
                           THEN "cancelled" ELSE row[c]]

MutIgnoresTimeout(c) ==
  /\ pc[c] \in {"wait", "expire"}
  /\ Halted(c) /\ c \notin late
  /\ IF c \in Approval
       THEN CancelPending(Approval) /\ Goto(c, "reread") /\ DropReceiver(c) /\ UNCHANGED got
       ELSE CancelPending(Question) /\ Return(c, "error")
  /\ UNCHANGED <<runVars, born, basis, killVars, histVars>>

\* The token fires, even in the middle of the timer's resolution.
Withdraw(c) ==
  /\ pc[c] \in {"wait", "expire"}
  /\ Halted(c)
  /\ IF c \in Approval
       THEN CancelPending(Approval) /\ Goto(c, "reread") /\ DropReceiver(c) /\ UNCHANGED got
       ELSE CancelPending(Question) /\ Return(c, "error")
  /\ UNCHANGED <<runVars, born, basis, killVars, histVars>>

Reread(c) ==
  /\ pc[c] = "reread"
  /\ Return(c, row[c])
  /\ UNCHANGED <<runVars, row, born, basis, killVars, histVars>>

------------------------------------------------------------------------------
(* The call after the decision.                                             *)

\* What the caller makes of the outcome once it has left the wait.
Proceed(c) ==
  /\ got' = [got EXCEPT ![c] = "none"]
  /\ IF got[c] = "approved"
       THEN basis' = [basis EXCEPT ![c] = c] /\ Goto(c, "use")
       ELSE Goto(c, "over") /\ UNCHANGED basis

\* leave_approval_wait reads the Run and then moves it.
Leave(c) ==
  /\ pc[c] = "leave"
  /\ IF run = "waiting_approval"
       THEN Goto(c, "leaving") /\ UNCHANGED <<got, basis>>
       ELSE Proceed(c)
  /\ UNCHANGED <<runVars, row, born, mail, reply, killVars, histVars>>

MutLeaveNeedsWait(c) ==
  /\ pc[c] = "leaving"
  /\ IF run = "waiting_approval"
       THEN run' = "running" /\ Proceed(c)
       ELSE Goto(c, "over") /\ UNCHANGED <<run, got, basis>>
  /\ UNCHANGED <<life, turn, stop, row, born, mail, reply, killVars, histVars>>

LeaveCommit(c) ==
  /\ pc[c] = "leaving"
  /\ IF run \in Waiting \cup {"running"}
       THEN run' = "running" /\ Proceed(c)
       ELSE Goto(c, "over") /\ UNCHANGED <<run, got, basis>>
  /\ UNCHANGED <<life, turn, stop, row, born, mail, reply, killVars, histVars>>

\* The last look at the token: a read goes on to its host, a side effect
\* claims first.  A Forge command claims without looking at a token.
Use(c) ==
  /\ pc[c] = "use"
  /\ Goto(c, IF Halted(c) THEN "over" ELSE IF c \in Read THEN "send" ELSE "claim")
  /\ UNCHANGED <<runVars, row, born, got, basis, mail, reply, killVars, histVars>>

MutClaimsStale(c) ==
  /\ pc[c] = "claim"
  /\ Goto(c, IF run = "running" /\ ~Halted(c) THEN "dispatch" ELSE "over")
  /\ UNCHANGED <<runVars, row, born, got, basis, mail, reply, killVars, histVars>>

\* claim_side_effect_with_authority consumes the approval in the transaction
\* of the claim; a halted tool then takes its claim back.
Claim(c) ==
  /\ pc[c] = "claim"
  /\ Goto(c, IF run = "running" /\ row[basis[c]] = "approved" /\ ~Halted(c)
               THEN "dispatch" ELSE "over")
  /\ UNCHANGED <<runVars, row, born, got, basis, mail, reply, killVars, histVars>>

MutDispatchesAnyway(c) ==
  /\ pc[c] = "dispatch"
  /\ Goto(c, "send")
  /\ UNCHANGED <<runVars, row, born, got, basis, mail, reply, killVars, histVars>>

\* mark_side_effect_dispatched_if_current reads the Run in its transaction.  A
\* token that fires after the claim is seen before the mark or not.
Dispatch(c) ==
  /\ pc[c] = "dispatch"
  /\ \/ Goto(c, IF run = "running" THEN "send" ELSE "over")
     \/ Halted(c) /\ Goto(c, "over")
  /\ UNCHANGED <<runVars, row, born, got, basis, mail, reply, killVars, histVars>>

\* The host call, behind the mark or the look at the token and, for a tool, the
\* plugins' tool.before hook.  Nobody asks for the Run here; a hook or the host
\* may fail first.
Execute(c) ==
  /\ pc[c] = "send"
  /\ ran' \in {ran, [ran EXCEPT ![c] = basis[c]]}
  /\ Goto(c, "over")
  /\ UNCHANGED <<runVars, row, born, got, basis, mail, reply, killVars, granted>>

\* The dispatch of a tool ends once: by its result, the Run's token or this.
Timeout(c) ==
  /\ c \in Tool /\ InTool(c)
  /\ ~Halted(c)
  /\ late' = late \cup {c}
  /\ UNCHANGED <<runVars, row, born, callVars, mail, reply, killVars, histVars>>

------------------------------------------------------------------------------
(* The user: answers, and cancels the Run.                                  *)

\* The waiter of a call is told once, if it still listens.
Listens(c) == pc[c] = "wait" /\ mail[c] = "empty"

\* An approval answered after its expiry is written as expired; a question
\* takes the answer at any time.
Decided(c, decision) ==
  IF pc[c] = "expire" /\ c \in Command THEN "expired" ELSE decision

Resolve(c, decision) ==
  /\ Resolvable(c)
  /\ decision \in IF c \in Approval THEN {"approved", "denied"}
                                     ELSE {"resolved", "cancelled"}
  /\ Decide(c, Decided(c, decision))
  /\ reply' = IF Listens(c) THEN [reply EXCEPT ![c] = Decided(c, decision)] ELSE reply
  /\ granted' = IF Decided(c, decision) = "approved" THEN granted \cup {c} ELSE granted
  /\ UNCHANGED <<life, turn, stop, born, callVars, mail, late, killVars, ran>>

\* The waiter is taken from the map and told; nobody may listen any more.
Send(c) ==
  /\ reply[c] # "none"
  /\ reply' = [reply EXCEPT ![c] = "none"]
  /\ mail' = IF Listens(c) THEN [mail EXCEPT ![c] = reply[c]] ELSE mail
  /\ UNCHANGED <<runVars, row, born, callVars, late, killVars, histVars>>

\* cancel_workbench_run.  The registry knows the Run while its executor is in
\* its turn.
Kill ==
  /\ killer = "idle"
  /\ killer' = "list" /\ revokes' = FALSE
  /\ stop' = (stop \/ turn)
  /\ UNCHANGED <<run, life, turn, row, born, callVars, mail, late, reply, listed, histVars>>

\* clear_session_extra_authorities takes the Session's approvals back, in a
\* transaction of its own.
Clear ==
  /\ killer = "idle"
  /\ killer' = "clear"
  /\ row' = [c \in Call |-> IF c \in Session /\ row[c] = "approved"
                              THEN "cancelled" ELSE row[c]]
  /\ UNCHANGED <<runVars, born, callVars, mail, late, reply, revokes, listed, histVars>>

\* cancel_runs_for_permission_owner, behind Clear or for a policy that covers
\* less than before: only a Run that has not ended is cancelled.
CancelRuns ==
  /\ killer \in {"idle", "clear"}
  /\ IF run \in Ended
       THEN killer' = "done" /\ UNCHANGED <<stop, revokes>>
       ELSE killer' = "list" /\ revokes' = TRUE /\ stop' = (stop \/ turn)
  /\ UNCHANGED <<run, life, turn, row, born, callVars, mail, late, reply, listed, histVars>>

KillList ==
  /\ killer = "list"
  /\ killer' = "cancel"
  /\ listed' = {c \in Approval : row[c] = "pending"}
  /\ UNCHANGED <<runVars, row, born, callVars, mail, late, reply, revokes, histVars>>

\* The listed waiters get their rows as they are now, cancelled or answered.
KillCancel ==
  /\ killer = "cancel"
  /\ killer' = "inputs"
  /\ CancelPending(Approval)
  /\ mail' = [c \in Call |-> IF c \in listed /\ Listens(c)
                               THEN row'[c] ELSE mail[c]]
  /\ listed' = {}
  /\ UNCHANGED <<runVars, born, callVars, late, reply, revokes, histVars>>

\* The waiters of pending questions are dropped without an answer.
KillInputs ==
  /\ killer = "inputs"
  /\ killer' = "close"
  /\ CancelPending(Question)
  /\ mail' = [c \in Call |-> IF c \in Question /\ row[c] = "pending" /\ Listens(c)
                               THEN "error" ELSE mail[c]]
  /\ UNCHANGED <<runVars, born, callVars, late, reply, revokes, listed, histVars>>

\* A change of permissions also ends a Run that waits to be recovered.
KillClose ==
  /\ killer = "close"
  /\ killer' = "done" /\ revokes' = FALSE
  /\ run' = IF run \in Waiting \cup {"running"} THEN "cancelling"
            ELSE IF revokes /\ run = "recovering" THEN "failed" ELSE run
  /\ UNCHANGED <<life, turn, stop, row, born, callVars, mail, late, reply, listed, histVars>>

------------------------------------------------------------------------------
(* The turn and the application.                                            *)

\* The transitions RunStatus accepts at the end of a turn; a refused one is an
\* error and leaves the row as it is.  "failed" stands for cancelled too.
Ends(ending) ==
  run \in IF ending = "succeeded" THEN {"running"}
          ELSE Waiting \cup {"running", "cancelling"}

EndTurn(ending) ==
  /\ turn
  /\ \A c \in Tool : ~InTool(c)
  /\ turn' = FALSE /\ stop' = FALSE
  /\ run' = IF Ends(ending) THEN ending ELSE run
  /\ UNCHANGED <<life, row, born, callVars, mail, late, reply, killVars, histVars>>

\* Memory is lost; recover_interrupted expires pending approvals, interrupts
\* pending questions and hands the Run to recovery.  Approved rows stay.
Interrupted ==
  row' = [c \in Call |-> IF row[c] # "pending" THEN row[c]
                         ELSE IF c \in Approval THEN "expired" ELSE "interrupted"]

Restart ==
  /\ life < MaxLives
  /\ life' = life + 1
  /\ Interrupted
  /\ run' = IF run \in Waiting \cup {"running", "cancelling"} THEN "recovering" ELSE run
  /\ turn' = FALSE /\ stop' = FALSE
  /\ pc' = [c \in Call |-> IF pc[c] = "idle" THEN "idle" ELSE "over"]
  /\ mail' = [c \in Call |-> "empty"]
  /\ got' = [c \in Call |-> "none"]
  /\ late' = {}
  /\ reply' = [c \in Call |-> "none"]
  /\ killer' = "idle" /\ revokes' = FALSE /\ listed' = {}
  /\ UNCHANGED <<born, basis, histVars>>

\* The recovered Run runs again, one generation further (RunRecovery): a
\* cancellation that found it recovering has changed nothing and is forgotten.
\* The two commands are not interleaved.
Resume ==
  /\ run = "recovering"
  /\ killer \in {"idle", "done"}
  /\ run' = "running" /\ turn' = TRUE
  /\ killer' = "idle"
  /\ UNCHANGED <<life, stop, row, born, callVars, mail, late, reply, revokes, listed, histVars>>

------------------------------------------------------------------------------

CallStep(c) ==
  \/ Enter(c) \/ Ask(c)
  \/ Deliver(c) \/ ExpireCommit(c) \/ Withdraw(c) \/ Reread(c)
  \/ Leave(c) \/ LeaveCommit(c) \/ Use(c) \/ Claim(c) \/ Dispatch(c)
  \/ Execute(c)

User ==
  \/ \E c \in Call, d \in {"approved", "denied", "resolved", "cancelled"} : Resolve(c, d)
  \/ Kill \/ Clear \/ CancelRuns

Killer == KillList \/ KillCancel \/ KillInputs \/ KillClose

Next ==
  \/ \E c \in Call : Begin(c) \/ CallStep(c) \/ Expire(c) \/ Timeout(c) \/ Send(c)
  \/ User \/ Killer
  \/ \E ending \in {"succeeded", "failed"} : EndTurn(ending)
  \/ Restart \/ Resume

Spec == Init /\ [][Next]_vars

\* A call goes on while the application runs, its tool timeout and the expiry
\* of its approval come; the user need not answer.
Fairness ==
  /\ \A c \in Call : WF_vars(CallStep(c))
  /\ \A c \in Tool : WF_vars(Timeout(c))
  /\ \A c \in Command : WF_vars(Expire(c))

FairSpec == Spec /\ Fairness

------------------------------------------------------------------------------
(* Properties.                                                              *)

ApprovalStatuses == {"none", "pending", "approved", "denied", "expired", "cancelled"}
QuestionStatuses == {"none", "pending", "resolved", "cancelled", "interrupted"}
Outcomes == ApprovalStatuses \cup QuestionStatuses \cup {"error"}

\* Each request keeps to the statuses of its table and each actor to its
\* steps: a restart interrupts the pending questions and expires the pending
\* approvals (recover_interrupted).
TypeOK ==
  /\ run \in {"running", "recovering"} \cup Waiting \cup Closed
  /\ life \in 1..MaxLives /\ turn \in BOOLEAN /\ stop \in BOOLEAN
  /\ row \in [Call -> ApprovalStatuses \cup QuestionStatuses]
  /\ \A c \in Approval : row[c] \in ApprovalStatuses
  /\ \A c \in Question : row[c] \in QuestionStatuses
  /\ born \in [Call -> 0..MaxLives]
  /\ pc \in [Call -> {"idle", "enter", "ask", "wait", "expire", "reread",
                      "leave", "leaving", "use", "claim", "dispatch", "send", "over"}]
  /\ mail \in [Call -> Outcomes \cup {"empty"}]
  /\ got \in [Call -> Outcomes]
  /\ basis \in [Call -> Approval \cup {NoCall}]
  /\ late \subseteq Tool
  /\ reply \in [Call -> Outcomes]
  /\ killer \in {"idle", "clear", "list", "cancel", "inputs", "close", "done"}
  /\ revokes \in BOOLEAN
  /\ listed \subseteq Approval
  /\ ran \in [Call -> Approval \cup {NoCall}]
  /\ granted \subseteq Approval

\* What takes effect was approved by the user, for this very call or, within
\* the Session, for one of the same action, resource and host: whatever
\* timers, cancellations and restarts did to the request meanwhile.
GrantCoversUse ==
  \A c \in Call : ran[c] # NoCall => ran[c] \in granted /\ SameAuthority(ran[c], c)

\* The calls implement the ledger of grants: whatever the timers, the commands
\* that cancel or revoke and a restart do to a request and to the calls that
\* found it approved, a decision is never replaced and nothing is claimed on an
\* approval that was taken back meanwhile.
RequestOf(c) == CASE row[c] = "none" -> "none"
                  [] row[c] = "pending" -> "open"
                  [] row[c] \in {"approved", "resolved"} -> "given"
                  [] OTHER -> IF c \in granted THEN "revoked" ELSE "closed"

Requests == [c \in Call |-> RequestOf(c)]

\* A call with a side effect holds its claim until its host took it.
Claims == [c \in Call |-> IF c \notin Read /\ pc[c] \in {"dispatch", "send"}
                            THEN basis[c] ELSE NoCall]

Ledger == INSTANCE GrantLedger WITH request <- Requests, claim <- Claims, used <- ran

ImplementsLedger == Ledger!LedgerSpec

\* A read the user approved, waiting alone or beside others, comes to its host
\* unless the Run was stopped or the tool had timed out: the moves of the Run's
\* status by the other waiters do not lose the answer.
AnswerCounts ==
  [][\A c \in Read :
       row[c] = "approved" /\ InTool(c) /\ pc'[c] = "over" /\ life' = life
         => pc[c] = "send" \/ Halted(c)]_vars

\* A Run waits only while somebody waits: for an approval while a call is
\* between enter_approval_wait and leave_approval_wait; for an answer while a
\* question is open, or for ever, once a question was withdrawn
\* (cancel_run_user_inputs leaves runs.status alone).
WaitHasOwner ==
  /\ run = "waiting_approval" =>
       \E c \in Approval : pc[c] \in {"ask", "wait", "expire", "reread", "leave", "leaving"}
  /\ run = "waiting_user_input" =>
       \E q \in Question : born[q] = life /\ row[q] \in {"pending", "cancelled"}

\* Once the command that cancels the Run has returned, no call of that life is
\* let through to its host any more, though calls and their approvals may be
\* under way.  A call that was let through before may still take effect: see
\* Execute.
NothingAdmittedAfterStop ==
  [][killer = "done" /\ life' = life
       => \A c \in Call : pc'[c] = "send" => pc[c] = "send"]_vars

\* Every call comes back, whether or not anybody answers.
CallsEnd == \A c \in Call : InTool(c) ~> ~InTool(c)

\* Approvals of an earlier life are not acted upon after a restart.
OldApprovalVoid ==
  \A c \in Call : ran[c] # NoCall => born[ran[c]] = born[c]
=============================================================================
