---------------------------- MODULE ChannelOutbox ----------------------------
(***************************************************************************)
(* The outbox of the channel gateway: the channel_outbox table and the      *)
(* workers that send its rows (crates/hachimi-gateway/src/durable.rs).      *)
(*                                                                          *)
(* Two processes share the table: the desktop, whose gateway loop sends one *)
(* delivery per round (gateway_runtime.rs), and the --gateway process,      *)
(* which sends on every heartbeat and serves loopback clients               *)
(* (gateway_process.rs).  A worker is one such sequential loop.  Each       *)
(* database statement of a delivery is a step of its own: the claim, the    *)
(* check of the authorization after it, the read and the write of           *)
(* mark_delivery_dispatched, the call of the provider, the read and the     *)
(* write of finish_delivery.  Workers die anywhere; reconcile_startup runs  *)
(* at any moment, for either process.                                       *)
(*                                                                          *)
(* Time is the claim's expiry only: a claim of CLAIM_TTL_MS (60 s) runs out *)
(* when its worker is dead, when the provider takes longer than that (a     *)
(* media upload alone may take 120 s), or, MaxStalls times, under a live    *)
(* worker stopped between two statements, as when the machine sleeps.  The  *)
(* delay before a retry is not modelled.  Of the account's and the           *)
(* authorization's revisions a row keeps whether they have moved since.     *)
(***************************************************************************)
EXTENDS Naturals, FiniteSets

CONSTANTS
  Delivery,     \* idempotency keys: enqueueing one again changes nothing
  Worker,       \* send loops of the two processes
  NoWorker, NoDelivery,
  MaxAttempts,  \* MAX_DELIVERY_ATTEMPTS
  MaxCrashes,   \* bound on deaths of a worker
  MaxStalls     \* bound on claims that run out under a live worker not sending

ASSUME OutboxAssumption ==
  /\ NoWorker \notin Worker
  /\ NoDelivery \notin Delivery
  /\ MaxAttempts \in Nat \ {0}
  /\ MaxCrashes \in Nat
  /\ MaxStalls \in Nat

VARIABLES
  status,      \* channel_outbox.status, or "absent"
  attempt,
  token,       \* claim_token: a fresh one per claim, named by its worker
  expired,     \* claim_expires_at_ms is in the past
  dispatched,  \* dispatched_at_ms is set
  stale,       \* account or authorization edited since the row was written
  pc, work,    \* where each worker stands, with which row
  seen,        \* claim token a worker read for its next write
  verdict,     \* what the provider told a worker
  sent,        \* history: calls in which the platform took a message or part of it
  asked,       \* history: how often a row was put back because its provider
               \* answered that it may be sent again
  crashes, stalls

rowVars == <<status, attempt, token, expired, dispatched>>
workerVars == <<pc, work, seen, verdict>>
calls == <<sent, asked>>
vars == <<rowVars, stale, workerVars, calls, crashes, stalls>>

Waiting == {"pending", "retry_scheduled"}
Final == {"delivered", "indeterminate", "permanent_failure"}
Verdicts == {"delivered", "retryable", "rejected", "unknown"}

Init ==
  /\ status = [d \in Delivery |-> "absent"]
  /\ attempt = [d \in Delivery |-> 0]
  /\ token = [d \in Delivery |-> NoWorker]
  /\ expired = [d \in Delivery |-> FALSE]
  /\ dispatched = [d \in Delivery |-> FALSE]
  /\ stale = [d \in Delivery |-> FALSE]
  /\ pc = [w \in Worker |-> "idle"]
  /\ work = [w \in Worker |-> NoDelivery]
  /\ seen = [w \in Worker |-> NoWorker]
  /\ verdict = [w \in Worker |-> "unknown"]
  /\ sent = [d \in Delivery |-> 0]
  /\ asked = [d \in Delivery |-> 0]
  /\ crashes = 0
  /\ stalls = 0

------------------------------------------------------------------------------
(* The account and the enqueueing of a reply.                              *)

(* The revisions only grow: every row written so far is stale from now on   *)
(* (of a settled row nobody asks).                                          *)
Edit ==
  /\ stale' = [d \in Delivery |-> status[d] \in Waiting \cup {"claimed"}]
  /\ UNCHANGED <<rowVars, workerVars, calls, crashes, stalls>>

(* insert_delivery, for an account that is healthy at that moment.         *)
Enqueue(d) ==
  /\ status[d] = "absent"
  /\ status' = [status EXCEPT ![d] = "pending"]
  /\ UNCHANGED <<attempt, token, expired, dispatched, stale, workerVars,
                 calls, crashes, stalls>>

------------------------------------------------------------------------------
(* A worker.                                                               *)

At(w, here) == pc[w] = here

Goto(w, there) ==
  /\ pc' = [pc EXCEPT ![w] = there]
  /\ UNCHANGED work

Drop(w) ==
  /\ pc' = [pc EXCEPT ![w] = "idle"]
  /\ work' = [work EXCEPT ![w] = NoDelivery]
  /\ seen' = [seen EXCEPT ![w] = NoWorker]
  /\ verdict' = [verdict EXCEPT ![w] = "unknown"]

Release(d, s) ==
  /\ status' = [status EXCEPT ![d] = s]
  /\ token' = [token EXCEPT ![d] = NoWorker]
  /\ expired' = [expired EXCEPT ![d] = FALSE]
  /\ UNCHANGED <<attempt, dispatched>>

Claim(w, d) ==
  /\ At(w, "idle")
  /\ status[d] \in Waiting
  /\ status' = [status EXCEPT ![d] = "claimed"]
  /\ attempt' = [attempt EXCEPT ![d] = @ + 1]
  /\ token' = [token EXCEPT ![d] = w]
  /\ expired' = [expired EXCEPT ![d] = FALSE]
  /\ pc' = [pc EXCEPT ![w] = "claimed"]
  /\ work' = [work EXCEPT ![w] = d]
  /\ UNCHANGED <<dispatched, stale, seen, verdict, calls, crashes, stalls>>

(* delivery_authorization_is_current, after the claim has committed.  The   *)
(* account's health and switches go up and down at any moment, so the read  *)
(* finds either; what was edited stays stale.                               *)
Authorize(w) ==
  /\ At(w, "claimed")
  /\ \E healthy \in BOOLEAN :
       Goto(w, IF healthy /\ ~stale[work[w]] THEN "verified" ELSE "stale")
  /\ UNCHANGED <<rowVars, stale, seen, verdict, calls, crashes, stalls>>

(* A stale authorization fails the row if the claim is still this one.     *)
Refuse(w) ==
  /\ At(w, "stale")
  /\ LET d == work[w]
     IN  IF status[d] = "claimed" /\ token[d] = w
           THEN Release(d, "permanent_failure")
           ELSE UNCHANGED rowVars
  /\ Drop(w)
  /\ UNCHANGED <<stale, calls, crashes, stalls>>

(* Both mark_delivery_dispatched and finish_delivery read the row first and *)
(* write under the claim token they have just read, not under the one the   *)
(* worker claimed with.                                                     *)
Reread(w, here, there) ==
  /\ At(w, here)
  /\ LET d == work[w]
     IN  IF status[d] = "claimed"
           THEN /\ seen' = [seen EXCEPT ![w] = token[d]]
                /\ Goto(w, there)
                /\ UNCHANGED verdict
           ELSE Drop(w)
  /\ UNCHANGED <<rowVars, stale, calls, crashes, stalls>>

Unmoved(w) == status[work[w]] = "claimed" /\ token[work[w]] = seen[w]

MarkRead(w) == Reread(w, "verified", "marking")

MutMarksLater(w) ==
  /\ At(w, "marking")
  /\ IF Unmoved(w) THEN Goto(w, "marked") /\ UNCHANGED <<seen, verdict>> ELSE Drop(w)
  /\ UNCHANGED <<rowVars, stale, calls, crashes, stalls>>

MarkWrite(w) ==
  /\ At(w, "marking")
  /\ IF Unmoved(w)
       THEN /\ dispatched' = [dispatched EXCEPT ![work[w]] = TRUE]
            /\ Goto(w, "marked")
            /\ UNCHANGED <<seen, verdict>>
       ELSE Drop(w) /\ UNCHANGED dispatched
  /\ UNCHANGED <<status, attempt, token, expired, stale,
                 calls, crashes, stalls>>

(* provider.deliver: the platform takes something (the whole message, a few *)
(* of its parts, or of the chunks of a long text) or nothing, and the       *)
(* worker learns nothing yet.                                               *)
Send(w, taken) ==
  /\ At(w, "marked")
  /\ sent' = [sent EXCEPT ![work[w]] = @ + (IF taken THEN 1 ELSE 0)]
  /\ verdict' = [verdict EXCEPT ![w] = IF taken THEN "delivered" ELSE "rejected"]
  /\ Goto(w, "sending")
  /\ UNCHANGED <<rowVars, stale, seen, asked, crashes, stalls>>

(* What the provider answers.  It reports "delivered" only if every part    *)
(* was accepted.  Any other answer may come whatever was taken: deliver_ilink *)
(* reports the failure of a chunk after earlier chunks of the same text went *)
(* out, and takes a lost reply for retryable and an unreadable one for      *)
(* invalid; an Err of any provider is unknown.                              *)
Answer(w, v) ==
  /\ At(w, "sending")
  /\ v = "delivered" => verdict[w] = "delivered"
  /\ verdict' = [verdict EXCEPT ![w] = v]
  /\ Goto(w, "answered")
  /\ UNCHANGED <<rowVars, stale, seen, calls, crashes, stalls>>

FinishRead(w) == Reread(w, "answered", "finishing")

Outcome(d, v) ==
  CASE v = "delivered" -> "delivered"
    [] v = "unknown" -> "indeterminate"
    [] v = "retryable" /\ attempt[d] < MaxAttempts -> "retry_scheduled"
    [] OTHER -> "permanent_failure"

Asks(d, v) == Outcome(d, v) = "retry_scheduled"

MutFinishesUnfenced(w) ==
  /\ At(w, "finishing")
  /\ LET d == work[w]
     IN  /\ Release(d, Outcome(d, verdict[w]))
         /\ asked' = IF Asks(d, verdict[w]) THEN [asked EXCEPT ![d] = @ + 1] ELSE asked
  /\ Drop(w)
  /\ UNCHANGED <<stale, sent, crashes, stalls>>

FinishWrite(w) ==
  /\ At(w, "finishing")
  /\ LET d == work[w]
     IN  IF Unmoved(w)
           THEN /\ Release(d, Outcome(d, verdict[w]))
                /\ asked' = IF Asks(d, verdict[w]) THEN [asked EXCEPT ![d] = @ + 1] ELSE asked
           ELSE UNCHANGED <<rowVars, asked>>
  /\ Drop(w)
  /\ UNCHANGED <<stale, sent, crashes, stalls>>

Crash(w) ==
  /\ crashes < MaxCrashes
  /\ ~At(w, "idle")
  /\ crashes' = crashes + 1
  /\ Drop(w)
  /\ UNCHANGED <<rowVars, stale, calls, stalls>>

------------------------------------------------------------------------------
(* The expiry of claims and the reconciliation.                            *)

Held(d) == token[d] # NoWorker /\ work[token[d]] = d

CanExpire(d) == status[d] = "claimed" /\ ~expired[d]

Stalled(d) == Held(d) /\ ~At(token[d], "sending")

(* A stalled worker is one stopped between two statements.                 *)
Expire(d) ==
  /\ CanExpire(d)
  /\ Stalled(d) => stalls < MaxStalls
  /\ stalls' = IF Stalled(d) THEN stalls + 1 ELSE stalls
  /\ expired' = [expired EXCEPT ![d] = TRUE]
  /\ UNCHANGED <<status, attempt, token, dispatched, stale, workerVars,
                 calls, crashes>>

ReleaseAll(S, s) ==
  /\ S # {}
  /\ status' = [d \in Delivery |-> IF d \in S THEN s ELSE status[d]]
  /\ token' = [d \in Delivery |-> IF d \in S THEN NoWorker ELSE token[d]]
  /\ expired' = [d \in Delivery |-> IF d \in S THEN FALSE ELSE expired[d]]
  /\ UNCHANGED <<attempt, dispatched, stale, workerVars,
                 calls, crashes, stalls>>

Overdue == {d \in Delivery : status[d] = "claimed" /\ expired[d]}

MutRetriesUnknown == ReleaseAll({d \in Overdue : dispatched[d]}, "retry_scheduled")

MutRecoversCurrent ==
  ReleaseAll({d \in Overdue : ~dispatched[d] /\ ~stale[d]}, "retry_scheduled")

(* Two statements of reconcile_startup, each over every row it finds.       *)
ReconcileSent == ReleaseAll({d \in Overdue : dispatched[d]}, "indeterminate")
ReconcileUnsent == ReleaseAll({d \in Overdue : ~dispatched[d]}, "retry_scheduled")

------------------------------------------------------------------------------
WorkerStep(w) ==
  \/ \E d \in Delivery : Claim(w, d)
  \/ Authorize(w) \/ Refuse(w)
  \/ MarkRead(w) \/ MarkWrite(w)
  \/ \E taken \in BOOLEAN : Send(w, taken)
  \/ \E v \in Verdicts : Answer(w, v)
  \/ FinishRead(w) \/ FinishWrite(w)

Next ==
  \/ Edit
  \/ \E d \in Delivery : Enqueue(d) \/ Expire(d)
  \/ \E w \in Worker : WorkerStep(w) \/ Crash(w)
  \/ ReconcileSent \/ ReconcileUnsent

Spec == Init /\ [][Next]_vars

(* The loops run while the application does, every provider call has a      *)
(* timeout, a dead claim runs out after 60 s, and the desktop reconciles    *)
(* every 30 s.                                                              *)
Fairness ==
  /\ \A w \in Worker : WF_vars(WorkerStep(w))
  /\ \A d \in Delivery : WF_vars(Expire(d))
  /\ WF_vars(ReconcileSent) /\ WF_vars(ReconcileUnsent)

FairSpec == Spec /\ Fairness

------------------------------------------------------------------------------
(* Every variable stays in its range (the columns of channel_outbox and the *)
(* steps of a delivery); an attempt beyond MAX_DELIVERY_ATTEMPTS can only   *)
(* come from a claim that was recovered.                                    *)
TypeOK ==
  /\ status \in [Delivery -> {"absent", "claimed"} \cup Waiting \cup Final]
  /\ attempt \in [Delivery -> Nat]
  /\ token \in [Delivery -> Worker \cup {NoWorker}]
  /\ expired \in [Delivery -> BOOLEAN]
  /\ dispatched \in [Delivery -> BOOLEAN]
  /\ stale \in [Delivery -> BOOLEAN]
  /\ pc \in [Worker -> {"idle", "claimed", "verified", "stale", "marking", "marked",
                         "sending", "answered", "finishing"}]
  /\ work \in [Worker -> Delivery \cup {NoDelivery}]
  /\ seen \in [Worker -> Worker \cup {NoWorker}]
  /\ verdict \in [Worker -> Verdicts]
  /\ sent \in [Delivery -> Nat] /\ asked \in [Delivery -> Nat]
  /\ crashes \in Nat /\ stalls \in Nat

(* What the row says can be relied on, whoever died, stalled or answered    *)
(* late: a message of which anything was taken is marked as dispatched, so  *)
(* that a claim which the reconciliation returns as unsent was not sent; a  *)
(* row reported delivered was taken, and one written off as unknown had     *)
(* been dispatched.  Of a row that failed or waits to be tried again it is  *)
(* not known that nothing was taken: see Answer.                            *)
Truthful ==
  \A d \in Delivery :
    /\ sent[d] > 0 => dispatched[d]
    /\ status[d] = "delivered" => sent[d] > 0
    /\ status[d] = "indeterminate" => dispatched[d]

(* A settled row is never touched again: a worker that answers after its    *)
(* claim was reconciled does not overwrite the outcome.                     *)
SettledForGood ==
  [][\A d \in Delivery : status[d] \in Final => status'[d] = status[d]]_vars

(* Every row that was enqueued settles, however the workers die: no claim   *)
(* is forgotten and no retry goes on for ever.                              *)
Settles == \A d \in Delivery : status[d] = "pending" ~> status[d] \in Final

(* The outbox implements the abstract ledger: a message is sent once, and   *)
(* once more each time its provider asked for it, never after an unknown    *)
(* outcome or a dispatch that was reconciled, MAX_DELIVERY_ATTEMPTS at most. *)
LedgerOf ==
  [d \in Delivery |->
     CASE status[d] = "absent" -> "absent"
       [] status[d] \in Final -> "done"
       [] status[d] = "claimed" /\ dispatched[d] -> "out"
       [] OTHER -> "open"]

Ledger == INSTANCE DeliveryLedger WITH
            ledger <- LedgerOf, effect <- sent, again <- asked

ImplementsLedger == Ledger!LedgerSpec

(* docs/adr/0005-per-user-runtime-and-gateway.md:26-27: "restart            *)
(* reconciliation returns claimed ledger rows to safe retry states": when a *)
(* row has been returned and claimed again, the worker it was taken from no *)
(* longer sends it.                                                         *)
RetryIsSafe ==
  \A w, v \in Worker :
    w # v /\ work[w] = work[v] => ~({pc[w], pc[v]} \subseteq {"marked", "sending"})
=============================================================================
