---------------------------- MODULE ChannelIntake ----------------------------
(***************************************************************************)
(* How a platform's message becomes a row of channel_ingress                *)
(* (crates/hachimi-gateway: official_provider.rs and durable.rs;            *)
(* crates/hachimi-enterprise/src/stream.rs;                                 *)
(* crates/hachimi-channel-providers/src/runtime.rs), in the --gateway       *)
(* process.                                                                 *)
(*                                                                          *)
(* A stream (DingTalk, Feishu) pushes an event over a socket: the socket's  *)
(* thread hands it to a bounded channel and answers at once; a task         *)
(* normalizes it into the account's queue; the gateway loop takes it from   *)
(* the queue and inserts the row.  A hook (the WeCom callback, the loopback *)
(* client) is a request the platform repeats until it is answered with      *)
(* success, which happens after the insert; requests are served             *)
(* concurrently.  The channel, the queue, the identifiers seen lately and   *)
(* the calls in progress die with the process; the row does not.            *)
(*                                                                          *)
(* Two accounts, one with a stream and one with hooks, that /link has bound *)
(* to one Session.  Orders inside the queues are left out: the dispatch     *)
(* sorts the rows by the time the platform put on the message.              *)
(***************************************************************************)
EXTENDS Naturals, FiniteSets

CONSTANTS
  Message,    \* external message identifiers of one Session's chats
  Stream,     \* those that arrive over a stream; the others by a hook
  Malformed,  \* stream events normalize refuses: its own messages, no content
  MaxCalls,   \* bound on concurrent requests of one hook
  MaxFaults   \* bound on crashes, stalls, lost answers and writes

ASSUME IntakeAssumption ==
  /\ Stream \subseteq Message
  /\ Malformed \subseteq Stream
  /\ MaxCalls \in Nat \ {0}
  /\ MaxFaults \in Nat

VARIABLES
  platform,  \* what the platform believes of each message
  recent,    \* RecentEventIds: pushed in the life of this process
  inbox,     \* the channel between the socket and the normalizing task
  queue,     \* AccountRuntime.ingress
  calls,     \* ingests of each message past the duplicate lookup
  healthy,   \* the health of the stream's AccountRuntime
  status,    \* channel_ingress.status, or "absent"
  faults

intakeVars == <<platform, recent, inbox, queue, calls, healthy>>

Statuses == {"absent", "accepted", "claimed", "run_created", "completed",
             "needs_attention"}
Hook == Message \ Stream

IntakeType ==
  /\ platform \in [Message -> {"waiting", "acked"}]
  /\ recent \subseteq Stream
  /\ inbox \subseteq recent
  /\ queue \subseteq recent \ Malformed
  /\ calls \in [Message -> 0 .. MaxCalls]
  /\ healthy \in BOOLEAN
  /\ status \in [Message -> Statuses]
  /\ faults \in 0 .. MaxFaults

IntakeInit ==
  /\ platform = [m \in Message |-> "waiting"]
  /\ recent = {}
  /\ inbox = {}
  /\ queue = {}
  /\ calls = [m \in Message |-> 0]
  /\ healthy = TRUE
  /\ status = [m \in Message |-> "absent"]
  /\ faults = 0

------------------------------------------------------------------------------

(* An answer may be lost on its way: then the platform sends again.        *)
Answer(m) ==
  \/ platform' = [platform EXCEPT ![m] = "acked"] /\ UNCHANGED faults
  \/ faults < MaxFaults /\ faults' = faults + 1 /\ UNCHANGED platform

(* run_stream_session: deliver_once, then the acknowledgement.             *)
Push(m) ==
  /\ m \in Stream
  /\ platform[m] = "waiting"
  /\ inbox' = IF m \in recent THEN inbox ELSE inbox \union {m}
  /\ recent' = recent \union {m}
  /\ Answer(m)
  /\ UNCHANGED <<queue, calls, healthy, status>>

(* The task of start_enterprise_stream.  accept_frame refuses an event that *)
(* cannot be normalized and, while the account is not healthy, every event; *)
(* each refusal records a transport failure, which makes the account        *)
(* degraded, and the event is gone.                                         *)
Normalize(m) ==
  /\ m \in inbox
  /\ inbox' = inbox \ {m}
  /\ IF healthy /\ m \notin Malformed
       THEN queue' = queue \union {m} /\ UNCHANGED healthy
       ELSE healthy' = FALSE /\ UNCHANGED queue
  /\ UNCHANGED <<platform, recent, calls, status, faults>>

(* process_next_provider_ingress takes the event off the queue;             *)
(* accept_verified wants the account healthy; ingest_verified looks for the *)
(* row.  One at a time: this is the gateway loop.                           *)
Take(m) ==
  /\ m \in queue
  /\ \A n \in Stream : calls[n] = 0
  /\ queue' = queue \ {m}
  /\ calls' = IF healthy /\ status[m] = "absent" THEN [calls EXCEPT ![m] = 1]
                                                 ELSE calls
  /\ UNCHANGED <<platform, recent, inbox, healthy, status, faults>>

(* A request answered before its row is written.                           *)
MutAnswersFirst(m) ==
  /\ m \in Hook
  /\ platform[m] = "waiting"
  /\ calls[m] < MaxCalls
  /\ calls' = [calls EXCEPT ![m] = @ + 1]
  /\ Answer(m)
  /\ UNCHANGED <<recent, inbox, queue, healthy, status>>

(* serve_loopback: a request whose row is there already is answered as a    *)
(* duplicate.                                                               *)
Post(m) ==
  /\ m \in Hook
  /\ platform[m] = "waiting"
  /\ IF status[m] = "absent"
       THEN /\ calls[m] < MaxCalls
            /\ calls' = [calls EXCEPT ![m] = @ + 1]
            /\ UNCHANGED <<platform, faults>>
       ELSE Answer(m) /\ UNCHANGED calls
  /\ UNCHANGED <<recent, inbox, queue, healthy, status>>

(* The transaction of ingest_verified.  INSERT OR IGNORE that ignores is an *)
(* error, and an error is answered with a status that makes the platform    *)
(* send again.                                                              *)
Insert(m) ==
  /\ calls[m] > 0
  /\ calls' = [calls EXCEPT ![m] = @ - 1]
  /\ IF status[m] = "absent"
       THEN /\ status' = [status EXCEPT ![m] = "accepted"]
            /\ IF m \in Hook THEN Answer(m) ELSE UNCHANGED <<platform, faults>>
       ELSE UNCHANGED <<status, platform, faults>>
  /\ UNCHANGED <<recent, inbox, queue, healthy>>

(* The account is not enabled, the sender not allowed, a statement fails.  *)
InsertFails(m) ==
  /\ calls[m] > 0
  /\ faults < MaxFaults
  /\ faults' = faults + 1
  /\ calls' = [calls EXCEPT ![m] = @ - 1]
  /\ UNCHANGED <<platform, recent, inbox, queue, healthy, status>>

(* reconcile_provider_accounts: only a changed account row is reloaded, and *)
(* only the reload starts a degraded account again.                         *)
Reload ==
  /\ healthy' = TRUE
  /\ UNCHANGED <<platform, recent, inbox, queue, calls, status, faults>>

GatewayCrash ==
  /\ faults < MaxFaults
  /\ faults' = faults + 1
  /\ recent' = {}
  /\ inbox' = {}
  /\ queue' = {}
  /\ calls' = [m \in Message |-> 0]
  /\ healthy' = TRUE
  /\ UNCHANGED <<platform, status>>

Intake ==
  \/ \E m \in Message :
       Push(m) \/ Normalize(m) \/ Take(m) \/ Post(m) \/ Insert(m) \/ InsertFails(m)
  \/ Reload
  \/ GatewayCrash
==============================================================================
