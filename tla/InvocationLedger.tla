--------------------------- MODULE InvocationLedger ---------------------------
(***************************************************************************)
(* What the Scheduler promises about invocations, whatever carries them:   *)
(* the database is authoritative and a unique key identifies an invocation *)
(* (docs/adr/0003, decision 3).  An entry of the ledger is claimed once    *)
(* with a key nobody else has, is settled once and for good, and gives out *)
(* its permission to execute at most once - through crashes, retries and   *)
(* duplicate dispatches.                                                   *)
(***************************************************************************)
CONSTANTS Entries, Keys, NoKey

VARIABLES
  key,     (* the key of each entry, NoKey while it is free                 *)
  stage,   (* "free", "claimed" or "settled"                                *)
  spent    (* the entries whose permission to execute is used up            *)

ledgerVars == <<key, stage, spent>>

LedgerInit ==
  /\ key = [e \in Entries |-> NoKey]
  /\ stage = [e \in Entries |-> "free"]
  /\ spent = {}

(* A new entry gets a key that no entry has; it may be settled from the    *)
(* start (a skipped occurrence).                                           *)
Claim(e, to) ==
  /\ stage[e] = "free"
  /\ key'[e] \in Keys
  /\ \A other \in Entries : key[other] # key'[e]
  /\ key' = [key EXCEPT ![e] = key'[e]]
  /\ stage' = [stage EXCEPT ![e] = to]
  /\ UNCHANGED spent

(* Claimed entries are settled, several at once when the process restarts. *)
Settle(es) ==
  /\ \A e \in es : stage[e] = "claimed"
  /\ stage' = [e \in Entries |-> IF e \in es THEN "settled" ELSE stage[e]]
  /\ UNCHANGED <<key, spent>>

(* Executing, or withdrawing, uses the permission up.                      *)
Spend(es) ==
  /\ \A e \in es : stage[e] # "free" /\ e \notin spent
  /\ spent' = spent \cup es
  /\ UNCHANGED <<key, stage>>

LedgerNext ==
  \/ \E e \in Entries, to \in {"claimed", "settled"} : Claim(e, to)
  \/ \E es \in SUBSET Entries : Settle(es) \/ Spend(es)

LedgerSpec == LedgerInit /\ [][LedgerNext]_ledgerVars
=============================================================================
