--------------------------- MODULE DeliveryLedger ---------------------------
(***************************************************************************)
(* What the channel outbox promises, whoever dies and when: the message of *)
(* a row reaches the platform at most once, and once more for every time   *)
(* the provider itself answered that it may be sent again; that happens     *)
(* fewer than MaxAttempts times; a row that is out for any other reason     *)
(* (no answer, an unknown one, a dead worker) is never opened again, and a  *)
(* settled row stays settled.                                               *)
(*                                                                          *)
(* Abstract specification of the outbox half of                             *)
(* crates/hachimi-gateway/src/durable.rs.  ChannelOutbox implements it as   *)
(* long as no claim runs out under a live worker that has not sent yet.     *)
(***************************************************************************)
EXTENDS Naturals

CONSTANTS Delivery, MaxAttempts

VARIABLES
  ledger,   \* "absent", "open", "out" (may have been sent), "done"
  effect,   \* calls in which the platform took each message or part of it
  again     \* how often the provider asked for another attempt

ledgerVars == <<ledger, effect, again>>

LedgerInit ==
  /\ ledger = [d \in Delivery |-> "absent"]
  /\ effect = [d \in Delivery |-> 0]
  /\ again = [d \in Delivery |-> 0]

MoveAll(S, from, to) ==
  /\ \A d \in S : ledger[d] = from
  /\ ledger' = [d \in Delivery |-> IF d \in S THEN to ELSE ledger[d]]
  /\ UNCHANGED effect

Add(d) == MoveAll({d}, "absent", "open") /\ UNCHANGED again
TryOnce(d) == MoveAll({d}, "open", "out") /\ UNCHANGED again
Abandon(d) == MoveAll({d}, "open", "done") /\ UNCHANGED again

(* The platform takes the message of a row that is out: once, and once for  *)
(* every time it was asked for.                                             *)
Reach(d) ==
  /\ ledger[d] = "out"
  /\ effect[d] <= again[d]
  /\ effect' = [effect EXCEPT ![d] = @ + 1]
  /\ UNCHANGED <<ledger, again>>

(* The only way back: the provider asks for another attempt, and there is   *)
(* one left.                                                                *)
Reopen(d) ==
  /\ MoveAll({d}, "out", "open")
  /\ again[d] + 1 < MaxAttempts
  /\ again' = [again EXCEPT ![d] = @ + 1]

(* Rows that are out settle, together when a reconciliation finds them.    *)
Settle(S) == MoveAll(S, "out", "done") /\ UNCHANGED again

LedgerNext ==
  \/ \E d \in Delivery : Add(d) \/ TryOnce(d) \/ Abandon(d) \/ Reach(d) \/ Reopen(d)
  \/ \E S \in SUBSET Delivery : Settle(S)

LedgerSpec == LedgerInit /\ [][LedgerNext]_ledgerVars
=============================================================================
