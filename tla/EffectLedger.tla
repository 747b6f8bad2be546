----------------------------- MODULE EffectLedger -----------------------------
(***************************************************************************)
(* What the ledger of side effects promises about every tool call: it is   *)
(* claimed before it is sent and sent at most once, what was sent is never *)
(* taken for unsent, an outcome that was learned is never replaced, and    *)
(* one that was lost is only replaced by the decision that it succeeded or *)
(* failed.  The fates are the statuses of side_effect_executions           *)
(* (crates/hachimi-protocol/src/agent.rs); "withdrawn" is a claim that was *)
(* cancelled by a restart before it was dispatched.                        *)
(***************************************************************************)
CONSTANT Calls

VARIABLE fate

Fates == {"none", "claimed", "dispatched", "indeterminate", "succeeded", "failed",
          "cancelled", "withdrawn"}

Move(c, from, to) == fate[c] \in from /\ fate' = [fate EXCEPT ![c] = to]

Claim(c)  == Move(c, {"none"}, "claimed")
Send(c)   == Move(c, {"claimed"}, "dispatched")
Cancel(c) == Move(c, {"claimed", "dispatched"}, "cancelled")
Lose(c)   == Move(c, {"dispatched"}, "indeterminate")
Learn(c)  == \E known \in {"succeeded", "failed"} :
               Move(c, {"dispatched", "indeterminate"}, known)

(* A restart settles what was claimed and loses what was sent.             *)
Restart ==
  fate' = [c \in Calls |-> CASE fate[c] = "claimed"    -> "withdrawn"
                             [] fate[c] = "dispatched" -> "indeterminate"
                             [] OTHER                  -> fate[c]]

Init == fate = [c \in Calls |-> "none"]
Next == \/ \E c \in Calls : Claim(c) \/ Send(c) \/ Cancel(c) \/ Lose(c) \/ Learn(c)
        \/ Restart
Spec == Init /\ [][Next]_fate
=============================================================================
