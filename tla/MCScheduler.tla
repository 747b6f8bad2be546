----------------------------- MODULE MCScheduler -----------------------------
(* Instances of the Scheduler for TLC: what the user configured, how Runs   *)
(* end, and the symmetry of the identifiers of TaskRuns.                    *)
EXTENDS Scheduler, TLC

CONSTANTS s1, s2

Recurring == [kind |-> "recurring", at |-> 0, limit |-> 0, endAt |-> 0,
              stopAfterSuccess |-> FALSE, skipMisfire |-> FALSE]

PlainDefinition == (s1 :> Recurring)
LimitedDefinition == (s1 :> [Recurring EXCEPT !.limit = 2])
OnceDefinition  == (s1 :> [Recurring EXCEPT !.kind = "at", !.at = 1])

(* A Schedule with every stop condition, and one that fires once.           *)
MixedDefinition ==
  (s1 :> [Recurring EXCEPT !.limit = 2, !.endAt = 2, !.stopAfterSuccess = TRUE,
                           !.skipMisfire = TRUE])
  @@ (s2 :> [Recurring EXCEPT !.kind = "at", !.at = 1])

TwoEndings == {<<"succeeded", "succeeded">>, <<"failed", "failed">>}
OneEnding  == {<<"succeeded", "succeeded">>}

Symmetry == Permutations(Tasks)
=============================================================================
