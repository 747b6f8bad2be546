---------------------------- MODULE MCRunRecovery ----------------------------
(* Instances of RunRecovery for TLC: one operation that can be retried and  *)
(* one that cannot.                                                         *)
EXTENDS RunRecovery

CONSTANTS send, append

Retryable == {append}
=============================================================================
