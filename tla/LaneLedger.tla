----------------------------- MODULE LaneLedger -----------------------------
(***************************************************************************)
(* What the Session lanes and the executor registry promise, whatever the  *)
(* order of their callbacks: at most one execution holds a Session at a     *)
(* time, and an execution that was stopped while it could still be fenced   *)
(* never reports success.                                                   *)
(*                                                                          *)
(* Abstract specification of crates/hachimi-agent/src/session_lane.rs and   *)
(* of AgentExecutorRegistry and AgentRunExecutor::execute                   *)
(* (crates/hachimi-agent/src/run_runtime.rs).  ExecutorRegistry implements  *)
(* it.                                                                      *)
(***************************************************************************)
CONSTANTS Exec, Session, SessionOf, NoExec  \* as in ExecutorRegistry

VARIABLES
  holder,    \* the execution that holds each Session, or NoExec
  stopped,   \* executions fenced by a reset of their Session's lane
  report     \* what each execution reported to its caller

ledgerVars == <<holder, stopped, report>>

LedgerInit ==
  /\ holder = [s \in Session |-> NoExec]
  /\ stopped = {}
  /\ report = [e \in Exec |-> "none"]

(* An execution that has reported nothing takes a free Session.            *)
Take(e) ==
  /\ holder[SessionOf[e]] = NoExec
  /\ report[e] = "none"
  /\ holder' = [holder EXCEPT ![SessionOf[e]] = e]
  /\ UNCHANGED <<stopped, report>>

(* Executions of one Session are fenced together.                          *)
Fence(S) ==
  /\ S # {}
  /\ \A e \in S : report[e] = "none"
  /\ \A e, f \in S : SessionOf[e] = SessionOf[f]
  /\ stopped' = stopped \cup S
  /\ UNCHANGED <<holder, report>>

(* The holder gives the Session back without a report: its entry was       *)
(* refused, or it was a compaction.                                         *)
Yield(e) ==
  /\ holder[SessionOf[e]] = e
  /\ holder' = [holder EXCEPT ![SessionOf[e]] = NoExec]
  /\ UNCHANGED <<stopped, report>>

(* The holder reports and gives the Session back, in one step; success only *)
(* when it was not fenced.                                                  *)
ReportAndYield(e, o) ==
  /\ holder[SessionOf[e]] = e
  /\ report[e] = "none"
  /\ o = "ok" => e \notin stopped
  /\ report' = [report EXCEPT ![e] = o]
  /\ holder' = [holder EXCEPT ![SessionOf[e]] = NoExec]
  /\ UNCHANGED stopped

(* An execution fails without ever holding its Session.                    *)
Decline(e) ==
  /\ holder[SessionOf[e]] # e
  /\ report[e] = "none"
  /\ report' = [report EXCEPT ![e] = "err"]
  /\ UNCHANGED <<holder, stopped>>

LedgerNext ==
  \/ \E e \in Exec : \/ Take(e)
                     \/ Yield(e)
                     \/ ReportAndYield(e, "ok")
                     \/ ReportAndYield(e, "err")
                     \/ Decline(e)
  \/ \E S \in SUBSET Exec : Fence(S)

LedgerSpec == LedgerInit /\ [][LedgerNext]_ledgerVars
=============================================================================
