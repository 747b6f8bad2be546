-------------------------- MODULE ToolApprovalsProofs --------------------------
(***************************************************************************)
(* What holds of the questions of a Run for any calls, lives and bounds:    *)
(* the types, that what takes effect was granted, that a Run waits only     *)
(* while somebody waits, that an accepted answer counts, that no call is    *)
(* let through to its host once the command that cancels the Run has        *)
(* returned, and that the questions and their calls implement GrantLedger.  *)
(***************************************************************************)
EXTENDS ToolApprovals, TLAPS

(* Which steps belong to which calls, and to which requests.                *)
KindsOK ==
  \A c \in Call :
    /\ pc[c] \in {"enter", "reread", "leave", "leaving", "use", "claim", "dispatch",
                  "send"}
       => c \in Approval
    /\ pc[c] = "expire" => c \in Command \cup Question
    /\ pc[c] \in {"claim", "dispatch"} => c \notin Read
    /\ pc[c] \in {"idle", "enter", "ask"} => row[c] = "none"
    /\ pc[c] = "wait" => row[c] # "none"
    /\ InTool(c) => born[c] = life

(* An approval, wherever it has got to, was given by the user.              *)
GrantsOK ==
  \A c \in Call :
    /\ "approved" \in {row[c], mail[c], reply[c], got[c]} => c \in granted
    /\ pc[c] \in {"use", "claim", "dispatch", "send"} =>
         basis[c] \in granted /\ SameAuthority(basis[c], c)

(* The copies of an answer on their way to a session call agree with its    *)
(* row as long as the row says approved.                                    *)
AnswersOK ==
  \A c \in Session :
    /\ row[c] \in {"none", "pending"} => mail[c] = "empty" /\ reply[c] = "none"
    /\ row[c] = "pending" => pc[c] = "wait"
    /\ row[c] = "approved" =>
         /\ mail[c] \in {"empty", "approved"}
         /\ reply[c] \in {"none", "approved"}
         /\ pc[c] \in {"leave", "leaving"} => got[c] = "approved"

(* The cancellation of the Run meets every tool call of its turn.           *)
StopOK ==
  /\ \A c \in Tool : InTool(c) => turn
  /\ killer \notin {"idle", "clear"} /\ turn => stop
  /\ turn => run \in Waiting \cup {"running", "cancelling"}
  /\ turn => stop \/ run \in Waiting \cup {"running"}
  /\ killer = "done" => run \notin Waiting \cup {"running"}

IInv == TypeOK /\ KindsOK /\ GrantsOK /\ AnswersOK /\ StopOK /\ GrantCoversUse /\ WaitHasOwner

-----------------------------------------------------------------------------


(* The fields keep their types.                                             *)
LEMMA TypeStep == TypeOK /\ KindsOK /\ [Next]_vars => TypeOK'
  <1> SUFFICES ASSUME TypeOK, KindsOK, [Next]_vars PROVE TypeOK'
    OBVIOUS
  <1>1. ASSUME NEW c \in Call, Begin(c) PROVE TypeOK'
    BY <1>1, ApprovalsAssumption DEF Begin, Goto, Reusable, Admitted, InTool,
       vars, runVars, callVars, killVars, histVars, TypeOK, ApprovalStatuses,
       QuestionStatuses, Outcomes, Waiting, Closed, Ended, KindsOK, InTool, Call, Tool,
       Approval, Session
  <1>2. ASSUME NEW c \in Call, Enter(c) PROVE TypeOK'
    BY <1>2, ApprovalsAssumption DEF Enter, Goto, vars, runVars, callVars,
       killVars, histVars, TypeOK, ApprovalStatuses, QuestionStatuses, Outcomes,
       Waiting, Closed, Ended, KindsOK, InTool, Call, Tool, Approval, Session
  <1>3. ASSUME NEW c \in Call, Ask(c) PROVE TypeOK'
    BY <1>3, ApprovalsAssumption DEF Ask, Goto, vars, runVars, callVars,
       killVars, histVars, TypeOK, ApprovalStatuses, QuestionStatuses, Outcomes,
       Waiting, Closed, Ended, KindsOK, InTool, Call, Tool, Approval, Session
  <1>4. ASSUME NEW c \in Call, Deliver(c) PROVE TypeOK'
    BY <1>4, ApprovalsAssumption DEF Deliver, Goto, Return, DropReceiver,
       vars, runVars, callVars, killVars, histVars, TypeOK, ApprovalStatuses,
       QuestionStatuses, Outcomes, Waiting, Closed, Ended, KindsOK, InTool, Call, Tool,
       Approval, Session
  <1>5. ASSUME NEW c \in Call, ExpireCommit(c) PROVE TypeOK'
    BY <1>5, ApprovalsAssumption DEF ExpireCommit, Goto, Return, DropReceiver,
       Resolvable, Decide, vars, runVars, callVars, killVars, histVars, TypeOK,
       ApprovalStatuses, QuestionStatuses, Outcomes, Waiting, Closed, Ended, KindsOK,
       InTool, Call, Tool, Approval, Session
  <1>6. ASSUME NEW c \in Call, Withdraw(c) PROVE TypeOK'
    BY <1>6, ApprovalsAssumption DEF Withdraw, Goto, Return, DropReceiver,
       CancelPending, Halted, vars, runVars, callVars, killVars, histVars,
       TypeOK, ApprovalStatuses, QuestionStatuses, Outcomes, Waiting, Closed, Ended,
       KindsOK, InTool, Call, Tool, Approval, Session
  <1>7. ASSUME NEW c \in Call, Reread(c) PROVE TypeOK'
    BY <1>7, ApprovalsAssumption DEF Reread, Goto, Return, DropReceiver, vars,
       runVars, callVars, killVars, histVars, TypeOK, ApprovalStatuses,
       QuestionStatuses, Outcomes, Waiting, Closed, Ended, KindsOK, InTool, Call, Tool,
       Approval, Session
  <1>8. ASSUME NEW c \in Call, Leave(c) PROVE TypeOK'
    BY <1>8, ApprovalsAssumption DEF Leave, Goto, Proceed, vars, runVars,
       callVars, killVars, histVars, TypeOK, ApprovalStatuses, QuestionStatuses,
       Outcomes, Waiting, Closed, Ended, KindsOK, InTool, Call, Tool, Approval, Session
  <1>9. ASSUME NEW c \in Call, LeaveCommit(c) PROVE TypeOK'
    BY <1>9, ApprovalsAssumption DEF LeaveCommit, Goto, Proceed, vars,
       runVars, callVars, killVars, histVars, TypeOK, ApprovalStatuses,
       QuestionStatuses, Outcomes, Waiting, Closed, Ended, KindsOK, InTool, Call, Tool,
       Approval, Session
  <1>10. ASSUME NEW c \in Call, Use(c) PROVE TypeOK'
    BY <1>10, ApprovalsAssumption DEF Use, Goto, Halted, vars,
       runVars, callVars, killVars, histVars, TypeOK, ApprovalStatuses,
       QuestionStatuses, Outcomes, Waiting, Closed, Ended, KindsOK, InTool, Call, Tool,
       Approval, Session
  <1>11. ASSUME NEW c \in Call, Claim(c) PROVE TypeOK'
    BY <1>11, ApprovalsAssumption DEF Claim, Goto, vars, runVars, callVars,
       killVars, histVars, TypeOK, ApprovalStatuses, QuestionStatuses, Outcomes,
       Waiting, Closed, Ended, KindsOK, InTool, Call, Tool, Approval, Session
  <1>12. ASSUME NEW c \in Call, Dispatch(c) PROVE TypeOK'
    BY <1>12, ApprovalsAssumption DEF Dispatch, Goto, Halted,
       vars, runVars, callVars, killVars, histVars, TypeOK, ApprovalStatuses,
       QuestionStatuses, Outcomes, Waiting, Closed, Ended, KindsOK, InTool, Call, Tool,
       Approval, Session
  <1>13. ASSUME NEW c \in Call, Expire(c) PROVE TypeOK'
    BY <1>13, ApprovalsAssumption DEF Expire, Goto, DropReceiver, vars,
       runVars, callVars, killVars, histVars, TypeOK, ApprovalStatuses,
       QuestionStatuses, Outcomes, Waiting, Closed, Ended, KindsOK, InTool, Call, Tool,
       Approval, Session
  <1>14. ASSUME NEW c \in Call, Timeout(c) PROVE TypeOK'
    BY <1>14, ApprovalsAssumption DEF Timeout, Goto, Halted, vars, runVars,
       callVars, killVars, histVars, TypeOK, ApprovalStatuses, QuestionStatuses,
       Outcomes, Waiting, Closed, Ended, KindsOK, InTool, Call, Tool, Approval, Session
  <1>15. ASSUME NEW c \in Call, Send(c) PROVE TypeOK'
    BY <1>15, ApprovalsAssumption DEF Send, Goto, Listens, vars, runVars,
       callVars, killVars, histVars, TypeOK, ApprovalStatuses, QuestionStatuses,
       Outcomes, Waiting, Closed, Ended, KindsOK, InTool, Call, Tool, Approval, Session
  <1>16. ASSUME NEW c \in Call, NEW d \in {"approved", "denied", "resolved", "cancelled"}, Resolve(c, d) PROVE TypeOK'
    BY <1>16, ApprovalsAssumption DEF Resolve, Goto, Resolvable, Decide,
       Decided, Listens, vars, runVars, callVars, killVars, histVars, TypeOK,
       ApprovalStatuses, QuestionStatuses, Outcomes, Waiting, Closed, Ended, KindsOK,
       InTool, Call, Tool, Approval, Session
  <1>17. CASE Kill
    BY <1>17, ApprovalsAssumption DEF Kill, Goto, vars, runVars, callVars,
       killVars, histVars, TypeOK, ApprovalStatuses, QuestionStatuses, Outcomes,
       Waiting, Closed, Ended, KindsOK, InTool, Call, Tool, Approval, Session
  <1>18. CASE Clear
    BY <1>18, ApprovalsAssumption DEF Clear, Goto, vars, runVars, callVars,
       killVars, histVars, TypeOK, ApprovalStatuses, QuestionStatuses, Outcomes,
       Waiting, Closed, Ended, KindsOK, InTool, Call, Tool, Approval, Session
  <1>19. CASE CancelRuns
    BY <1>19, ApprovalsAssumption DEF CancelRuns, Goto, vars, runVars, callVars,
       killVars, histVars, TypeOK, ApprovalStatuses, QuestionStatuses, Outcomes,
       Waiting, Closed, Ended, KindsOK, InTool, Call, Tool, Approval, Session
  <1>20. CASE KillList
    BY <1>20, ApprovalsAssumption DEF KillList, Goto, vars, runVars, callVars,
       killVars, histVars, TypeOK, ApprovalStatuses, QuestionStatuses, Outcomes,
       Waiting, Closed, Ended, KindsOK, InTool, Call, Tool, Approval, Session
  <1>21. CASE KillCancel
    BY <1>21, ApprovalsAssumption DEF KillCancel, Goto, CancelPending,
       Listens, vars, runVars, callVars, killVars, histVars, TypeOK,
       ApprovalStatuses, QuestionStatuses, Outcomes, Waiting, Closed, Ended, KindsOK,
       InTool, Call, Tool, Approval, Session
  <1>22. CASE KillInputs
    BY <1>22, ApprovalsAssumption DEF KillInputs, Goto, CancelPending,
       Listens, vars, runVars, callVars, killVars, histVars, TypeOK,
       ApprovalStatuses, QuestionStatuses, Outcomes, Waiting, Closed, Ended, KindsOK,
       InTool, Call, Tool, Approval, Session
  <1>23. CASE KillClose
    BY <1>23, ApprovalsAssumption DEF KillClose, Goto, vars, runVars,
       callVars, killVars, histVars, TypeOK, ApprovalStatuses, QuestionStatuses,
       Outcomes, Waiting, Closed, Ended, KindsOK, InTool, Call, Tool, Approval, Session
  <1>24. ASSUME NEW ending \in {"succeeded", "failed"}, EndTurn(ending) PROVE TypeOK'
    <2>1. run' \in {"running", "recovering"} \cup Waiting \cup Closed
      BY <1>24 DEF EndTurn, TypeOK, Closed, Ended
    <2>2. turn' \in BOOLEAN /\ stop' \in BOOLEAN
      BY <1>24 DEF EndTurn
    <2>3. QED
      BY <1>24, <2>1, <2>2 DEF EndTurn, TypeOK, callVars, killVars, histVars
  <1>25. CASE Restart
    <2>1. run' \in {"running", "recovering"} \cup Waiting \cup Closed
      BY <1>25 DEF Restart, TypeOK
    <2>2. life' \in 1..MaxLives
      <3>1. life \in 1..MaxLives /\ life < MaxLives /\ life' = life + 1
        BY <1>25 DEF Restart, TypeOK
      <3>2. QED
        BY <3>1, ApprovalsAssumption
    <2>7. turn' \in BOOLEAN /\ stop' \in BOOLEAN
      BY <1>25 DEF Restart
    <2>3. /\ row' \in [Call -> ApprovalStatuses \cup QuestionStatuses]
          /\ \A c \in Approval : row'[c] \in ApprovalStatuses
          /\ \A c \in Question : row'[c] \in QuestionStatuses
      BY <1>25, ApprovalsAssumption DEF Restart, Interrupted, TypeOK, ApprovalStatuses,
         QuestionStatuses, Call, Tool, Approval, Session
    <2>4. pc' \in [Call -> {"idle", "enter", "ask", "wait", "expire", "reread",
                          "leave", "leaving", "use", "claim", "dispatch", "send", "over"}]
      BY <1>25 DEF Restart, TypeOK
    <2>5. /\ mail' \in [Call -> Outcomes \cup {"empty"}]
          /\ got' \in [Call -> Outcomes]
          /\ reply' \in [Call -> Outcomes]
      BY <1>25 DEF Restart, Outcomes, ApprovalStatuses
    <2>6. QED
      BY <1>25, <2>1, <2>2, <2>3, <2>4, <2>5, <2>7 DEF Restart, TypeOK, histVars
  <1>26. CASE Resume
    BY <1>26, ApprovalsAssumption DEF Resume, Goto, vars, runVars, callVars,
       killVars, histVars, TypeOK, ApprovalStatuses, QuestionStatuses, Outcomes,
       Waiting, Closed, Ended, KindsOK, InTool, Call, Tool, Approval, Session
  <1>27. CASE UNCHANGED vars
    BY <1>27 DEF vars, runVars, callVars, killVars, histVars, TypeOK,
       ApprovalStatuses, QuestionStatuses, Outcomes, Waiting, Closed, Ended, KindsOK,
       InTool
  <1>28. ASSUME NEW c \in Call, Execute(c) PROVE TypeOK'
    BY <1>28, ApprovalsAssumption DEF Execute, Goto, Halted,
       vars, runVars, callVars, killVars, histVars, TypeOK, ApprovalStatuses,
       QuestionStatuses, Outcomes, Waiting, Closed, Ended, KindsOK, InTool, Call, Tool,
       Approval, Session
  <1>29. QED
    BY <1>1, <1>2, <1>3, <1>4, <1>5, <1>6, <1>7, <1>8, <1>9, <1>10, <1>11,
       <1>12, <1>13, <1>14, <1>15, <1>16, <1>17, <1>18, <1>19, <1>20, <1>21, <1>22, <1>23,
       <1>24, <1>25, <1>26, <1>27, <1>28 DEF Next, CallStep, User, Killer

(* Calls keep to their steps.                                               *)
LEMMA KindsStep == TypeOK /\ KindsOK /\ [Next]_vars => KindsOK'
  <1> SUFFICES ASSUME TypeOK, KindsOK, [Next]_vars PROVE KindsOK'
    OBVIOUS
  <1>1. ASSUME NEW c \in Call, Begin(c) PROVE KindsOK'
    BY <1>1, ApprovalsAssumption DEF Begin, Goto, Reusable, Admitted, InTool,
       vars, runVars, callVars, killVars, histVars, TypeOK, KindsOK, InTool,
       Call, Tool, Approval, Session
  <1>2. ASSUME NEW c \in Call, Enter(c) PROVE KindsOK'
    BY <1>2, ApprovalsAssumption DEF Enter, Goto, vars, runVars, callVars,
       killVars, histVars, TypeOK, KindsOK, InTool, Call, Tool, Approval, Session
  <1>3. ASSUME NEW c \in Call, Ask(c) PROVE KindsOK'
    BY <1>3, ApprovalsAssumption DEF Ask, Goto, vars, runVars, callVars,
       killVars, histVars, TypeOK, KindsOK, InTool, Call, Tool, Approval, Session
  <1>4. ASSUME NEW c \in Call, Deliver(c) PROVE KindsOK'
    BY <1>4, ApprovalsAssumption DEF Deliver, Goto, Return, DropReceiver,
       vars, runVars, callVars, killVars, histVars, TypeOK, KindsOK, InTool,
       Call, Tool, Approval, Session
  <1>5. ASSUME NEW c \in Call, ExpireCommit(c) PROVE KindsOK'
    BY <1>5, ApprovalsAssumption DEF ExpireCommit, Goto, Return, DropReceiver,
       Resolvable, Decide, vars, runVars, callVars, killVars, histVars, TypeOK,
       KindsOK, InTool, Call, Tool, Approval, Session
  <1>6. ASSUME NEW c \in Call, Withdraw(c) PROVE KindsOK'
    BY <1>6, ApprovalsAssumption DEF Withdraw, Goto, Return, DropReceiver,
       CancelPending, Halted, vars, runVars, callVars, killVars, histVars,
       TypeOK, KindsOK, InTool, Call, Tool, Approval, Session
  <1>7. ASSUME NEW c \in Call, Reread(c) PROVE KindsOK'
    BY <1>7, ApprovalsAssumption DEF Reread, Goto, Return, DropReceiver, vars,
       runVars, callVars, killVars, histVars, TypeOK, KindsOK, InTool, Call,
       Tool, Approval, Session
  <1>8. ASSUME NEW c \in Call, Leave(c) PROVE KindsOK'
    BY <1>8, ApprovalsAssumption DEF Leave, Goto, Proceed, vars, runVars,
       callVars, killVars, histVars, TypeOK, KindsOK, InTool, Call, Tool,
       Approval, Session
  <1>9. ASSUME NEW c \in Call, LeaveCommit(c) PROVE KindsOK'
    BY <1>9, ApprovalsAssumption DEF LeaveCommit, Goto, Proceed, vars,
       runVars, callVars, killVars, histVars, TypeOK, KindsOK, InTool, Call,
       Tool, Approval, Session
  <1>10. ASSUME NEW c \in Call, Use(c) PROVE KindsOK'
    BY <1>10, ApprovalsAssumption DEF Use, Goto, Halted, vars,
       runVars, callVars, killVars, histVars, TypeOK, KindsOK, InTool, Call,
       Tool, Approval, Session
  <1>11. ASSUME NEW c \in Call, Claim(c) PROVE KindsOK'
    BY <1>11, ApprovalsAssumption DEF Claim, Goto, vars, runVars, callVars,
       killVars, histVars, TypeOK, KindsOK, InTool, Call, Tool, Approval, Session
  <1>12. ASSUME NEW c \in Call, Dispatch(c) PROVE KindsOK'
    BY <1>12, ApprovalsAssumption DEF Dispatch, Goto, Halted,
       vars, runVars, callVars, killVars, histVars, TypeOK, KindsOK, InTool,
       Call, Tool, Approval, Session
  <1>13. ASSUME NEW c \in Call, Expire(c) PROVE KindsOK'
    BY <1>13, ApprovalsAssumption DEF Expire, Goto, DropReceiver, vars,
       runVars, callVars, killVars, histVars, TypeOK, KindsOK, InTool, Call,
       Tool, Approval, Session
  <1>14. ASSUME NEW c \in Call, Timeout(c) PROVE KindsOK'
    BY <1>14, ApprovalsAssumption DEF Timeout, Goto, Halted, vars, runVars,
       callVars, killVars, histVars, TypeOK, KindsOK, InTool, Call, Tool,
       Approval, Session
  <1>15. ASSUME NEW c \in Call, Send(c) PROVE KindsOK'
    BY <1>15, ApprovalsAssumption DEF Send, Goto, Listens, vars, runVars,
       callVars, killVars, histVars, TypeOK, KindsOK, InTool, Call, Tool,
       Approval, Session
  <1>16. ASSUME NEW c \in Call, NEW d \in {"approved", "denied", "resolved", "cancelled"}, Resolve(c, d) PROVE KindsOK'
    BY <1>16, ApprovalsAssumption DEF Resolve, Goto, Resolvable, Decide,
       Decided, Listens, vars, runVars, callVars, killVars, histVars, TypeOK,
       KindsOK, InTool, Call, Tool, Approval, Session
  <1>17. CASE Kill
    BY <1>17, ApprovalsAssumption DEF Kill, Goto, vars, runVars, callVars,
       killVars, histVars, TypeOK, KindsOK, InTool, Call, Tool, Approval, Session
  <1>18. CASE Clear
    BY <1>18, ApprovalsAssumption DEF Clear, Goto, vars, runVars, callVars,
       killVars, histVars, TypeOK, KindsOK, InTool, Call, Tool, Approval, Session
  <1>19. CASE CancelRuns
    BY <1>19, ApprovalsAssumption DEF CancelRuns, Ended, Goto, vars, runVars, callVars,
       killVars, histVars, TypeOK, KindsOK, InTool, Call, Tool, Approval, Session
  <1>20. CASE KillList
    BY <1>20, ApprovalsAssumption DEF KillList, Goto, vars, runVars, callVars,
       killVars, histVars, TypeOK, KindsOK, InTool, Call, Tool, Approval, Session
  <1>21. CASE KillCancel
    BY <1>21, ApprovalsAssumption DEF KillCancel, Goto, CancelPending,
       Listens, vars, runVars, callVars, killVars, histVars, TypeOK, KindsOK,
       InTool, Call, Tool, Approval, Session
  <1>22. CASE KillInputs
    BY <1>22, ApprovalsAssumption DEF KillInputs, Goto, CancelPending,
       Listens, vars, runVars, callVars, killVars, histVars, TypeOK, KindsOK,
       InTool, Call, Tool, Approval, Session
  <1>23. CASE KillClose
    BY <1>23, ApprovalsAssumption DEF KillClose, Goto, vars, runVars,
       callVars, killVars, histVars, TypeOK, KindsOK, InTool, Call, Tool,
       Approval, Session
  <1>24. ASSUME NEW ending \in {"succeeded", "failed"}, EndTurn(ending) PROVE KindsOK'
    BY <1>24, ApprovalsAssumption DEF EndTurn, Goto, Ends, vars, runVars,
       callVars, killVars, histVars, TypeOK, KindsOK, InTool, Call, Tool,
       Approval, Session
  <1>25. CASE Restart
    BY <1>25, ApprovalsAssumption DEF Restart, Goto, Interrupted, vars,
       runVars, callVars, killVars, histVars, TypeOK, KindsOK, InTool, Call,
       Tool, Approval, Session
  <1>26. CASE Resume
    BY <1>26, ApprovalsAssumption DEF Resume, Goto, vars, runVars, callVars,
       killVars, histVars, TypeOK, KindsOK, InTool, Call, Tool, Approval, Session
  <1>27. CASE UNCHANGED vars
    BY <1>27 DEF vars, runVars, callVars, killVars, histVars, TypeOK, KindsOK,
       InTool
  <1>28. ASSUME NEW c \in Call, Execute(c) PROVE KindsOK'
    BY <1>28, ApprovalsAssumption DEF Execute, Goto, Halted,
       vars, runVars, callVars, killVars, histVars, TypeOK, KindsOK, InTool,
       Call, Tool, Approval, Session
  <1>29. QED
    BY <1>1, <1>2, <1>3, <1>4, <1>5, <1>6, <1>7, <1>8, <1>9, <1>10, <1>11,
       <1>12, <1>13, <1>14, <1>15, <1>16, <1>17, <1>18, <1>19, <1>20, <1>21, <1>22, <1>23,
       <1>24, <1>25, <1>26, <1>27, <1>28 DEF Next, CallStep, User, Killer

(* Approvals come from the user.                                            *)
LEMMA GrantsStep == TypeOK /\ KindsOK /\ GrantsOK /\ [Next]_vars => GrantsOK'
  <1> SUFFICES ASSUME TypeOK, KindsOK, GrantsOK, [Next]_vars PROVE GrantsOK'
    OBVIOUS
  <1>1. ASSUME NEW c \in Call, Begin(c) PROVE GrantsOK'
    BY <1>1, ApprovalsAssumption DEF Begin, Goto, Reusable, Admitted, InTool,
       vars, runVars, callVars, killVars, histVars, TypeOK, KindsOK, GrantsOK,
       SameAuthority, Call, Tool, Approval, Session
  <1>2. ASSUME NEW c \in Call, Enter(c) PROVE GrantsOK'
    BY <1>2, ApprovalsAssumption DEF Enter, Goto, vars, runVars, callVars,
       killVars, histVars, TypeOK, KindsOK, GrantsOK, SameAuthority, Call, Tool,
       Approval, Session
  <1>3. ASSUME NEW c \in Call, Ask(c) PROVE GrantsOK'
    BY <1>3, ApprovalsAssumption DEF Ask, Goto, vars, runVars, callVars,
       killVars, histVars, TypeOK, KindsOK, GrantsOK, SameAuthority, Call, Tool,
       Approval, Session
  <1>4. ASSUME NEW c \in Call, Deliver(c) PROVE GrantsOK'
    BY <1>4, ApprovalsAssumption DEF Deliver, Goto, Return, DropReceiver,
       vars, runVars, callVars, killVars, histVars, TypeOK, KindsOK, GrantsOK,
       SameAuthority, Call, Tool, Approval, Session
  <1>5. ASSUME NEW c \in Call, ExpireCommit(c) PROVE GrantsOK'
    BY <1>5, ApprovalsAssumption DEF ExpireCommit, Goto, Return, DropReceiver,
       Resolvable, Decide, vars, runVars, callVars, killVars, histVars, TypeOK,
       KindsOK, GrantsOK, SameAuthority, Call, Tool, Approval, Session
  <1>6. ASSUME NEW c \in Call, Withdraw(c) PROVE GrantsOK'
    BY <1>6, ApprovalsAssumption DEF Withdraw, Goto, Return, DropReceiver,
       CancelPending, Halted, vars, runVars, callVars, killVars, histVars,
       TypeOK, KindsOK, GrantsOK, SameAuthority, Call, Tool, Approval, Session
  <1>7. ASSUME NEW c \in Call, Reread(c) PROVE GrantsOK'
    BY <1>7, ApprovalsAssumption DEF Reread, Goto, Return, DropReceiver, vars,
       runVars, callVars, killVars, histVars, TypeOK, KindsOK, GrantsOK,
       SameAuthority, Call, Tool, Approval, Session
  <1>8. ASSUME NEW c \in Call, Leave(c) PROVE GrantsOK'
    BY <1>8, ApprovalsAssumption DEF Leave, Goto, Proceed, vars, runVars,
       callVars, killVars, histVars, TypeOK, KindsOK, GrantsOK, SameAuthority,
       Call, Tool, Approval, Session
  <1>9. ASSUME NEW c \in Call, LeaveCommit(c) PROVE GrantsOK'
    BY <1>9, ApprovalsAssumption DEF LeaveCommit, Goto, Proceed, vars,
       runVars, callVars, killVars, histVars, TypeOK, KindsOK, GrantsOK,
       SameAuthority, Call, Tool, Approval, Session
  <1>10. ASSUME NEW c \in Call, Use(c) PROVE GrantsOK'
    BY <1>10, ApprovalsAssumption DEF Use, Goto, Halted, vars,
       runVars, callVars, killVars, histVars, TypeOK, KindsOK, GrantsOK,
       SameAuthority, Call, Tool, Approval, Session
  <1>11. ASSUME NEW c \in Call, Claim(c) PROVE GrantsOK'
    BY <1>11, ApprovalsAssumption DEF Claim, Goto, vars, runVars, callVars,
       killVars, histVars, TypeOK, KindsOK, GrantsOK, SameAuthority, Call, Tool,
       Approval, Session
  <1>12. ASSUME NEW c \in Call, Dispatch(c) PROVE GrantsOK'
    BY <1>12, ApprovalsAssumption DEF Dispatch, Goto, Halted,
       vars, runVars, callVars, killVars, histVars, TypeOK, KindsOK, GrantsOK,
       SameAuthority, Call, Tool, Approval, Session
  <1>13. ASSUME NEW c \in Call, Expire(c) PROVE GrantsOK'
    BY <1>13, ApprovalsAssumption DEF Expire, Goto, DropReceiver, vars,
       runVars, callVars, killVars, histVars, TypeOK, KindsOK, GrantsOK,
       SameAuthority, Call, Tool, Approval, Session
  <1>14. ASSUME NEW c \in Call, Timeout(c) PROVE GrantsOK'
    BY <1>14, ApprovalsAssumption DEF Timeout, Goto, Halted, vars, runVars,
       callVars, killVars, histVars, TypeOK, KindsOK, GrantsOK, SameAuthority,
       Call, Tool, Approval, Session
  <1>15. ASSUME NEW c \in Call, Send(c) PROVE GrantsOK'
    BY <1>15, ApprovalsAssumption DEF Send, Goto, Listens, vars, runVars,
       callVars, killVars, histVars, TypeOK, KindsOK, GrantsOK, SameAuthority,
       Call, Tool, Approval, Session
  <1>16. ASSUME NEW c \in Call, NEW d \in {"approved", "denied", "resolved", "cancelled"}, Resolve(c, d) PROVE GrantsOK'
    BY <1>16, ApprovalsAssumption DEF Resolve, Goto, Resolvable, Decide,
       Decided, Listens, vars, runVars, callVars, killVars, histVars, TypeOK,
       KindsOK, GrantsOK, SameAuthority, Call, Tool, Approval, Session
  <1>17. CASE Kill
    BY <1>17, ApprovalsAssumption DEF Kill, Goto, vars, runVars, callVars,
       killVars, histVars, TypeOK, KindsOK, GrantsOK, SameAuthority, Call, Tool,
       Approval, Session
  <1>18. CASE Clear
    BY <1>18, ApprovalsAssumption DEF Clear, Goto, vars, runVars, callVars,
       killVars, histVars, TypeOK, KindsOK, GrantsOK, SameAuthority, Call, Tool,
       Approval, Session
  <1>19. CASE CancelRuns
    BY <1>19, ApprovalsAssumption DEF CancelRuns, Ended, Goto, vars, runVars, callVars,
       killVars, histVars, TypeOK, KindsOK, GrantsOK, SameAuthority, Call, Tool,
       Approval, Session
  <1>20. CASE KillList
    BY <1>20, ApprovalsAssumption DEF KillList, Goto, vars, runVars, callVars,
       killVars, histVars, TypeOK, KindsOK, GrantsOK, SameAuthority, Call, Tool,
       Approval, Session
  <1>21. CASE KillCancel
    BY <1>21, ApprovalsAssumption DEF KillCancel, Goto, CancelPending,
       Listens, vars, runVars, callVars, killVars, histVars, TypeOK, KindsOK,
       GrantsOK, SameAuthority, Call, Tool, Approval, Session
  <1>22. CASE KillInputs
    BY <1>22, ApprovalsAssumption DEF KillInputs, Goto, CancelPending,
       Listens, vars, runVars, callVars, killVars, histVars, TypeOK, KindsOK,
       GrantsOK, SameAuthority, Call, Tool, Approval, Session
  <1>23. CASE KillClose
    BY <1>23, ApprovalsAssumption DEF KillClose, Goto, vars, runVars,
       callVars, killVars, histVars, TypeOK, KindsOK, GrantsOK, SameAuthority,
       Call, Tool, Approval, Session
  <1>24. ASSUME NEW ending \in {"succeeded", "failed"}, EndTurn(ending) PROVE GrantsOK'
    BY <1>24, ApprovalsAssumption DEF EndTurn, Goto, Ends, vars, runVars,
       callVars, killVars, histVars, TypeOK, KindsOK, GrantsOK, SameAuthority,
       Call, Tool, Approval, Session
  <1>25. CASE Restart
    BY <1>25, ApprovalsAssumption DEF Restart, Goto, Interrupted, vars,
       runVars, callVars, killVars, histVars, TypeOK, KindsOK, GrantsOK,
       SameAuthority, Call, Tool, Approval, Session
  <1>26. CASE Resume
    BY <1>26, ApprovalsAssumption DEF Resume, Goto, vars, runVars, callVars,
       killVars, histVars, TypeOK, KindsOK, GrantsOK, SameAuthority, Call, Tool,
       Approval, Session
  <1>27. CASE UNCHANGED vars
    BY <1>27 DEF vars, runVars, callVars, killVars, histVars, TypeOK, KindsOK,
       GrantsOK, SameAuthority
  <1>28. ASSUME NEW c \in Call, Execute(c) PROVE GrantsOK'
    BY <1>28, ApprovalsAssumption DEF Execute, Goto, Halted,
       vars, runVars, callVars, killVars, histVars, TypeOK, KindsOK, GrantsOK,
       SameAuthority, Call, Tool, Approval, Session
  <1>29. QED
    BY <1>1, <1>2, <1>3, <1>4, <1>5, <1>6, <1>7, <1>8, <1>9, <1>10, <1>11,
       <1>12, <1>13, <1>14, <1>15, <1>16, <1>17, <1>18, <1>19, <1>20, <1>21, <1>22, <1>23,
       <1>24, <1>25, <1>26, <1>27, <1>28 DEF Next, CallStep, User, Killer

(* Answers agree with their rows.                                           *)
LEMMA AnswersStep == TypeOK /\ KindsOK /\ AnswersOK /\ [Next]_vars => AnswersOK'
  <1> SUFFICES ASSUME TypeOK, KindsOK, AnswersOK, [Next]_vars PROVE AnswersOK'
    OBVIOUS
  <1>1. ASSUME NEW c \in Call, Begin(c) PROVE AnswersOK'
    BY <1>1, ApprovalsAssumption DEF Begin, Goto, Reusable, Admitted, InTool,
       vars, runVars, callVars, killVars, histVars, TypeOK, KindsOK, AnswersOK,
       Call, Tool, Approval, Session
  <1>2. ASSUME NEW c \in Call, Enter(c) PROVE AnswersOK'
    BY <1>2, ApprovalsAssumption DEF Enter, Goto, vars, runVars, callVars,
       killVars, histVars, TypeOK, KindsOK, AnswersOK, Call, Tool, Approval,
       Session
  <1>3. ASSUME NEW c \in Call, Ask(c) PROVE AnswersOK'
    BY <1>3, ApprovalsAssumption DEF Ask, Goto, vars, runVars, callVars,
       killVars, histVars, TypeOK, KindsOK, AnswersOK, Call, Tool, Approval,
       Session
  <1>4. ASSUME NEW c \in Call, Deliver(c) PROVE AnswersOK'
    BY <1>4, ApprovalsAssumption DEF Deliver, Goto, Return, DropReceiver,
       vars, runVars, callVars, killVars, histVars, TypeOK, KindsOK, AnswersOK,
       Call, Tool, Approval, Session
  <1>5. ASSUME NEW c \in Call, ExpireCommit(c) PROVE AnswersOK'
    BY <1>5, ApprovalsAssumption DEF ExpireCommit, Goto, Return, DropReceiver,
       Resolvable, Decide, vars, runVars, callVars, killVars, histVars, TypeOK,
       KindsOK, AnswersOK, Call, Tool, Approval, Session
  <1>6. ASSUME NEW c \in Call, Withdraw(c) PROVE AnswersOK'
    BY <1>6, ApprovalsAssumption DEF Withdraw, Goto, Return, DropReceiver,
       CancelPending, Halted, vars, runVars, callVars, killVars, histVars,
       TypeOK, KindsOK, AnswersOK, Call, Tool, Approval, Session
  <1>7. ASSUME NEW c \in Call, Reread(c) PROVE AnswersOK'
    BY <1>7, ApprovalsAssumption DEF Reread, Goto, Return, DropReceiver, vars,
       runVars, callVars, killVars, histVars, TypeOK, KindsOK, AnswersOK, Call,
       Tool, Approval, Session
  <1>8. ASSUME NEW c \in Call, Leave(c) PROVE AnswersOK'
    BY <1>8, ApprovalsAssumption DEF Leave, Goto, Proceed, vars, runVars,
       callVars, killVars, histVars, TypeOK, KindsOK, AnswersOK, Call, Tool,
       Approval, Session
  <1>9. ASSUME NEW c \in Call, LeaveCommit(c) PROVE AnswersOK'
    BY <1>9, ApprovalsAssumption DEF LeaveCommit, Goto, Proceed, vars,
       runVars, callVars, killVars, histVars, TypeOK, KindsOK, AnswersOK, Call,
       Tool, Approval, Session
  <1>10. ASSUME NEW c \in Call, Use(c) PROVE AnswersOK'
    BY <1>10, ApprovalsAssumption DEF Use, Goto, Halted, vars,
       runVars, callVars, killVars, histVars, TypeOK, KindsOK, AnswersOK, Call,
       Tool, Approval, Session
  <1>11. ASSUME NEW c \in Call, Claim(c) PROVE AnswersOK'
    BY <1>11, ApprovalsAssumption DEF Claim, Goto, vars, runVars, callVars,
       killVars, histVars, TypeOK, KindsOK, AnswersOK, Call, Tool, Approval,
       Session
  <1>12. ASSUME NEW c \in Call, Dispatch(c) PROVE AnswersOK'
    BY <1>12, ApprovalsAssumption DEF Dispatch, Goto, Halted,
       vars, runVars, callVars, killVars, histVars, TypeOK, KindsOK, AnswersOK,
       Call, Tool, Approval, Session
  <1>13. ASSUME NEW c \in Call, Expire(c) PROVE AnswersOK'
    BY <1>13, ApprovalsAssumption DEF Expire, Goto, DropReceiver, vars,
       runVars, callVars, killVars, histVars, TypeOK, KindsOK, AnswersOK, Call,
       Tool, Approval, Session
  <1>14. ASSUME NEW c \in Call, Timeout(c) PROVE AnswersOK'
    BY <1>14, ApprovalsAssumption DEF Timeout, Goto, Halted, vars, runVars,
       callVars, killVars, histVars, TypeOK, KindsOK, AnswersOK, Call, Tool,
       Approval, Session
  <1>15. ASSUME NEW c \in Call, Send(c) PROVE AnswersOK'
    BY <1>15, ApprovalsAssumption DEF Send, Goto, Listens, vars, runVars,
       callVars, killVars, histVars, TypeOK, KindsOK, AnswersOK, Call, Tool,
       Approval, Session
  <1>16. ASSUME NEW c \in Call, NEW d \in {"approved", "denied", "resolved", "cancelled"}, Resolve(c, d) PROVE AnswersOK'
    BY <1>16, ApprovalsAssumption DEF Resolve, Goto, Resolvable, Decide,
       Decided, Listens, vars, runVars, callVars, killVars, histVars, TypeOK,
       KindsOK, AnswersOK, Call, Tool, Approval, Session
  <1>17. CASE Kill
    BY <1>17, ApprovalsAssumption DEF Kill, Goto, vars, runVars, callVars,
       killVars, histVars, TypeOK, KindsOK, AnswersOK, Call, Tool, Approval,
       Session
  <1>18. CASE Clear
    BY <1>18, ApprovalsAssumption DEF Clear, Goto, vars, runVars, callVars,
       killVars, histVars, TypeOK, KindsOK, AnswersOK, Call, Tool, Approval,
       Session
  <1>19. CASE CancelRuns
    BY <1>19, ApprovalsAssumption DEF CancelRuns, Ended, Goto, vars, runVars, callVars,
       killVars, histVars, TypeOK, KindsOK, AnswersOK, Call, Tool, Approval,
       Session
  <1>20. CASE KillList
    BY <1>20, ApprovalsAssumption DEF KillList, Goto, vars, runVars, callVars,
       killVars, histVars, TypeOK, KindsOK, AnswersOK, Call, Tool, Approval,
       Session
  <1>21. CASE KillCancel
    BY <1>21, ApprovalsAssumption DEF KillCancel, Goto, CancelPending,
       Listens, vars, runVars, callVars, killVars, histVars, TypeOK, KindsOK,
       AnswersOK, Call, Tool, Approval, Session
  <1>22. CASE KillInputs
    BY <1>22, ApprovalsAssumption DEF KillInputs, Goto, CancelPending,
       Listens, vars, runVars, callVars, killVars, histVars, TypeOK, KindsOK,
       AnswersOK, Call, Tool, Approval, Session
  <1>23. CASE KillClose
    BY <1>23, ApprovalsAssumption DEF KillClose, Goto, vars, runVars,
       callVars, killVars, histVars, TypeOK, KindsOK, AnswersOK, Call, Tool,
       Approval, Session
  <1>24. ASSUME NEW ending \in {"succeeded", "failed"}, EndTurn(ending) PROVE AnswersOK'
    BY <1>24, ApprovalsAssumption DEF EndTurn, Goto, Ends, vars, runVars,
       callVars, killVars, histVars, TypeOK, KindsOK, AnswersOK, Call, Tool,
       Approval, Session
  <1>25. CASE Restart
    BY <1>25, ApprovalsAssumption DEF Restart, Goto, Interrupted, vars,
       runVars, callVars, killVars, histVars, TypeOK, KindsOK, AnswersOK, Call,
       Tool, Approval, Session
  <1>26. CASE Resume
    BY <1>26, ApprovalsAssumption DEF Resume, Goto, vars, runVars, callVars,
       killVars, histVars, TypeOK, KindsOK, AnswersOK, Call, Tool, Approval,
       Session
  <1>27. CASE UNCHANGED vars
    BY <1>27 DEF vars, runVars, callVars, killVars, histVars, TypeOK, KindsOK,
       AnswersOK
  <1>28. ASSUME NEW c \in Call, Execute(c) PROVE AnswersOK'
    BY <1>28, ApprovalsAssumption DEF Execute, Goto, Halted,
       vars, runVars, callVars, killVars, histVars, TypeOK, KindsOK, AnswersOK,
       Call, Tool, Approval, Session
  <1>29. QED
    BY <1>1, <1>2, <1>3, <1>4, <1>5, <1>6, <1>7, <1>8, <1>9, <1>10, <1>11,
       <1>12, <1>13, <1>14, <1>15, <1>16, <1>17, <1>18, <1>19, <1>20, <1>21, <1>22, <1>23,
       <1>24, <1>25, <1>26, <1>27, <1>28 DEF Next, CallStep, User, Killer

(* The token meets the calls.                                               *)
LEMMA StopStep == TypeOK /\ StopOK /\ [Next]_vars => StopOK'
  <1> SUFFICES ASSUME TypeOK, StopOK, [Next]_vars PROVE StopOK'
    OBVIOUS
  <1>1. ASSUME NEW c \in Call, Begin(c) PROVE StopOK'
    BY <1>1, ApprovalsAssumption DEF Begin, Goto, Reusable, Admitted, InTool,
       vars, runVars, callVars, killVars, histVars, TypeOK, StopOK, InTool,
       Waiting, Closed, Ended, Call, Tool, Approval, Session
  <1>2. ASSUME NEW c \in Call, Enter(c) PROVE StopOK'
    BY <1>2, ApprovalsAssumption DEF Enter, Goto, vars, runVars, callVars,
       killVars, histVars, TypeOK, StopOK, InTool, Waiting, Closed, Ended, Call, Tool,
       Approval, Session
  <1>3. ASSUME NEW c \in Call, Ask(c) PROVE StopOK'
    BY <1>3, ApprovalsAssumption DEF Ask, Goto, vars, runVars, callVars,
       killVars, histVars, TypeOK, StopOK, InTool, Waiting, Closed, Ended, Call, Tool,
       Approval, Session
  <1>4. ASSUME NEW c \in Call, Deliver(c) PROVE StopOK'
    BY <1>4, ApprovalsAssumption DEF Deliver, Goto, Return, DropReceiver,
       vars, runVars, callVars, killVars, histVars, TypeOK, StopOK, InTool,
       Waiting, Closed, Ended, Call, Tool, Approval, Session
  <1>5. ASSUME NEW c \in Call, ExpireCommit(c) PROVE StopOK'
    BY <1>5, ApprovalsAssumption DEF ExpireCommit, Goto, Return, DropReceiver,
       Resolvable, Decide, vars, runVars, callVars, killVars, histVars, TypeOK,
       StopOK, InTool, Waiting, Closed, Ended, Call, Tool, Approval, Session
  <1>6. ASSUME NEW c \in Call, Withdraw(c) PROVE StopOK'
    BY <1>6, ApprovalsAssumption DEF Withdraw, Goto, Return, DropReceiver,
       CancelPending, Halted, vars, runVars, callVars, killVars, histVars,
       TypeOK, StopOK, InTool, Waiting, Closed, Ended, Call, Tool, Approval, Session
  <1>7. ASSUME NEW c \in Call, Reread(c) PROVE StopOK'
    BY <1>7, ApprovalsAssumption DEF Reread, Goto, Return, DropReceiver, vars,
       runVars, callVars, killVars, histVars, TypeOK, StopOK, InTool, Waiting,
       Closed, Ended, Call, Tool, Approval, Session
  <1>8. ASSUME NEW c \in Call, Leave(c) PROVE StopOK'
    BY <1>8, ApprovalsAssumption DEF Leave, Goto, Proceed, vars, runVars,
       callVars, killVars, histVars, TypeOK, StopOK, InTool, Waiting, Closed, Ended,
       Call, Tool, Approval, Session
  <1>9. ASSUME NEW c \in Call, LeaveCommit(c) PROVE StopOK'
    BY <1>9, ApprovalsAssumption DEF LeaveCommit, Goto, Proceed, vars,
       runVars, callVars, killVars, histVars, TypeOK, StopOK, InTool, Waiting,
       Closed, Ended, Call, Tool, Approval, Session
  <1>10. ASSUME NEW c \in Call, Use(c) PROVE StopOK'
    BY <1>10, ApprovalsAssumption DEF Use, Goto, Halted, vars,
       runVars, callVars, killVars, histVars, TypeOK, StopOK, InTool, Waiting,
       Closed, Ended, Call, Tool, Approval, Session
  <1>11. ASSUME NEW c \in Call, Claim(c) PROVE StopOK'
    BY <1>11, ApprovalsAssumption DEF Claim, Goto, vars, runVars, callVars,
       killVars, histVars, TypeOK, StopOK, InTool, Waiting, Closed, Ended, Call, Tool,
       Approval, Session
  <1>12. ASSUME NEW c \in Call, Dispatch(c) PROVE StopOK'
    BY <1>12, ApprovalsAssumption DEF Dispatch, Goto, Halted,
       vars, runVars, callVars, killVars, histVars, TypeOK, StopOK, InTool,
       Waiting, Closed, Ended, Call, Tool, Approval, Session
  <1>13. ASSUME NEW c \in Call, Expire(c) PROVE StopOK'
    BY <1>13, ApprovalsAssumption DEF Expire, Goto, DropReceiver, vars,
       runVars, callVars, killVars, histVars, TypeOK, StopOK, InTool, Waiting,
       Closed, Ended, Call, Tool, Approval, Session
  <1>14. ASSUME NEW c \in Call, Timeout(c) PROVE StopOK'
    BY <1>14, ApprovalsAssumption DEF Timeout, Goto, Halted, vars, runVars,
       callVars, killVars, histVars, TypeOK, StopOK, InTool, Waiting, Closed, Ended,
       Call, Tool, Approval, Session
  <1>15. ASSUME NEW c \in Call, Send(c) PROVE StopOK'
    BY <1>15, ApprovalsAssumption DEF Send, Goto, Listens, vars, runVars,
       callVars, killVars, histVars, TypeOK, StopOK, InTool, Waiting, Closed, Ended,
       Call, Tool, Approval, Session
  <1>16. ASSUME NEW c \in Call, NEW d \in {"approved", "denied", "resolved", "cancelled"}, Resolve(c, d) PROVE StopOK'
    BY <1>16, ApprovalsAssumption DEF Resolve, Goto, Resolvable, Decide,
       Decided, Listens, vars, runVars, callVars, killVars, histVars, TypeOK,
       StopOK, InTool, Waiting, Closed, Ended, Call, Tool, Approval, Session
  <1>17. CASE Kill
    BY <1>17, ApprovalsAssumption DEF Kill, Goto, vars, runVars, callVars,
       killVars, histVars, TypeOK, StopOK, InTool, Waiting, Closed, Ended, Call, Tool,
       Approval, Session
  <1>18. CASE Clear
    BY <1>18, ApprovalsAssumption DEF Clear, Goto, vars, runVars, callVars,
       killVars, histVars, TypeOK, StopOK, InTool, Waiting, Closed, Ended, Call, Tool,
       Approval, Session
  <1>19. CASE CancelRuns
    BY <1>19, ApprovalsAssumption DEF CancelRuns, Goto, vars, runVars, callVars,
       killVars, histVars, TypeOK, StopOK, InTool, Waiting, Closed, Ended, Call, Tool,
       Approval, Session
  <1>20. CASE KillList
    BY <1>20, ApprovalsAssumption DEF KillList, Goto, vars, runVars, callVars,
       killVars, histVars, TypeOK, StopOK, InTool, Waiting, Closed, Ended, Call, Tool,
       Approval, Session
  <1>21. CASE KillCancel
    BY <1>21, ApprovalsAssumption DEF KillCancel, Goto, CancelPending,
       Listens, vars, runVars, callVars, killVars, histVars, TypeOK, StopOK,
       InTool, Waiting, Closed, Ended, Call, Tool, Approval, Session
  <1>22. CASE KillInputs
    BY <1>22, ApprovalsAssumption DEF KillInputs, Goto, CancelPending,
       Listens, vars, runVars, callVars, killVars, histVars, TypeOK, StopOK,
       InTool, Waiting, Closed, Ended, Call, Tool, Approval, Session
  <1>23. CASE KillClose
    BY <1>23, ApprovalsAssumption DEF KillClose, Goto, vars, runVars,
       callVars, killVars, histVars, TypeOK, StopOK, InTool, Waiting, Closed, Ended,
       Call, Tool, Approval, Session
  <1>24. ASSUME NEW ending \in {"succeeded", "failed"}, EndTurn(ending) PROVE StopOK'
    BY <1>24, ApprovalsAssumption DEF EndTurn, Goto, Ends, vars, runVars,
       callVars, killVars, histVars, TypeOK, StopOK, InTool, Waiting, Closed, Ended,
       Call, Tool, Approval, Session
  <1>25. CASE Restart
    BY <1>25, ApprovalsAssumption DEF Restart, Goto, Interrupted, vars,
       runVars, callVars, killVars, histVars, TypeOK, StopOK, InTool, Waiting,
       Closed, Ended, Call, Tool, Approval, Session
  <1>26. CASE Resume
    BY <1>26, ApprovalsAssumption DEF Resume, Goto, vars, runVars, callVars,
       killVars, histVars, TypeOK, StopOK, InTool, Waiting, Closed, Ended, Call, Tool,
       Approval, Session
  <1>27. CASE UNCHANGED vars
    BY <1>27 DEF vars, runVars, callVars, killVars, histVars, TypeOK, StopOK,
       InTool, Waiting, Closed, Ended
  <1>28. ASSUME NEW c \in Call, Execute(c) PROVE StopOK'
    BY <1>28, ApprovalsAssumption DEF Execute, Goto, Halted,
       vars, runVars, callVars, killVars, histVars, TypeOK, StopOK, InTool,
       Waiting, Closed, Ended, Call, Tool, Approval, Session
  <1>29. QED
    BY <1>1, <1>2, <1>3, <1>4, <1>5, <1>6, <1>7, <1>8, <1>9, <1>10, <1>11,
       <1>12, <1>13, <1>14, <1>15, <1>16, <1>17, <1>18, <1>19, <1>20, <1>21, <1>22, <1>23,
       <1>24, <1>25, <1>26, <1>27, <1>28 DEF Next, CallStep, User, Killer

(* What takes effect is granted.                                            *)
LEMMA UseStep == TypeOK /\ GrantsOK /\ GrantCoversUse /\ [Next]_vars => GrantCoversUse'
  <1> SUFFICES ASSUME TypeOK, GrantsOK, GrantCoversUse, [Next]_vars PROVE GrantCoversUse'
    OBVIOUS
  <1>1. ASSUME NEW c \in Call, Begin(c) PROVE GrantCoversUse'
    BY <1>1, ApprovalsAssumption DEF Begin, Goto, Reusable, Admitted, InTool,
       vars, runVars, callVars, killVars, histVars, TypeOK, GrantsOK,
       GrantCoversUse, SameAuthority, Call, Tool, Approval, Session
  <1>2. ASSUME NEW c \in Call, Enter(c) PROVE GrantCoversUse'
    BY <1>2, ApprovalsAssumption DEF Enter, Goto, vars, runVars, callVars,
       killVars, histVars, TypeOK, GrantsOK, GrantCoversUse, SameAuthority, Call,
       Tool, Approval, Session
  <1>3. ASSUME NEW c \in Call, Ask(c) PROVE GrantCoversUse'
    BY <1>3, ApprovalsAssumption DEF Ask, Goto, vars, runVars, callVars,
       killVars, histVars, TypeOK, GrantsOK, GrantCoversUse, SameAuthority, Call,
       Tool, Approval, Session
  <1>4. ASSUME NEW c \in Call, Deliver(c) PROVE GrantCoversUse'
    BY <1>4, ApprovalsAssumption DEF Deliver, Goto, Return, DropReceiver,
       vars, runVars, callVars, killVars, histVars, TypeOK, GrantsOK,
       GrantCoversUse, SameAuthority, Call, Tool, Approval, Session
  <1>5. ASSUME NEW c \in Call, ExpireCommit(c) PROVE GrantCoversUse'
    BY <1>5, ApprovalsAssumption DEF ExpireCommit, Goto, Return, DropReceiver,
       Resolvable, Decide, vars, runVars, callVars, killVars, histVars, TypeOK,
       GrantsOK, GrantCoversUse, SameAuthority, Call, Tool, Approval, Session
  <1>6. ASSUME NEW c \in Call, Withdraw(c) PROVE GrantCoversUse'
    BY <1>6, ApprovalsAssumption DEF Withdraw, Goto, Return, DropReceiver,
       CancelPending, Halted, vars, runVars, callVars, killVars, histVars,
       TypeOK, GrantsOK, GrantCoversUse, SameAuthority, Call, Tool, Approval,
       Session
  <1>7. ASSUME NEW c \in Call, Reread(c) PROVE GrantCoversUse'
    BY <1>7, ApprovalsAssumption DEF Reread, Goto, Return, DropReceiver, vars,
       runVars, callVars, killVars, histVars, TypeOK, GrantsOK, GrantCoversUse,
       SameAuthority, Call, Tool, Approval, Session
  <1>8. ASSUME NEW c \in Call, Leave(c) PROVE GrantCoversUse'
    BY <1>8, ApprovalsAssumption DEF Leave, Goto, Proceed, vars, runVars,
       callVars, killVars, histVars, TypeOK, GrantsOK, GrantCoversUse,
       SameAuthority, Call, Tool, Approval, Session
  <1>9. ASSUME NEW c \in Call, LeaveCommit(c) PROVE GrantCoversUse'
    BY <1>9, ApprovalsAssumption DEF LeaveCommit, Goto, Proceed, vars,
       runVars, callVars, killVars, histVars, TypeOK, GrantsOK, GrantCoversUse,
       SameAuthority, Call, Tool, Approval, Session
  <1>10. ASSUME NEW c \in Call, Use(c) PROVE GrantCoversUse'
    BY <1>10, ApprovalsAssumption DEF Use, Goto, Halted, vars,
       runVars, callVars, killVars, histVars, TypeOK, GrantsOK, GrantCoversUse,
       SameAuthority, Call, Tool, Approval, Session
  <1>11. ASSUME NEW c \in Call, Claim(c) PROVE GrantCoversUse'
    BY <1>11, ApprovalsAssumption DEF Claim, Goto, vars, runVars, callVars,
       killVars, histVars, TypeOK, GrantsOK, GrantCoversUse, SameAuthority, Call,
       Tool, Approval, Session
  <1>12. ASSUME NEW c \in Call, Dispatch(c) PROVE GrantCoversUse'
    BY <1>12, ApprovalsAssumption DEF Dispatch, Goto, Halted,
       vars, runVars, callVars, killVars, histVars, TypeOK, GrantsOK,
       GrantCoversUse, SameAuthority, Call, Tool, Approval, Session
  <1>13. ASSUME NEW c \in Call, Expire(c) PROVE GrantCoversUse'
    BY <1>13, ApprovalsAssumption DEF Expire, Goto, DropReceiver, vars,
       runVars, callVars, killVars, histVars, TypeOK, GrantsOK, GrantCoversUse,
       SameAuthority, Call, Tool, Approval, Session
  <1>14. ASSUME NEW c \in Call, Timeout(c) PROVE GrantCoversUse'
    BY <1>14, ApprovalsAssumption DEF Timeout, Goto, Halted, vars, runVars,
       callVars, killVars, histVars, TypeOK, GrantsOK, GrantCoversUse,
       SameAuthority, Call, Tool, Approval, Session
  <1>15. ASSUME NEW c \in Call, Send(c) PROVE GrantCoversUse'
    BY <1>15, ApprovalsAssumption DEF Send, Goto, Listens, vars, runVars,
       callVars, killVars, histVars, TypeOK, GrantsOK, GrantCoversUse,
       SameAuthority, Call, Tool, Approval, Session
  <1>16. ASSUME NEW c \in Call, NEW d \in {"approved", "denied", "resolved", "cancelled"}, Resolve(c, d) PROVE GrantCoversUse'
    BY <1>16, ApprovalsAssumption DEF Resolve, Goto, Resolvable, Decide,
       Decided, Listens, vars, runVars, callVars, killVars, histVars, TypeOK,
       GrantsOK, GrantCoversUse, SameAuthority, Call, Tool, Approval, Session
  <1>17. CASE Kill
    BY <1>17, ApprovalsAssumption DEF Kill, Goto, vars, runVars, callVars,
       killVars, histVars, TypeOK, GrantsOK, GrantCoversUse, SameAuthority, Call,
       Tool, Approval, Session
  <1>18. CASE Clear
    BY <1>18, ApprovalsAssumption DEF Clear, Goto, vars, runVars, callVars,
       killVars, histVars, TypeOK, GrantsOK, GrantCoversUse, SameAuthority, Call,
       Tool, Approval, Session
  <1>19. CASE CancelRuns
    BY <1>19, ApprovalsAssumption DEF CancelRuns, Ended, Goto, vars, runVars, callVars,
       killVars, histVars, TypeOK, GrantsOK, GrantCoversUse, SameAuthority, Call,
       Tool, Approval, Session
  <1>20. CASE KillList
    BY <1>20, ApprovalsAssumption DEF KillList, Goto, vars, runVars, callVars,
       killVars, histVars, TypeOK, GrantsOK, GrantCoversUse, SameAuthority, Call,
       Tool, Approval, Session
  <1>21. CASE KillCancel
    BY <1>21, ApprovalsAssumption DEF KillCancel, Goto, CancelPending,
       Listens, vars, runVars, callVars, killVars, histVars, TypeOK, GrantsOK,
       GrantCoversUse, SameAuthority, Call, Tool, Approval, Session
  <1>22. CASE KillInputs
    BY <1>22, ApprovalsAssumption DEF KillInputs, Goto, CancelPending,
       Listens, vars, runVars, callVars, killVars, histVars, TypeOK, GrantsOK,
       GrantCoversUse, SameAuthority, Call, Tool, Approval, Session
  <1>23. CASE KillClose
    BY <1>23, ApprovalsAssumption DEF KillClose, Goto, vars, runVars,
       callVars, killVars, histVars, TypeOK, GrantsOK, GrantCoversUse,
       SameAuthority, Call, Tool, Approval, Session
  <1>24. ASSUME NEW ending \in {"succeeded", "failed"}, EndTurn(ending) PROVE GrantCoversUse'
    BY <1>24, ApprovalsAssumption DEF EndTurn, Goto, Ends, vars, runVars,
       callVars, killVars, histVars, TypeOK, GrantsOK, GrantCoversUse,
       SameAuthority, Call, Tool, Approval, Session
  <1>25. CASE Restart
    BY <1>25, ApprovalsAssumption DEF Restart, Goto, Interrupted, vars,
       runVars, callVars, killVars, histVars, TypeOK, GrantsOK, GrantCoversUse,
       SameAuthority, Call, Tool, Approval, Session
  <1>26. CASE Resume
    BY <1>26, ApprovalsAssumption DEF Resume, Goto, vars, runVars, callVars,
       killVars, histVars, TypeOK, GrantsOK, GrantCoversUse, SameAuthority, Call,
       Tool, Approval, Session
  <1>27. CASE UNCHANGED vars
    BY <1>27 DEF vars, runVars, callVars, killVars, histVars, TypeOK,
       GrantsOK, GrantCoversUse, SameAuthority
  <1>28. ASSUME NEW c \in Call, Execute(c) PROVE GrantCoversUse'
    BY <1>28, ApprovalsAssumption DEF Execute, Goto, Halted,
       vars, runVars, callVars, killVars, histVars, TypeOK, GrantsOK,
       GrantCoversUse, SameAuthority, Call, Tool, Approval, Session
  <1>29. QED
    BY <1>1, <1>2, <1>3, <1>4, <1>5, <1>6, <1>7, <1>8, <1>9, <1>10, <1>11,
       <1>12, <1>13, <1>14, <1>15, <1>16, <1>17, <1>18, <1>19, <1>20, <1>21, <1>22, <1>23,
       <1>24, <1>25, <1>26, <1>27, <1>28 DEF Next, CallStep, User, Killer

(* A waiting Run has somebody who waits.                                    *)
LEMMA WaitStep == TypeOK /\ KindsOK /\ WaitHasOwner /\ [Next]_vars => WaitHasOwner'
  <1> SUFFICES ASSUME TypeOK, KindsOK, WaitHasOwner, [Next]_vars PROVE WaitHasOwner'
    OBVIOUS
  <1>1. ASSUME NEW c \in Call, Begin(c) PROVE WaitHasOwner'
    BY <1>1, ApprovalsAssumption DEF Begin, Goto, Reusable, Admitted, InTool,
       vars, runVars, callVars, killVars, histVars, TypeOK, KindsOK,
       WaitHasOwner, Waiting, Closed, Ended, InTool, Call, Tool, Approval, Session
  <1>2. ASSUME NEW c \in Call, Enter(c) PROVE WaitHasOwner'
    BY <1>2, ApprovalsAssumption DEF Enter, Goto, vars, runVars, callVars,
       killVars, histVars, TypeOK, KindsOK, WaitHasOwner, Waiting, Closed, Ended,
       InTool, Call, Tool, Approval, Session
  <1>3. ASSUME NEW c \in Call, Ask(c) PROVE WaitHasOwner'
    BY <1>3, ApprovalsAssumption DEF Ask, Goto, vars, runVars, callVars,
       killVars, histVars, TypeOK, KindsOK, WaitHasOwner, Waiting, Closed, Ended,
       InTool, Call, Tool, Approval, Session
  <1>4. ASSUME NEW c \in Call, Deliver(c) PROVE WaitHasOwner'
    BY <1>4, ApprovalsAssumption DEF Deliver, Goto, Return, DropReceiver,
       vars, runVars, callVars, killVars, histVars, TypeOK, KindsOK,
       WaitHasOwner, Waiting, Closed, Ended, InTool, Call, Tool, Approval, Session
  <1>5. ASSUME NEW c \in Call, ExpireCommit(c) PROVE WaitHasOwner'
    BY <1>5, ApprovalsAssumption DEF ExpireCommit, Goto, Return, DropReceiver,
       Resolvable, Decide, vars, runVars, callVars, killVars, histVars, TypeOK,
       KindsOK, WaitHasOwner, Waiting, Closed, Ended, InTool, Call, Tool, Approval,
       Session
  <1>6. ASSUME NEW c \in Call, Withdraw(c) PROVE WaitHasOwner'
    BY <1>6, ApprovalsAssumption DEF Withdraw, Goto, Return, DropReceiver,
       CancelPending, Halted, vars, runVars, callVars, killVars, histVars,
       TypeOK, KindsOK, WaitHasOwner, Waiting, Closed, Ended, InTool, Call, Tool,
       Approval, Session
  <1>7. ASSUME NEW c \in Call, Reread(c) PROVE WaitHasOwner'
    BY <1>7, ApprovalsAssumption DEF Reread, Goto, Return, DropReceiver, vars,
       runVars, callVars, killVars, histVars, TypeOK, KindsOK, WaitHasOwner,
       Waiting, Closed, Ended, InTool, Call, Tool, Approval, Session
  <1>8. ASSUME NEW c \in Call, Leave(c) PROVE WaitHasOwner'
    BY <1>8, ApprovalsAssumption DEF Leave, Goto, Proceed, vars, runVars,
       callVars, killVars, histVars, TypeOK, KindsOK, WaitHasOwner, Waiting,
       Closed, Ended, InTool, Call, Tool, Approval, Session
  <1>9. ASSUME NEW c \in Call, LeaveCommit(c) PROVE WaitHasOwner'
    BY <1>9, ApprovalsAssumption DEF LeaveCommit, Goto, Proceed, vars,
       runVars, callVars, killVars, histVars, TypeOK, KindsOK, WaitHasOwner,
       Waiting, Closed, Ended, InTool, Call, Tool, Approval, Session
  <1>10. ASSUME NEW c \in Call, Use(c) PROVE WaitHasOwner'
    BY <1>10, ApprovalsAssumption DEF Use, Goto, Halted, vars,
       runVars, callVars, killVars, histVars, TypeOK, KindsOK, WaitHasOwner,
       Waiting, Closed, Ended, InTool, Call, Tool, Approval, Session
  <1>11. ASSUME NEW c \in Call, Claim(c) PROVE WaitHasOwner'
    BY <1>11, ApprovalsAssumption DEF Claim, Goto, vars, runVars, callVars,
       killVars, histVars, TypeOK, KindsOK, WaitHasOwner, Waiting, Closed, Ended,
       InTool, Call, Tool, Approval, Session
  <1>12. ASSUME NEW c \in Call, Dispatch(c) PROVE WaitHasOwner'
    BY <1>12, ApprovalsAssumption DEF Dispatch, Goto, Halted,
       vars, runVars, callVars, killVars, histVars, TypeOK, KindsOK,
       WaitHasOwner, Waiting, Closed, Ended, InTool, Call, Tool, Approval, Session
  <1>13. ASSUME NEW c \in Call, Expire(c) PROVE WaitHasOwner'
    BY <1>13, ApprovalsAssumption DEF Expire, Goto, DropReceiver, vars,
       runVars, callVars, killVars, histVars, TypeOK, KindsOK, WaitHasOwner,
       Waiting, Closed, Ended, InTool, Call, Tool, Approval, Session
  <1>14. ASSUME NEW c \in Call, Timeout(c) PROVE WaitHasOwner'
    BY <1>14, ApprovalsAssumption DEF Timeout, Goto, Halted, vars, runVars,
       callVars, killVars, histVars, TypeOK, KindsOK, WaitHasOwner, Waiting,
       Closed, Ended, InTool, Call, Tool, Approval, Session
  <1>15. ASSUME NEW c \in Call, Send(c) PROVE WaitHasOwner'
    BY <1>15, ApprovalsAssumption DEF Send, Goto, Listens, vars, runVars,
       callVars, killVars, histVars, TypeOK, KindsOK, WaitHasOwner, Waiting,
       Closed, Ended, InTool, Call, Tool, Approval, Session
  <1>16. ASSUME NEW c \in Call, NEW d \in {"approved", "denied", "resolved", "cancelled"}, Resolve(c, d) PROVE WaitHasOwner'
    BY <1>16, ApprovalsAssumption DEF Resolve, Goto, Resolvable, Decide,
       Decided, Listens, vars, runVars, callVars, killVars, histVars, TypeOK,
       KindsOK, WaitHasOwner, Waiting, Closed, Ended, InTool, Call, Tool, Approval,
       Session
  <1>17. CASE Kill
    BY <1>17, ApprovalsAssumption DEF Kill, Goto, vars, runVars, callVars,
       killVars, histVars, TypeOK, KindsOK, WaitHasOwner, Waiting, Closed, Ended,
       InTool, Call, Tool, Approval, Session
  <1>18. CASE Clear
    BY <1>18, ApprovalsAssumption DEF Clear, Goto, vars, runVars, callVars,
       killVars, histVars, TypeOK, KindsOK, WaitHasOwner, Waiting, Closed, Ended,
       InTool, Call, Tool, Approval, Session
  <1>19. CASE CancelRuns
    BY <1>19, ApprovalsAssumption DEF CancelRuns, Goto, vars, runVars, callVars,
       killVars, histVars, TypeOK, KindsOK, WaitHasOwner, Waiting, Closed, Ended,
       InTool, Call, Tool, Approval, Session
  <1>20. CASE KillList
    BY <1>20, ApprovalsAssumption DEF KillList, Goto, vars, runVars, callVars,
       killVars, histVars, TypeOK, KindsOK, WaitHasOwner, Waiting, Closed, Ended,
       InTool, Call, Tool, Approval, Session
  <1>21. CASE KillCancel
    BY <1>21, ApprovalsAssumption DEF KillCancel, Goto, CancelPending,
       Listens, vars, runVars, callVars, killVars, histVars, TypeOK, KindsOK,
       WaitHasOwner, Waiting, Closed, Ended, InTool, Call, Tool, Approval, Session
  <1>22. CASE KillInputs
    BY <1>22, ApprovalsAssumption DEF KillInputs, Goto, CancelPending,
       Listens, vars, runVars, callVars, killVars, histVars, TypeOK, KindsOK,
       WaitHasOwner, Waiting, Closed, Ended, InTool, Call, Tool, Approval, Session
  <1>23. CASE KillClose
    BY <1>23, ApprovalsAssumption DEF KillClose, Goto, vars, runVars,
       callVars, killVars, histVars, TypeOK, KindsOK, WaitHasOwner, Waiting,
       Closed, Ended, InTool, Call, Tool, Approval, Session
  <1>24. ASSUME NEW ending \in {"succeeded", "failed"}, EndTurn(ending) PROVE WaitHasOwner'
    BY <1>24, ApprovalsAssumption DEF EndTurn, Goto, Ends, vars, runVars,
       callVars, killVars, histVars, TypeOK, KindsOK, WaitHasOwner, Waiting,
       Closed, Ended, InTool, Call, Tool, Approval, Session
  <1>25. CASE Restart
    BY <1>25, ApprovalsAssumption DEF Restart, Goto, Interrupted, vars,
       runVars, callVars, killVars, histVars, TypeOK, KindsOK, WaitHasOwner,
       Waiting, Closed, Ended, InTool, Call, Tool, Approval, Session
  <1>26. CASE Resume
    BY <1>26, ApprovalsAssumption DEF Resume, Goto, vars, runVars, callVars,
       killVars, histVars, TypeOK, KindsOK, WaitHasOwner, Waiting, Closed, Ended,
       InTool, Call, Tool, Approval, Session
  <1>27. CASE UNCHANGED vars
    BY <1>27 DEF vars, runVars, callVars, killVars, histVars, TypeOK, KindsOK,
       WaitHasOwner, Waiting, Closed, Ended, InTool
  <1>28. ASSUME NEW c \in Call, Execute(c) PROVE WaitHasOwner'
    BY <1>28, ApprovalsAssumption DEF Execute, Goto, Halted,
       vars, runVars, callVars, killVars, histVars, TypeOK, KindsOK,
       WaitHasOwner, Waiting, Closed, Ended, InTool, Call, Tool, Approval, Session
  <1>29. QED
    BY <1>1, <1>2, <1>3, <1>4, <1>5, <1>6, <1>7, <1>8, <1>9, <1>10, <1>11,
       <1>12, <1>13, <1>14, <1>15, <1>16, <1>17, <1>18, <1>19, <1>20, <1>21, <1>22, <1>23,
       <1>24, <1>25, <1>26, <1>27, <1>28 DEF Next, CallStep, User, Killer

(* The inductive invariant of the requests, the calls and the Run.          *)
THEOREM Invariance == Spec => []IInv
  <1>1. Init => IInv
    <2> SUFFICES ASSUME Init PROVE IInv
      OBVIOUS
    <2>1. TypeOK
      <3>1. life \in 1..MaxLives /\ 0 \in 0..MaxLives
        BY ApprovalsAssumption DEF Init
      <3>2. turn \in BOOLEAN /\ stop \in BOOLEAN
        BY DEF Init
      <3>3. /\ row \in [Call -> ApprovalStatuses \cup QuestionStatuses]
            /\ \A c \in Approval : row[c] \in ApprovalStatuses
            /\ \A c \in Question : row[c] \in QuestionStatuses
        BY DEF Init, ApprovalStatuses, QuestionStatuses, Call, Tool, Approval
      <3>4. QED
        BY <3>1, <3>2, <3>3 DEF Init, TypeOK, Outcomes, ApprovalStatuses
    <2>2. KindsOK /\ StopOK
      BY DEF Init, KindsOK, StopOK, InTool, Call
    <2>3. GrantsOK /\ AnswersOK
      BY DEF Init, GrantsOK, AnswersOK, Call, Tool, Approval
    <2>4. GrantCoversUse /\ WaitHasOwner
      BY DEF Init, GrantCoversUse, WaitHasOwner
    <2>5. QED
      BY <2>1, <2>2, <2>3, <2>4 DEF IInv
  <1>2. IInv /\ [Next]_vars => IInv'
    BY TypeStep, KindsStep, GrantsStep, AnswersStep, StopStep, UseStep, WaitStep DEF IInv
  <1>3. QED
    BY <1>1, <1>2, PTL DEF Spec

(* TypeOK: requests keep to their tables, actors to their steps.            *)
THEOREM TypeCorrect == Spec => []TypeOK
  BY Invariance, PTL DEF IInv

(* GrantCoversUse: what takes effect was approved by the user, for this    *)
(* call or for one of the same authority.                                   *)
THEOREM Granted == Spec => []GrantCoversUse
  BY Invariance, PTL DEF IInv

(* WaitHasOwner: a Run in waiting_approval has a call in its wait, a Run in *)
(* waiting_user_input a question of this life, open or withdrawn.           *)
THEOREM WaitOwned == Spec => []WaitHasOwner
  BY Invariance, PTL DEF IInv


(* A read whose approval was given ends behind its host or halted.          *)
LEMMA AnswerStep == IInv /\ [Next]_vars => \A r \in Read :
    row[r] = "approved" /\ InTool(r) /\ pc'[r] = "over" /\ life' = life
      => pc[r] = "send" \/ Halted(r)
  <1> SUFFICES ASSUME IInv, [Next]_vars PROVE \A r \in Read :
    row[r] = "approved" /\ InTool(r) /\ pc'[r] = "over" /\ life' = life
      => pc[r] = "send" \/ Halted(r)
    OBVIOUS
  <1>1. ASSUME NEW c \in Call, Begin(c) PROVE \A r \in Read :
    row[r] = "approved" /\ InTool(r) /\ pc'[r] = "over" /\ life' = life
      => pc[r] = "send" \/ Halted(r)
    BY <1>1, ApprovalsAssumption DEF Begin, Goto, Reusable, Admitted, InTool,
       vars, runVars, callVars, killVars, histVars, IInv, TypeOK, KindsOK,
       GrantsOK, AnswersOK, StopOK, Waiting, Closed, Ended, InTool, Halted, Call, Tool,
       Approval, Session
  <1>2. ASSUME NEW c \in Call, Enter(c) PROVE \A r \in Read :
    row[r] = "approved" /\ InTool(r) /\ pc'[r] = "over" /\ life' = life
      => pc[r] = "send" \/ Halted(r)
    BY <1>2, ApprovalsAssumption DEF Enter, Goto, vars, runVars, callVars,
       killVars, histVars, IInv, TypeOK, KindsOK, GrantsOK, AnswersOK, StopOK,
       Waiting, Closed, Ended, InTool, Halted, Call, Tool, Approval, Session
  <1>3. ASSUME NEW c \in Call, Ask(c) PROVE \A r \in Read :
    row[r] = "approved" /\ InTool(r) /\ pc'[r] = "over" /\ life' = life
      => pc[r] = "send" \/ Halted(r)
    BY <1>3, ApprovalsAssumption DEF Ask, Goto, vars, runVars, callVars,
       killVars, histVars, IInv, TypeOK, KindsOK, GrantsOK, AnswersOK, StopOK,
       Waiting, Closed, Ended, InTool, Halted, Call, Tool, Approval, Session
  <1>4. ASSUME NEW c \in Call, Deliver(c) PROVE \A r \in Read :
    row[r] = "approved" /\ InTool(r) /\ pc'[r] = "over" /\ life' = life
      => pc[r] = "send" \/ Halted(r)
    BY <1>4, ApprovalsAssumption DEF Deliver, Goto, Return, DropReceiver,
       vars, runVars, callVars, killVars, histVars, IInv, TypeOK, KindsOK,
       GrantsOK, AnswersOK, StopOK, Waiting, Closed, Ended, InTool, Halted, Call, Tool,
       Approval, Session
  <1>5. ASSUME NEW c \in Call, ExpireCommit(c) PROVE \A r \in Read :
    row[r] = "approved" /\ InTool(r) /\ pc'[r] = "over" /\ life' = life
      => pc[r] = "send" \/ Halted(r)
    BY <1>5, ApprovalsAssumption DEF ExpireCommit, Goto, Return, DropReceiver,
       Resolvable, Decide, vars, runVars, callVars, killVars, histVars, IInv,
       TypeOK, KindsOK, GrantsOK, AnswersOK, StopOK, Waiting, Closed, Ended, InTool,
       Halted, Call, Tool, Approval, Session
  <1>6. ASSUME NEW c \in Call, Withdraw(c) PROVE \A r \in Read :
    row[r] = "approved" /\ InTool(r) /\ pc'[r] = "over" /\ life' = life
      => pc[r] = "send" \/ Halted(r)
    BY <1>6, ApprovalsAssumption DEF Withdraw, Goto, Return, DropReceiver,
       CancelPending, Halted, vars, runVars, callVars, killVars, histVars, IInv,
       TypeOK, KindsOK, GrantsOK, AnswersOK, StopOK, Waiting, Closed, Ended, InTool,
       Halted, Call, Tool, Approval, Session
  <1>7. ASSUME NEW c \in Call, Reread(c) PROVE \A r \in Read :
    row[r] = "approved" /\ InTool(r) /\ pc'[r] = "over" /\ life' = life
      => pc[r] = "send" \/ Halted(r)
    BY <1>7, ApprovalsAssumption DEF Reread, Goto, Return, DropReceiver, vars,
       runVars, callVars, killVars, histVars, IInv, TypeOK, KindsOK, GrantsOK,
       AnswersOK, StopOK, Waiting, Closed, Ended, InTool, Halted, Call, Tool, Approval,
       Session
  <1>8. ASSUME NEW c \in Call, Leave(c) PROVE \A r \in Read :
    row[r] = "approved" /\ InTool(r) /\ pc'[r] = "over" /\ life' = life
      => pc[r] = "send" \/ Halted(r)
    BY <1>8, ApprovalsAssumption DEF Leave, Goto, Proceed, vars, runVars,
       callVars, killVars, histVars, IInv, TypeOK, KindsOK, GrantsOK, AnswersOK,
       StopOK, Waiting, Closed, Ended, InTool, Halted, Call, Tool, Approval, Session
  <1>9. ASSUME NEW c \in Call, LeaveCommit(c) PROVE \A r \in Read :
    row[r] = "approved" /\ InTool(r) /\ pc'[r] = "over" /\ life' = life
      => pc[r] = "send" \/ Halted(r)
    BY <1>9, ApprovalsAssumption DEF LeaveCommit, Goto, Proceed, vars,
       runVars, callVars, killVars, histVars, IInv, TypeOK, KindsOK, GrantsOK,
       AnswersOK, StopOK, Waiting, Closed, Ended, InTool, Halted, Call, Tool, Approval,
       Session
  <1>10. ASSUME NEW c \in Call, Use(c) PROVE \A r \in Read :
    row[r] = "approved" /\ InTool(r) /\ pc'[r] = "over" /\ life' = life
      => pc[r] = "send" \/ Halted(r)
    BY <1>10, ApprovalsAssumption DEF Use, Goto, Halted, vars,
       runVars, callVars, killVars, histVars, IInv, TypeOK, KindsOK, GrantsOK,
       AnswersOK, StopOK, Waiting, Closed, Ended, InTool, Halted, Call, Tool, Approval,
       Session
  <1>11. ASSUME NEW c \in Call, Claim(c) PROVE \A r \in Read :
    row[r] = "approved" /\ InTool(r) /\ pc'[r] = "over" /\ life' = life
      => pc[r] = "send" \/ Halted(r)
    BY <1>11, ApprovalsAssumption DEF Claim, Goto, vars, runVars, callVars,
       killVars, histVars, IInv, TypeOK, KindsOK, GrantsOK, AnswersOK, StopOK,
       Waiting, Closed, Ended, InTool, Halted, Call, Tool, Approval, Session
  <1>12. ASSUME NEW c \in Call, Dispatch(c) PROVE \A r \in Read :
    row[r] = "approved" /\ InTool(r) /\ pc'[r] = "over" /\ life' = life
      => pc[r] = "send" \/ Halted(r)
    BY <1>12, ApprovalsAssumption DEF Dispatch, Goto, Halted,
       vars, runVars, callVars, killVars, histVars, IInv, TypeOK, KindsOK,
       GrantsOK, AnswersOK, StopOK, Waiting, Closed, Ended, InTool, Halted, Call, Tool,
       Approval, Session
  <1>13. ASSUME NEW c \in Call, Expire(c) PROVE \A r \in Read :
    row[r] = "approved" /\ InTool(r) /\ pc'[r] = "over" /\ life' = life
      => pc[r] = "send" \/ Halted(r)
    BY <1>13, ApprovalsAssumption DEF Expire, Goto, DropReceiver, vars,
       runVars, callVars, killVars, histVars, IInv, TypeOK, KindsOK, GrantsOK,
       AnswersOK, StopOK, Waiting, Closed, Ended, InTool, Halted, Call, Tool, Approval,
       Session
  <1>14. ASSUME NEW c \in Call, Timeout(c) PROVE \A r \in Read :
    row[r] = "approved" /\ InTool(r) /\ pc'[r] = "over" /\ life' = life
      => pc[r] = "send" \/ Halted(r)
    BY <1>14, ApprovalsAssumption DEF Timeout, Goto, Halted, vars, runVars,
       callVars, killVars, histVars, IInv, TypeOK, KindsOK, GrantsOK, AnswersOK,
       StopOK, Waiting, Closed, Ended, InTool, Halted, Call, Tool, Approval, Session
  <1>15. ASSUME NEW c \in Call, Send(c) PROVE \A r \in Read :
    row[r] = "approved" /\ InTool(r) /\ pc'[r] = "over" /\ life' = life
      => pc[r] = "send" \/ Halted(r)
    BY <1>15, ApprovalsAssumption DEF Send, Goto, Listens, vars, runVars,
       callVars, killVars, histVars, IInv, TypeOK, KindsOK, GrantsOK, AnswersOK,
       StopOK, Waiting, Closed, Ended, InTool, Halted, Call, Tool, Approval, Session
  <1>16. ASSUME NEW c \in Call, NEW d \in {"approved", "denied", "resolved", "cancelled"}, Resolve(c, d) PROVE \A r \in Read :
    row[r] = "approved" /\ InTool(r) /\ pc'[r] = "over" /\ life' = life
      => pc[r] = "send" \/ Halted(r)
    BY <1>16, ApprovalsAssumption DEF Resolve, Goto, Resolvable, Decide,
       Decided, Listens, vars, runVars, callVars, killVars, histVars, IInv,
       TypeOK, KindsOK, GrantsOK, AnswersOK, StopOK, Waiting, Closed, Ended, InTool,
       Halted, Call, Tool, Approval, Session
  <1>17. CASE Kill
    BY <1>17, ApprovalsAssumption DEF Kill, Goto, vars, runVars, callVars,
       killVars, histVars, IInv, TypeOK, KindsOK, GrantsOK, AnswersOK, StopOK,
       Waiting, Closed, Ended, InTool, Halted, Call, Tool, Approval, Session
  <1>18. CASE Clear
    BY <1>18, ApprovalsAssumption DEF Clear, Goto, vars, runVars, callVars,
       killVars, histVars, IInv, TypeOK, KindsOK, GrantsOK, AnswersOK, StopOK,
       Waiting, Closed, Ended, InTool, Halted, Call, Tool, Approval, Session
  <1>19. CASE CancelRuns
    BY <1>19, ApprovalsAssumption DEF CancelRuns, Goto, vars, runVars, callVars,
       killVars, histVars, IInv, TypeOK, KindsOK, GrantsOK, AnswersOK, StopOK,
       Waiting, Closed, Ended, InTool, Halted, Call, Tool, Approval, Session
  <1>20. CASE KillList
    BY <1>20, ApprovalsAssumption DEF KillList, Goto, vars, runVars, callVars,
       killVars, histVars, IInv, TypeOK, KindsOK, GrantsOK, AnswersOK, StopOK,
       Waiting, Closed, Ended, InTool, Halted, Call, Tool, Approval, Session
  <1>21. CASE KillCancel
    BY <1>21, ApprovalsAssumption DEF KillCancel, Goto, CancelPending,
       Listens, vars, runVars, callVars, killVars, histVars, IInv, TypeOK,
       KindsOK, GrantsOK, AnswersOK, StopOK, Waiting, Closed, Ended, InTool, Halted,
       Call, Tool, Approval, Session
  <1>22. CASE KillInputs
    BY <1>22, ApprovalsAssumption DEF KillInputs, Goto, CancelPending,
       Listens, vars, runVars, callVars, killVars, histVars, IInv, TypeOK,
       KindsOK, GrantsOK, AnswersOK, StopOK, Waiting, Closed, Ended, InTool, Halted,
       Call, Tool, Approval, Session
  <1>23. CASE KillClose
    BY <1>23, ApprovalsAssumption DEF KillClose, Goto, vars, runVars,
       callVars, killVars, histVars, IInv, TypeOK, KindsOK, GrantsOK, AnswersOK,
       StopOK, Waiting, Closed, Ended, InTool, Halted, Call, Tool, Approval, Session
  <1>24. ASSUME NEW ending \in {"succeeded", "failed"}, EndTurn(ending) PROVE \A r \in Read :
    row[r] = "approved" /\ InTool(r) /\ pc'[r] = "over" /\ life' = life
      => pc[r] = "send" \/ Halted(r)
    BY <1>24, ApprovalsAssumption DEF EndTurn, Goto, Ends, vars, runVars,
       callVars, killVars, histVars, IInv, TypeOK, KindsOK, GrantsOK, AnswersOK,
       StopOK, Waiting, Closed, Ended, InTool, Halted, Call, Tool, Approval, Session
  <1>25. CASE Restart
    BY <1>25, ApprovalsAssumption DEF Restart, Goto, Interrupted, vars,
       runVars, callVars, killVars, histVars, IInv, TypeOK, KindsOK, GrantsOK,
       AnswersOK, StopOK, Waiting, Closed, Ended, InTool, Halted, Call, Tool, Approval,
       Session
  <1>26. CASE Resume
    BY <1>26, ApprovalsAssumption DEF Resume, Goto, vars, runVars, callVars,
       killVars, histVars, IInv, TypeOK, KindsOK, GrantsOK, AnswersOK, StopOK,
       Waiting, Closed, Ended, InTool, Halted, Call, Tool, Approval, Session
  <1>27. CASE UNCHANGED vars
    BY <1>27 DEF vars, runVars, callVars, killVars, histVars, IInv, TypeOK,
       KindsOK, GrantsOK, AnswersOK, StopOK, Waiting, Closed, Ended, InTool, Halted
  <1>28. ASSUME NEW c \in Call, Execute(c) PROVE \A r \in Read :
    row[r] = "approved" /\ InTool(r) /\ pc'[r] = "over" /\ life' = life
      => pc[r] = "send" \/ Halted(r)
    BY <1>28, ApprovalsAssumption DEF Execute, Goto, Halted,
       vars, runVars, callVars, killVars, histVars, IInv, TypeOK, KindsOK,
       GrantsOK, AnswersOK, StopOK, Waiting, Closed, Ended, InTool, Halted, Call, Tool,
       Approval, Session
  <1>29. QED
    BY <1>1, <1>2, <1>3, <1>4, <1>5, <1>6, <1>7, <1>8, <1>9, <1>10, <1>11,
       <1>12, <1>13, <1>14, <1>15, <1>16, <1>17, <1>18, <1>19, <1>20, <1>21, <1>22, <1>23,
       <1>24, <1>25, <1>26, <1>27, <1>28 DEF Next, CallStep, User, Killer

(* AnswerCounts: a read the user approved comes to its host unless the Run  *)
(* was stopped or the tool timed out.                                       *)
THEOREM AnswersCount == Spec => AnswerCounts
  <1>1. IInv /\ [Next]_vars
        => [\A c \in Read :
              row[c] = "approved" /\ InTool(c) /\ pc'[c] = "over" /\ life' = life
                => pc[c] = "send" \/ Halted(c)]_vars
    BY AnswerStep
  <1>2. QED
    BY Invariance, <1>1, PTL DEF Spec, AnswerCounts


(* Once the cancelling command has returned no call comes to its host.      *)
Shut == killer = "done" /\ life' = life => \A c \in Call : pc'[c] = "send" => pc[c] = "send"

(* Each step is shut out: a tool call sees its token, a side effect the Run. *)
LEMMA StoppedStep == IInv /\ [Next]_vars => Shut
  <1> SUFFICES ASSUME IInv, [Next]_vars PROVE Shut
    OBVIOUS
  <1>1. ASSUME NEW c \in Call, Begin(c) PROVE Shut
    BY <1>1, ApprovalsAssumption DEF Begin, Goto, Reusable, Admitted, InTool,
       vars, runVars, callVars, killVars, histVars, IInv, TypeOK, KindsOK,
       StopOK, Shut, Waiting, InTool, Halted, Call, Tool, Approval, Session
  <1>2. ASSUME NEW c \in Call, Enter(c) PROVE Shut
    BY <1>2, ApprovalsAssumption DEF Enter, Goto, vars, runVars, callVars,
       killVars, histVars, IInv, TypeOK, KindsOK, StopOK, Shut, Waiting, InTool,
       Halted, Call, Tool, Approval, Session
  <1>3. ASSUME NEW c \in Call, Ask(c) PROVE Shut
    BY <1>3, ApprovalsAssumption DEF Ask, Goto, vars, runVars, callVars,
       killVars, histVars, IInv, TypeOK, KindsOK, StopOK, Shut, Waiting, InTool,
       Halted, Call, Tool, Approval, Session
  <1>4. ASSUME NEW c \in Call, Deliver(c) PROVE Shut
    BY <1>4, ApprovalsAssumption DEF Deliver, Goto, Return, DropReceiver,
       vars, runVars, callVars, killVars, histVars, IInv, TypeOK, KindsOK,
       StopOK, Shut, Waiting, InTool, Halted, Call, Tool, Approval, Session
  <1>5. ASSUME NEW c \in Call, ExpireCommit(c) PROVE Shut
    BY <1>5, ApprovalsAssumption DEF ExpireCommit, Goto, Return, DropReceiver,
       Resolvable, Decide, vars, runVars, callVars, killVars, histVars, IInv,
       TypeOK, KindsOK, StopOK, Shut, Waiting, InTool, Halted, Call, Tool, Approval,
       Session
  <1>6. ASSUME NEW c \in Call, Withdraw(c) PROVE Shut
    BY <1>6, ApprovalsAssumption DEF Withdraw, Goto, Return, DropReceiver,
       CancelPending, Halted, vars, runVars, callVars, killVars, histVars, IInv,
       TypeOK, KindsOK, StopOK, Shut, Waiting, InTool, Halted, Call, Tool, Approval,
       Session
  <1>7. ASSUME NEW c \in Call, Reread(c) PROVE Shut
    BY <1>7, ApprovalsAssumption DEF Reread, Goto, Return, DropReceiver, vars,
       runVars, callVars, killVars, histVars, IInv, TypeOK, KindsOK, StopOK, Shut,
       Waiting, InTool, Halted, Call, Tool, Approval, Session
  <1>8. ASSUME NEW c \in Call, Leave(c) PROVE Shut
    BY <1>8, ApprovalsAssumption DEF Leave, Goto, Proceed, vars, runVars,
       callVars, killVars, histVars, IInv, TypeOK, KindsOK, StopOK, Shut, Waiting,
       InTool, Halted, Call, Tool, Approval, Session
  <1>9. ASSUME NEW c \in Call, LeaveCommit(c) PROVE Shut
    BY <1>9, ApprovalsAssumption DEF LeaveCommit, Goto, Proceed, vars,
       runVars, callVars, killVars, histVars, IInv, TypeOK, KindsOK, StopOK, Shut,
       Waiting, InTool, Halted, Call, Tool, Approval, Session
  <1>10. ASSUME NEW c \in Call, Use(c) PROVE Shut
    BY <1>10, ApprovalsAssumption DEF Use, Goto, Halted, vars,
       runVars, callVars, killVars, histVars, IInv, TypeOK, KindsOK, StopOK, Shut,
       Waiting, InTool, Halted, Call, Tool, Approval, Session
  <1>11. ASSUME NEW c \in Call, Claim(c) PROVE Shut
    BY <1>11, ApprovalsAssumption DEF Claim, Goto, vars, runVars, callVars,
       killVars, histVars, IInv, TypeOK, KindsOK, StopOK, Shut, Waiting, InTool,
       Halted, Call, Tool, Approval, Session
  <1>12. ASSUME NEW c \in Call, Dispatch(c) PROVE Shut
    BY <1>12, ApprovalsAssumption DEF Dispatch, Goto, Halted,
       vars, runVars, callVars, killVars, histVars, IInv, TypeOK, KindsOK,
       StopOK, Shut, Waiting, InTool, Halted, Call, Tool, Approval, Session
  <1>13. ASSUME NEW c \in Call, Expire(c) PROVE Shut
    BY <1>13, ApprovalsAssumption DEF Expire, Goto, DropReceiver, vars,
       runVars, callVars, killVars, histVars, IInv, TypeOK, KindsOK, StopOK, Shut,
       Waiting, InTool, Halted, Call, Tool, Approval, Session
  <1>14. ASSUME NEW c \in Call, Timeout(c) PROVE Shut
    BY <1>14, ApprovalsAssumption DEF Timeout, Goto, Halted, vars, runVars,
       callVars, killVars, histVars, IInv, TypeOK, KindsOK, StopOK, Shut, Waiting,
       InTool, Halted, Call, Tool, Approval, Session
  <1>15. ASSUME NEW c \in Call, Send(c) PROVE Shut
    BY <1>15, ApprovalsAssumption DEF Send, Goto, Listens, vars, runVars,
       callVars, killVars, histVars, IInv, TypeOK, KindsOK, StopOK, Shut, Waiting,
       InTool, Halted, Call, Tool, Approval, Session
  <1>16. ASSUME NEW c \in Call, NEW d \in {"approved", "denied", "resolved", "cancelled"}, Resolve(c, d) PROVE Shut
    BY <1>16, ApprovalsAssumption DEF Resolve, Goto, Resolvable, Decide,
       Decided, Listens, vars, runVars, callVars, killVars, histVars, IInv,
       TypeOK, KindsOK, StopOK, Shut, Waiting, InTool, Halted, Call, Tool, Approval,
       Session
  <1>17. CASE Kill
    BY <1>17, ApprovalsAssumption DEF Kill, Goto, vars, runVars, callVars,
       killVars, histVars, IInv, TypeOK, KindsOK, StopOK, Shut, Waiting, InTool,
       Halted, Call, Tool, Approval, Session
  <1>18. CASE Clear
    BY <1>18, ApprovalsAssumption DEF Clear, Goto, vars, runVars, callVars,
       killVars, histVars, IInv, TypeOK, KindsOK, StopOK, Shut, Waiting, InTool,
       Halted, Call, Tool, Approval, Session
  <1>19. CASE CancelRuns
    BY <1>19, ApprovalsAssumption DEF CancelRuns, Ended, Goto, vars, runVars, callVars,
       killVars, histVars, IInv, TypeOK, KindsOK, StopOK, Shut, Waiting, InTool,
       Halted, Call, Tool, Approval, Session
  <1>20. CASE KillList
    BY <1>20, ApprovalsAssumption DEF KillList, Goto, vars, runVars, callVars,
       killVars, histVars, IInv, TypeOK, KindsOK, StopOK, Shut, Waiting, InTool,
       Halted, Call, Tool, Approval, Session
  <1>21. CASE KillCancel
    BY <1>21, ApprovalsAssumption DEF KillCancel, Goto, CancelPending,
       Listens, vars, runVars, callVars, killVars, histVars, IInv, TypeOK,
       KindsOK, StopOK, Shut, Shut, Waiting, InTool, Halted, Call, Tool, Approval, Session
  <1>22. CASE KillInputs
    BY <1>22, ApprovalsAssumption DEF KillInputs, Goto, CancelPending,
       Listens, vars, runVars, callVars, killVars, histVars, IInv, TypeOK,
       KindsOK, StopOK, Shut, Shut, Waiting, InTool, Halted, Call, Tool, Approval, Session
  <1>23. CASE KillClose
    BY <1>23, ApprovalsAssumption DEF KillClose, Goto, vars, runVars,
       callVars, killVars, histVars, IInv, TypeOK, KindsOK, StopOK, Shut, Waiting,
       InTool, Halted, Call, Tool, Approval, Session
  <1>24. ASSUME NEW ending \in {"succeeded", "failed"}, EndTurn(ending) PROVE Shut
    BY <1>24, ApprovalsAssumption DEF EndTurn, Goto, Ends, vars, runVars,
       callVars, killVars, histVars, IInv, TypeOK, KindsOK, StopOK, Shut, Waiting,
       InTool, Halted, Call, Tool, Approval, Session
  <1>25. CASE Restart
    BY <1>25, ApprovalsAssumption DEF Restart, Goto, Interrupted, vars,
       runVars, callVars, killVars, histVars, IInv, TypeOK, KindsOK, StopOK, Shut,
       Waiting, InTool, Halted, Call, Tool, Approval, Session
  <1>26. CASE Resume
    BY <1>26, ApprovalsAssumption DEF Resume, Goto, vars, runVars, callVars,
       killVars, histVars, IInv, TypeOK, KindsOK, StopOK, Shut, Waiting, InTool,
       Halted, Call, Tool, Approval, Session
  <1>27. CASE UNCHANGED vars
    BY <1>27 DEF vars, runVars, callVars, killVars, histVars, IInv, TypeOK,
       KindsOK, StopOK, Shut, Shut, Waiting, InTool, Halted
  <1>28. ASSUME NEW c \in Call, Execute(c) PROVE Shut
    BY <1>28, ApprovalsAssumption DEF Execute, Goto, Halted,
       vars, runVars, callVars, killVars, histVars, IInv, TypeOK, KindsOK,
       StopOK, Shut, Waiting, InTool, Halted, Call, Tool, Approval, Session
  <1>29. QED
    BY <1>1, <1>2, <1>3, <1>4, <1>5, <1>6, <1>7, <1>8, <1>9, <1>10, <1>11,
       <1>12, <1>13, <1>14, <1>15, <1>16, <1>17, <1>18, <1>19, <1>20, <1>21, <1>22, <1>23,
       <1>24, <1>25, <1>26, <1>27, <1>28 DEF Next, CallStep, User, Killer

(* NothingAdmittedAfterStop: once the command that cancels the Run has      *)
(* returned, no call of this life is let through to its host.  One that was *)
(* let through before may still take effect.                                *)
THEOREM StoppedForGood == Spec => NothingAdmittedAfterStop
  <1>1. IInv /\ [Next]_vars
        => [killer = "done" /\ life' = life
              => \A c \in Call : pc'[c] = "send" => pc[c] = "send"]_vars
    BY StoppedStep DEF Shut
  <1>2. QED
    BY Invariance, <1>1, PTL DEF Spec, NothingAdmittedAfterStop

-----------------------------------------------------------------------------
(* The refinement.  An approval that was given stays approved or is taken   *)
(* back, and a call that took effect is over.                               *)
LedgerOK ==
  \A c \in Call :
    /\ c \in granted => row[c] \in {"approved", "cancelled"}
    /\ ran[c] # NoCall => pc[c] = "over"

(* A call with a side effect holds its claim from the claim to its end.     *)
Holds(c) == c \notin Read /\ pc[c] \in {"dispatch", "send"}

LedgerStep == [Ledger!LedgerNext]_<<Requests, Claims, ran>>

(* What the ledger sees stays as it is.                                     *)
Unseen ==
  /\ row' = row /\ granted' = granted /\ ran' = ran
  /\ \A c \in Call : /\ pc[c] = "over" => pc'[c] = "over"
                     /\ Holds(c)' <=> Holds(c)
                     /\ Holds(c) => basis'[c] = basis[c]

(* Steps the ledger does not see keep what it needs and are its stutters.   *)
LEMMA UnseenStep == LedgerOK /\ Unseen => LedgerOK' /\ LedgerStep
  <1> SUFFICES ASSUME LedgerOK, Unseen PROVE LedgerOK' /\ LedgerStep
    OBVIOUS
  <1>1. LedgerOK'
    BY DEF LedgerOK, Unseen
  <1>2. Requests' = Requests
    BY DEF Requests, RequestOf, Unseen
  <1>3. Claims' = Claims
    BY DEF Claims, Holds, Unseen
  <1>4. QED
    BY <1>1, <1>2, <1>3 DEF LedgerStep, Unseen

(* A call up to its question, its answer and the wait it leaves.            *)
LEMMA CallUnseen ==
  ASSUME TypeOK, NEW c \in Call,
         \/ Begin(c) \/ Enter(c) \/ Deliver(c) \/ Reread(c) \/ Leave(c) \/ LeaveCommit(c)
         \/ Expire(c) \/ Timeout(c) \/ Send(c)
  PROVE  Unseen
  <1>1. CASE Begin(c)
    BY <1>1 DEF Begin, Goto, callVars, histVars, TypeOK, Holds, Unseen
  <1>2. CASE Enter(c)
    BY <1>2 DEF Enter, Goto, histVars, TypeOK, Holds, Unseen
  <1>3. CASE Deliver(c)
    BY <1>3 DEF Deliver, Return, Goto, histVars, TypeOK, Holds, Unseen
  <1>4. CASE Reread(c)
    BY <1>4 DEF Reread, Return, Goto, histVars, TypeOK, Holds, Unseen
  <1>5. CASE Leave(c)
    BY <1>5 DEF Leave, Proceed, Goto, histVars, TypeOK, Holds, Unseen
  <1>6. CASE LeaveCommit(c)
    BY <1>6 DEF LeaveCommit, Proceed, Goto, histVars, TypeOK, Holds, Unseen
  <1>7. CASE Expire(c)
    BY <1>7 DEF Expire, Goto, histVars, TypeOK, Holds, Unseen
  <1>8. CASE Timeout(c) \/ Send(c)
    BY <1>8 DEF Timeout, Send, callVars, histVars, Holds, Unseen
  <1>9. QED
    BY <1>1, <1>2, <1>3, <1>4, <1>5, <1>6, <1>7, <1>8

(* The commands up to the rows they change, and the moves of the Run.       *)
LEMMA RunUnseen ==
  ASSUME \/ Kill \/ CancelRuns \/ KillList \/ KillClose \/ Resume \/ UNCHANGED vars
         \/ \E ending \in {"succeeded", "failed"} : EndTurn(ending)
  PROVE  Unseen
  BY DEF Kill, CancelRuns, KillList, KillClose, Resume, EndTurn, vars, callVars, histVars, Holds, Unseen

(* Requests that close together: pending ones, none of them granted.        *)
LEMMA CloseStep ==
  ASSUME TypeOK, LedgerOK, NEW S \in SUBSET Call,
         \A c \in S : row[c] = "pending" /\ row'[c] \in {"denied", "expired", "cancelled", "interrupted"},
         \A c \in Call \ S : row'[c] = row[c],
         granted' = granted, ran' = ran,
         \A c \in Call : Holds(c)' <=> Holds(c),
         \A c \in Call : Holds(c) => basis'[c] = basis[c]
  PROVE  LedgerStep
  <1>1. \A c \in S : Requests[c] = "open" /\ RequestOf(c)' = "closed"
    BY DEF Requests, RequestOf, LedgerOK
  <1>2. \A c \in Call \ S : RequestOf(c)' = Requests[c]
    BY DEF Requests, RequestOf
  <1>3. Requests' = [c \in Call |-> IF c \in S THEN "closed" ELSE Requests[c]]
    <2>1. \A c \in Call : Requests'[c] = RequestOf(c)'
      BY DEF Requests
    <2>2. \A c \in Call : Requests'[c] = IF c \in S THEN "closed" ELSE Requests[c]
      BY <1>1, <1>2, <2>1
    <2>3. Requests' = [c \in Call |-> Requests'[c]]
      BY DEF Requests
    <2>4. QED
      BY <2>2, <2>3
  <1>4. Claims' = Claims
    BY DEF Claims, Holds
  <1>5. Ledger!Close(S)
    BY <1>1, <1>3, <1>4 DEF Ledger!Close, Ledger!MoveAll
  <1>6. QED
    BY <1>5 DEF LedgerStep, Ledger!LedgerNext

(* A cancellation closes the requests of its kind that are still pending.   *)
LEMMA CancelStep ==
  ASSUME TypeOK, LedgerOK, NEW calls \in SUBSET Call, CancelPending(calls),
         granted' = granted, ran' = ran,
         \A c \in Call : Holds(c)' <=> Holds(c),
         \A c \in Call : Holds(c) => basis'[c] = basis[c]
  PROVE  LedgerStep
  <1>1. PICK S \in SUBSET Call : S = {c \in calls : row[c] = "pending"}
    OBVIOUS
  <1>2. /\ \A c \in S : row[c] = "pending" /\ row'[c] = "cancelled"
        /\ \A c \in Call \ S : row'[c] = row[c]
    BY <1>1 DEF CancelPending
  <1>3. QED
    BY <1>2, CloseStep

(* One request moves: it is opened, or it is given.                         *)
LEMMA MoveStep ==
  ASSUME NEW c \in Call,
         \/ Requests[c] = "none" /\ RequestOf(c)' = "open"
         \/ Requests[c] = "open" /\ RequestOf(c)' = "given",
         \A d \in Call \ {c} : RequestOf(d)' = Requests[d],
         ran' = ran,
         \A d \in Call : Holds(d)' <=> Holds(d),
         \A d \in Call : Holds(d) => basis'[d] = basis[d]
  PROVE  LedgerStep
  <1>1. Requests' = [d \in Call |-> IF d \in {c} THEN RequestOf(c)' ELSE Requests[d]]
    BY DEF Requests
  <1>2. Claims' = Claims
    BY DEF Claims, Holds
  <1>3. Ledger!Open(c) \/ Ledger!Give(c)
    BY <1>1, <1>2 DEF Ledger!Open, Ledger!Give, Ledger!MoveAll
  <1>4. QED
    BY <1>3 DEF LedgerStep, Ledger!LedgerNext

(* Every step keeps what the ledger needs and is a step of the ledger or a  *)
(* stutter.                                                                 *)
LEMMA RefineStep == IInv /\ LedgerOK /\ [Next]_vars => LedgerOK' /\ LedgerStep
  <1> SUFFICES ASSUME IInv, LedgerOK, [Next]_vars PROVE LedgerOK' /\ LedgerStep
    OBVIOUS
  <1> USE DEF IInv
  <1>1. ASSUME NEW c \in Call, Ask(c) PROVE LedgerOK' /\ LedgerStep
    <2>1. LedgerOK'
      BY <1>1 DEF Ask, Goto, histVars, TypeOK, KindsOK, LedgerOK
    <2>2. /\ ran' = ran
          /\ \A d \in Call : Holds(d)' <=> Holds(d)
          /\ \A d \in Call : basis'[d] = basis[d]
      BY <1>1 DEF Ask, Goto, histVars, TypeOK, Holds
    <2>3. row[c] = "none" /\ granted' = granted /\ \A d \in Call \ {c} : row'[d] = row[d]
      BY <1>1 DEF Ask, histVars, TypeOK, KindsOK
    <2>4. CASE row'[c] = "pending"
      <3>1. Requests[c] = "none" /\ RequestOf(c)' = "open"
        BY <2>3, <2>4 DEF Requests, RequestOf
      <3>2. \A d \in Call \ {c} : RequestOf(d)' = Requests[d]
        BY <2>3 DEF Requests, RequestOf
      <3>3. QED
        BY <2>1, <2>2, <3>1, <3>2, MoveStep
    <2>5. CASE row' = row
      <3>1. Unseen
        BY <1>1, <2>2, <2>3, <2>5 DEF Ask, Goto, TypeOK, Holds, Unseen
      <3>2. QED
        BY <3>1, UnseenStep
    <2>6. QED
      BY <1>1, <2>4, <2>5 DEF Ask, TypeOK
  <1>2. ASSUME NEW c \in Call, ExpireCommit(c) PROVE LedgerOK' /\ LedgerStep
    <2>1. LedgerOK'
      BY <1>2 DEF ExpireCommit, Resolvable, Decide, Return, Goto, histVars, TypeOK, LedgerOK
    <2>2. /\ ran' = ran /\ granted' = granted
          /\ \A d \in Call : Holds(d)' <=> Holds(d)
          /\ \A d \in Call : basis'[d] = basis[d]
      BY <1>2 DEF ExpireCommit, Return, Goto, histVars, TypeOK, Holds
    <2>3. CASE ~Resolvable(c)
      <3>1. Unseen
        BY <1>2, <2>2, <2>3 DEF ExpireCommit, Return, Goto, TypeOK, Holds, Unseen
      <3>2. QED
        BY <3>1, UnseenStep
    <2>4. CASE Resolvable(c) /\ c \in Command
      <3>1. row[c] = "pending" /\ row'[c] = "expired" /\ \A d \in Call \ {c} : row'[d] = row[d]
        BY <1>2, <2>4 DEF ExpireCommit, Resolvable, Decide, TypeOK
      <3>2. QED
        BY <2>1, <2>2, <3>1, CloseStep
    <2>5. CASE Resolvable(c) /\ c \notin Command
      <3>1. row[c] = "pending" /\ row'[c] = "resolved" /\ \A d \in Call \ {c} : row'[d] = row[d]
        BY <1>2, <2>5 DEF ExpireCommit, Resolvable, Decide, TypeOK
      <3>2. Requests[c] = "open" /\ RequestOf(c)' = "given"
        BY <3>1 DEF Requests, RequestOf
      <3>3. \A d \in Call \ {c} : RequestOf(d)' = Requests[d]
        BY <2>2, <3>1 DEF Requests, RequestOf
      <3>4. QED
        BY <2>1, <2>2, <3>2, <3>3, MoveStep
    <2>6. QED
      BY <2>3, <2>4, <2>5
  <1>3. ASSUME NEW c \in Call, Withdraw(c) PROVE LedgerOK' /\ LedgerStep
    <2>1. LedgerOK'
      BY <1>3 DEF Withdraw, CancelPending, Return, Goto, histVars, TypeOK, LedgerOK
    <2>2. /\ ran' = ran /\ granted' = granted
          /\ \A d \in Call : Holds(d)' <=> Holds(d)
          /\ \A d \in Call : basis'[d] = basis[d]
      BY <1>3 DEF Withdraw, Return, Goto, histVars, TypeOK, Holds
    <2>3. PICK calls \in SUBSET Call : CancelPending(calls)
      BY <1>3 DEF Withdraw, Call, Tool, Approval, Session
    <2>4. QED
      BY <2>1, <2>2, <2>3, CancelStep
  <1>4. ASSUME NEW c \in Call, Use(c) PROVE LedgerOK' /\ LedgerStep
    <2>1. Unseen
      BY <1>4 DEF Use, Goto, histVars, TypeOK, Holds, Unseen
    <2>2. QED
      BY <2>1, UnseenStep
  <1>5. ASSUME NEW c \in Call, Claim(c) PROVE LedgerOK' /\ LedgerStep
    <2>1. LedgerOK'
      BY <1>5 DEF Claim, Goto, histVars, TypeOK, LedgerOK
    <2>2. /\ row' = row /\ granted' = granted /\ ran' = ran /\ basis' = basis
          /\ pc[c] = "claim" /\ c \notin Read
      BY <1>5 DEF Claim, histVars, KindsOK
    <2>3. CASE ~(run = "running" /\ row[basis[c]] = "approved" /\ ~Halted(c))
      <3>1. Unseen
        BY <1>5, <2>2, <2>3 DEF Claim, Goto, TypeOK, Holds, Unseen
      <3>2. QED
        BY <3>1, UnseenStep
    <2>4. CASE run = "running" /\ row[basis[c]] = "approved" /\ ~Halted(c)
      <3>1. pc' = [pc EXCEPT ![c] = "dispatch"]
        BY <1>5, <2>4 DEF Claim, Goto
      <3>2. Requests' = Requests
        BY <2>2 DEF Requests, RequestOf
      <3>3. PICK b \in Call : b = basis[c] /\ SameAuthority(b, c)
        BY <2>2 DEF GrantsOK, TypeOK, Call, Tool, Approval, Session
      <3>4. Requests[b] = "given" /\ Claims[c] = NoCall /\ ran[c] = NoCall
        BY <2>2, <2>4, <3>3 DEF Requests, RequestOf, Claims, LedgerOK
      <3>5. Claims' = [Claims EXCEPT ![c] = b]
        BY <2>2, <3>1, <3>3 DEF Claims, TypeOK
      <3>6. Ledger!Claim(c, b)
        BY <2>2, <3>2, <3>3, <3>4, <3>5 DEF Ledger!Claim, Ledger!Covers, SameAuthority
      <3>7. QED
        BY <2>1, <3>6 DEF LedgerStep, Ledger!LedgerNext
    <2>5. QED
      BY <2>3, <2>4
  <1>6. ASSUME NEW c \in Call, Dispatch(c) PROVE LedgerOK' /\ LedgerStep
    <2>1. /\ row' = row /\ granted' = granted /\ basis' = basis /\ ran' = ran
          /\ pc[c] = "dispatch" /\ c \notin Read
      BY <1>6 DEF Dispatch, histVars, KindsOK
    <2>2. CASE pc' = [pc EXCEPT ![c] = "send"]
      <3>1. Unseen
        BY <2>1, <2>2 DEF TypeOK, Holds, Unseen
      <3>2. QED
        BY <3>1, UnseenStep
    <2>3. CASE pc' = [pc EXCEPT ![c] = "over"]
      <3>1. LedgerOK'
        BY <2>1, <2>3 DEF TypeOK, LedgerOK
      <3>2. Requests' = Requests /\ Claims' = [Claims EXCEPT ![c] = NoCall]
        BY <2>1, <2>3 DEF Requests, RequestOf, Claims, TypeOK
      <3>3. Claims[c] = basis[c] /\ Claims[c] # NoCall
        BY <2>1, ApprovalsAssumption DEF Claims, GrantsOK, TypeOK, Call, Tool, Approval, Session
      <3>4. Ledger!Lapse(c)
        BY <2>1, <3>2, <3>3 DEF Ledger!Lapse
      <3>5. QED
        BY <3>1, <3>4 DEF LedgerStep, Ledger!LedgerNext
    <2>4. QED
      BY <1>6, <2>2, <2>3 DEF Dispatch, Goto
  <1>7. ASSUME NEW c \in Call, NEW d \in {"approved", "denied", "resolved", "cancelled"},
               Resolve(c, d)
        PROVE  LedgerOK' /\ LedgerStep
    <2>1. LedgerOK'
      BY <1>7 DEF Resolve, Resolvable, Decide, callVars, TypeOK, LedgerOK
    <2>2. /\ ran' = ran
          /\ \A e \in Call : Holds(e)' <=> Holds(e)
          /\ \A e \in Call : basis'[e] = basis[e]
      BY <1>7 DEF Resolve, callVars, Holds
    <2>3. /\ row[c] = "pending" /\ row'[c] = Decided(c, d)
          /\ \A e \in Call \ {c} : row'[e] = row[e]
      BY <1>7 DEF Resolve, Resolvable, Decide, TypeOK
    <2>4. Decided(c, d) \in {"approved", "denied", "resolved", "cancelled", "expired"}
      BY DEF Decided
    <2>5. CASE Decided(c, d) \in {"approved", "resolved"}
      <3>1. \A e \in Call \ {c} : e \in granted' <=> e \in granted
        BY <1>7 DEF Resolve
      <3>2. Requests[c] = "open" /\ RequestOf(c)' = "given"
        BY <2>3, <2>5 DEF Requests, RequestOf
      <3>3. \A e \in Call \ {c} : RequestOf(e)' = Requests[e]
        BY <2>3, <3>1 DEF Requests, RequestOf
      <3>4. QED
        BY <2>1, <2>2, <3>2, <3>3, MoveStep
    <2>6. CASE Decided(c, d) \notin {"approved", "resolved"}
      <3>1. granted' = granted
        BY <1>7, <2>6 DEF Resolve
      <3>2. row'[c] \in {"denied", "expired", "cancelled", "interrupted"}
        BY <2>3, <2>4, <2>6
      <3>3. QED
        BY <2>1, <2>2, <2>3, <3>1, <3>2, CloseStep
    <2>7. QED
      BY <2>5, <2>6
  <1>8. CASE Clear
    <2>1. LedgerOK'
      BY <1>8 DEF Clear, callVars, histVars, TypeOK, LedgerOK
    <2>2. PICK S \in SUBSET Call : S = {c \in Session : row[c] = "approved"}
      BY DEF Call, Tool
    <2>3. \A c \in S : Requests[c] = "given" /\ RequestOf(c)' = "revoked"
      BY <1>8, <2>2 DEF Clear, histVars, Requests, RequestOf, GrantsOK, TypeOK
    <2>4. Requests' = [c \in Call |-> IF c \in S THEN "revoked" ELSE Requests[c]]
      <3>1. \A c \in Call \ S : row'[c] = row[c] /\ granted' = granted
        BY <1>8, <2>2 DEF Clear, histVars
      <3>2. QED
        BY <2>3, <3>1 DEF Requests, RequestOf
    <2>5. Claims' = Claims /\ ran' = ran
      BY <1>8 DEF Clear, callVars, histVars, Claims
    <2>6. Ledger!Revoke(S)
      BY <2>2, <2>3, <2>4, <2>5 DEF Ledger!Revoke, Ledger!MoveAll
    <2>7. QED
      BY <2>1, <2>6 DEF LedgerStep, Ledger!LedgerNext
  <1>9. CASE KillCancel \/ KillInputs
    <2>1. LedgerOK'
      BY <1>9 DEF KillCancel, KillInputs, CancelPending, callVars, histVars, TypeOK, LedgerOK
    <2>2. /\ ran' = ran /\ granted' = granted
          /\ \A d \in Call : Holds(d)' <=> Holds(d)
          /\ \A d \in Call : basis'[d] = basis[d]
      BY <1>9 DEF KillCancel, KillInputs, callVars, histVars, Holds
    <2>3. PICK calls \in SUBSET Call : CancelPending(calls)
      BY <1>9 DEF KillCancel, KillInputs, Call, Tool, Approval, Session
    <2>4. QED
      BY <2>1, <2>2, <2>3, CancelStep
  <1>10. CASE Restart
    <2>1. LedgerOK'
      BY <1>10 DEF Restart, Interrupted, histVars, TypeOK, LedgerOK
    <2>2. ran' = ran /\ granted' = granted
      BY <1>10 DEF Restart, histVars
    <2>3. \A c \in Call : RequestOf(c)' = IF Requests[c] = "open" THEN "closed" ELSE Requests[c]
      BY <1>10, <2>2 DEF Restart, Interrupted, Requests, RequestOf, LedgerOK
    <2>4. Requests' = [c \in Call |-> IF Requests[c] = "open" THEN "closed" ELSE Requests[c]]
      BY <2>3 DEF Requests, RequestOf
    <2>5. Claims' = [c \in Call |-> NoCall]
      BY <1>10 DEF Restart, Claims
    <2>6. Ledger!Restart
      BY <2>2, <2>4, <2>5 DEF Ledger!Restart
    <2>7. QED
      BY <2>1, <2>6 DEF LedgerStep, Ledger!LedgerNext
  <1>11. ASSUME NEW c \in Call,
                \/ Begin(c) \/ Enter(c) \/ Deliver(c) \/ Reread(c) \/ Leave(c) \/ LeaveCommit(c)
                \/ Expire(c) \/ Timeout(c) \/ Send(c)
         PROVE  LedgerOK' /\ LedgerStep
    BY <1>11, CallUnseen, UnseenStep
  <1>12. CASE \/ Kill \/ CancelRuns \/ KillList \/ KillClose \/ Resume \/ UNCHANGED vars
              \/ \E ending \in {"succeeded", "failed"} : EndTurn(ending)
    BY <1>12, RunUnseen, UnseenStep
  <1>13. ASSUME NEW c \in Call, Execute(c) PROVE LedgerOK' /\ LedgerStep
    <2>1. /\ row' = row /\ granted' = granted /\ basis' = basis
          /\ pc[c] = "send" /\ pc' = [pc EXCEPT ![c] = "over"]
      BY <1>13 DEF Execute, Goto
    <2>2. ran' = ran \/ ran' = [ran EXCEPT ![c] = basis[c]]
      BY <1>13 DEF Execute
    <2>3. LedgerOK'
      BY <2>1, <2>2 DEF TypeOK, LedgerOK
    <2>4. Requests' = Requests
      BY <2>1 DEF Requests, RequestOf
    <2>5. PICK b \in Call : b = basis[c] /\ b \in granted /\ SameAuthority(b, c)
      BY <2>1 DEF GrantsOK, TypeOK, Call, Tool, Approval, Session
    <2>6. b # NoCall /\ ran[c] = NoCall
      BY <2>1, <2>5, ApprovalsAssumption DEF LedgerOK
    <2>7. CASE c \in Read
      <3>1. Claims' = Claims
        BY <2>1, <2>7 DEF Claims, TypeOK
      <3>2. CASE ran' = ran
        BY <2>3, <2>4, <3>1, <3>2 DEF LedgerStep
      <3>3. CASE ran' = [ran EXCEPT ![c] = basis[c]]
        <4>1. Requests[b] \in {"given", "revoked"}
          BY <2>5 DEF Requests, RequestOf, LedgerOK
        <4>2. Ledger!Look(c, b)
          BY <2>4, <2>5, <2>6, <2>7, <3>1, <3>3, <4>1 DEF Ledger!Look, Ledger!Covers, SameAuthority
        <4>3. QED
          BY <2>3, <4>2 DEF LedgerStep, Ledger!LedgerNext
      <3>4. QED
        BY <2>2, <3>2, <3>3
    <2>8. CASE c \notin Read
      <3>1. Claims' = [Claims EXCEPT ![c] = NoCall] /\ Claims[c] = b
        BY <2>1, <2>5, <2>8 DEF Claims, TypeOK
      <3>2. CASE ran' = ran
        <4>1. Ledger!Lapse(c)
          BY <2>4, <3>1, <3>2 DEF Ledger!Lapse
        <4>2. QED
          BY <2>3, <4>1 DEF LedgerStep, Ledger!LedgerNext
      <3>3. CASE ran' = [ran EXCEPT ![c] = basis[c]]
        <4>1. Ledger!Send(c)
          BY <2>4, <2>5, <2>6, <3>1, <3>3 DEF Ledger!Send
        <4>2. QED
          BY <2>3, <4>1 DEF LedgerStep, Ledger!LedgerNext
      <3>4. QED
        BY <2>2, <3>2, <3>3
    <2>9. QED
      BY <2>7, <2>8
  <1>14. QED
    BY <1>1, <1>2, <1>3, <1>4, <1>5, <1>6, <1>7, <1>8, <1>9, <1>10, <1>11, <1>12, <1>13
       DEF Next, CallStep, User, Killer

(* ImplementsLedger: a request is decided once, nothing is claimed on an    *)
(* approval that was taken back, and what takes effect relied on a request  *)
(* that was given and covers it.                                            *)
THEOREM Refinement == Spec => ImplementsLedger
  <1>1. Init => LedgerOK
    BY DEF Init, LedgerOK
  <1>2. Init => Ledger!LedgerInit
    BY DEF Init, Ledger!LedgerInit, Requests, RequestOf, Claims
  <1>3. IInv /\ LedgerOK /\ [Next]_vars => LedgerOK' /\ [Ledger!LedgerNext]_(Ledger!ledgerVars)
    BY RefineStep DEF LedgerStep, Ledger!ledgerVars
  <1>4. QED
    BY Invariance, <1>1, <1>2, <1>3, PTL DEF Spec, ImplementsLedger, Ledger!LedgerSpec
=============================================================================
