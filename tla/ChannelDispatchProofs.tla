------------------------ MODULE ChannelDispatchProofs ------------------------
(***************************************************************************)
(* What holds of the intake and the dispatch of a Session's messages for    *)
(* any messages, streams, hooks, concurrent requests and faults: the types, *)
(* that a hook answered with success has its row, that a settled row stays  *)
(* settled, that a chat has one Run at a time, and that its replies tell    *)
(* the truth.                                                               *)
(***************************************************************************)
EXTENDS ChannelDispatch, FiniteSetTheorems, TLAPS

(* The loop waits for the executor it has registered itself.               *)
LoopOK == \A m \in Message : exec[m] = "loop" => at = "executing" /\ msg = m

(* A row past its launch has a Run, and at most one Run is not over.        *)
RunsOK ==
  /\ \A m, n \in Message : run[m] \in Active /\ run[n] \in Active => m = n
  /\ \A m \in Message : status[m] = "run_created" => run[m] # "none"

(* From its decision to the end of the turn the loop stands by its reply:   *)
(* the Run it calls answered has succeeded, and what it closes the row over *)
(* is in the outbox.                                                        *)
WantOK ==
  /\ at \in {"enqueue", "finish"} /\ want = "answer" => run[msg] = "succeeded"
  /\ at = "finish" => want \in replies[msg]

IInv == TypeOK /\ LoopOK /\ RunsOK /\ WantOK /\ RepliesTruthful /\ HookAckDurable

-----------------------------------------------------------------------------
(* Both processes keep the types.                                           *)
LEMMA TypeStep == TypeOK /\ LoopOK /\ [Next]_vars => TypeOK'
  <1> SUFFICES ASSUME TypeOK, LoopOK, [Next]_vars PROVE TypeOK'
    OBVIOUS
  <1> USE IntakeAssumption, DispatchAssumption
  <1>1. ASSUME NEW m \in Message, Push(m), UNCHANGED <<control, dispatchVars>>
        PROVE  TypeOK'
    <2>1. platform' \in [Message -> {"waiting", "acked"}]
      BY <1>1 DEF Push, Answer, TypeOK, IntakeType
    <2>2. faults' \in 0 .. MaxFaults
      BY <1>1 DEF Push, Answer, TypeOK, IntakeType
    <2>3. recent' \subseteq Stream /\ inbox' \subseteq recent'
      BY <1>1 DEF Push, TypeOK, IntakeType
    <2>4. queue' \subseteq recent' \ Malformed
      BY <1>1 DEF Push, TypeOK, IntakeType
    <2>5. IntakeType'
      BY <1>1, <2>1, <2>2, <2>3, <2>4 DEF Push, TypeOK, IntakeType
    <2>6. QED
      BY <1>1, <2>5 DEF dispatchVars, runVars, loopVars, TypeOK, RunStatuses,
         Replies, Places
  <1>2. ASSUME NEW m \in Message, Normalize(m), UNCHANGED <<control, dispatchVars>>
        PROVE  TypeOK'
    <2>1. IntakeType'
      <3>1. inbox' \subseteq recent' /\ queue' \subseteq recent' \ Malformed
        BY <1>2 DEF Normalize, TypeOK, IntakeType
      <3>2. healthy' \in BOOLEAN
        BY <1>2 DEF Normalize, TypeOK, IntakeType
      <3>3. QED
        BY <1>2, <3>1, <3>2 DEF Normalize, TypeOK, IntakeType
    <2>2. QED
      BY <1>2, <2>1 DEF dispatchVars, runVars, loopVars, TypeOK, RunStatuses,
         Replies, Places
  <1>3. ASSUME NEW m \in Message, Take(m), UNCHANGED <<control, dispatchVars>>
        PROVE  TypeOK'
    BY <1>3 DEF Take, intakeVars, dispatchVars, runVars, loopVars, TypeOK,
       IntakeType, Statuses, Hook, Active, RunStatuses, Replies, Places, LoopOK
  <1>4. ASSUME NEW m \in Message, Post(m), UNCHANGED <<control, dispatchVars>>
        PROVE  TypeOK'
    BY <1>4 DEF Post, Answer, Hook, intakeVars, dispatchVars, runVars,
       loopVars, TypeOK, IntakeType, Statuses, Active, RunStatuses, Replies,
       Places, LoopOK
  <1>5. ASSUME NEW m \in Message, Insert(m), UNCHANGED <<control, dispatchVars>>
        PROVE  TypeOK'
    BY <1>5 DEF Insert, Answer, Hook, intakeVars, dispatchVars, runVars,
       loopVars, TypeOK, IntakeType, Statuses, Active, RunStatuses, Replies,
       Places, LoopOK
  <1>6. ASSUME NEW m \in Message, InsertFails(m), UNCHANGED <<control, dispatchVars>>
        PROVE  TypeOK'
    BY <1>6 DEF InsertFails, intakeVars, dispatchVars, runVars, loopVars,
       TypeOK, IntakeType, Statuses, Hook, Active, RunStatuses, Replies, Places,
       LoopOK
  <1>7. ASSUME Reload, UNCHANGED <<control, dispatchVars>>
        PROVE  TypeOK'
    BY <1>7 DEF Reload, intakeVars, dispatchVars, runVars, loopVars, TypeOK,
       IntakeType, Statuses, Hook, Active, RunStatuses, Replies, Places, LoopOK
  <1>8. ASSUME GatewayCrash, UNCHANGED <<control, dispatchVars>>
        PROVE  TypeOK'
    BY <1>8 DEF GatewayCrash, intakeVars, dispatchVars, runVars, loopVars,
       TypeOK, IntakeType, Statuses, Hook, Active, RunStatuses, Replies, Places,
       LoopOK
  <1>9. ASSUME NEW m \in Message, Claim(m), UNCHANGED control
        PROVE  TypeOK'
    BY <1>9 DEF Claim, Claimable, SetRow, intakeVars, rowVars, runVars,
       loopVars, TypeOK, IntakeType, Statuses, Hook, Active, RunStatuses,
       Replies, Places, LoopOK
  <1>10. ASSUME Command, UNCHANGED control
        PROVE  TypeOK'
    BY <1>10 DEF Command, Goto, intakeVars, rowVars, runVars, loopVars,
       TypeOK, IntakeType, Statuses, Hook, Active, RunStatuses, Replies, Places,
       LoopOK
  <1>11. ASSUME Launch, UNCHANGED control
        PROVE  TypeOK'
    BY <1>11 DEF Launch, Goto, intakeVars, rowVars, runVars, loopVars, TypeOK,
       IntakeType, Statuses, Hook, Active, RunStatuses, Replies, Places, LoopOK
  <1>12. ASSUME Prepare, UNCHANGED control
        PROVE  TypeOK'
    BY <1>12 DEF Prepare, Goto, intakeVars, rowVars, runVars, loopVars,
       TypeOK, IntakeType, Statuses, Hook, Active, RunStatuses, Replies, Places,
       LoopOK
  <1>13. ASSUME PrepareFails, UNCHANGED control
        PROVE  TypeOK'
    BY <1>13 DEF PrepareFails, Goto, Interruptible, intakeVars, rowVars,
       runVars, loopVars, TypeOK, IntakeType, Statuses, Hook, Active,
       RunStatuses, Replies, Places, LoopOK
  <1>14. ASSUME Execute, UNCHANGED control
        PROVE  TypeOK'
    BY <1>14 DEF Execute, Goto, intakeVars, rowVars, runVars, loopVars,
       TypeOK, IntakeType, Statuses, Hook, Active, RunStatuses, Replies, Places,
       LoopOK
  <1>15. ASSUME Read, UNCHANGED control
        PROVE  TypeOK'
    BY <1>15 DEF Read, Goto, Verdict, intakeVars, rowVars, runVars, loopVars,
       TypeOK, IntakeType, Statuses, Hook, Active, RunStatuses, Replies, Places,
       LoopOK
  <1>16. ASSUME Enqueue, UNCHANGED control
        PROVE  TypeOK'
    BY <1>16 DEF Enqueue, Goto, intakeVars, rowVars, runVars, loopVars,
       TypeOK, IntakeType, Statuses, Hook, Active, RunStatuses, Replies, Places,
       LoopOK
  <1>17. ASSUME Errs, UNCHANGED control
        PROVE  TypeOK'
    BY <1>17 DEF Errs, Goto, intakeVars, rowVars, runVars, loopVars, TypeOK,
       IntakeType, Statuses, Hook, Active, RunStatuses, Replies, Places, LoopOK
  <1>18. ASSUME Finish, UNCHANGED control
        PROVE  TypeOK'
    <2> USE <1>18 DEF Finish, intakeVars, rowVars, runVars, loopVars
    <2>1. msg \in Message
      BY DEF TypeOK
    <2>2. CASE status[msg] = (IF want = "control" THEN "claimed" ELSE "run_created")
      <3>1. status' \in [Message -> Statuses]
        BY <2>1, <2>2 DEF SetRow, Final, TypeOK, IntakeType, Statuses
      <3>2. claimOver' \in [Message -> BOOLEAN]
        BY <2>1, <2>2 DEF SetRow, TypeOK
      <3>3. QED
        BY <2>2, <3>1, <3>2 DEF Rest, TypeOK, IntakeType, RunStatuses, Replies, Places
    <2>3. CASE status[msg] # (IF want = "control" THEN "claimed" ELSE "run_created")
      BY <2>1, <2>3 DEF Goto, TypeOK, IntakeType, Places
    <2>4. QED
      BY <2>2, <2>3
  <1>19. ASSUME Fail, UNCHANGED control
        PROVE  TypeOK'
    <2> USE <1>19 DEF Fail, intakeVars, rowVars, runVars
    <2>1. msg \in Message
      BY DEF TypeOK
    <2>2. status' \in [Message -> Statuses]
      BY <2>1 DEF SetRow, TypeOK, IntakeType, Statuses
    <2>3. claimOver' \in [Message -> BOOLEAN]
      BY <2>1 DEF SetRow, TypeOK
    <2>4. faults' \in 0 .. MaxFaults
      <3>1. faults' = faults \/ (faults < MaxFaults /\ faults' = faults + 1)
        BY DEF SetRow
      <3>2. QED
        BY <3>1 DEF TypeOK, IntakeType
    <2>5. QED
      BY <2>2, <2>3, <2>4 DEF Rest, TypeOK, IntakeType, RunStatuses, Replies, Places
  <1>20. ASSUME Reconcile, UNCHANGED control
        PROVE  TypeOK'
    BY <1>20 DEF Reconcile, Lapsed, intakeVars, rowVars, runVars, loopVars,
       TypeOK, IntakeType, Statuses, Hook, Active, RunStatuses, Replies, Places,
       LoopOK
  <1>21. ASSUME DesktopCrash, UNCHANGED control
        PROVE  TypeOK'
    BY <1>21 DEF DesktopCrash, Rest, intakeVars, rowVars, runVars, loopVars,
       TypeOK, IntakeType, Statuses, Hook, Active, RunStatuses, Replies, Places,
       LoopOK
  <1>22. ASSUME NEW m \in Message, Expire(m), UNCHANGED control
        PROVE  TypeOK'
    BY <1>22 DEF Expire, Stalled, intakeVars, rowVars, runVars, loopVars,
       TypeOK, IntakeType, Statuses, Hook, Active, RunStatuses, Replies, Places,
       LoopOK
  <1>23. ASSUME NEW m \in Message, ExecBegin(m), UNCHANGED control
        PROVE  TypeOK'
    BY <1>23 DEF ExecBegin, intakeVars, rowVars, runVars, loopVars, TypeOK,
       IntakeType, Statuses, Hook, Active, RunStatuses, Replies, Places, LoopOK
  <1>24. ASSUME NEW m \in Message, ExecRefused(m), UNCHANGED control
        PROVE  TypeOK'
    BY <1>24 DEF ExecRefused, Leave, Goto, intakeVars, rowVars, runVars,
       loopVars, TypeOK, IntakeType, Statuses, Hook, Active, RunStatuses,
       Replies, Places, LoopOK
  <1>25. ASSUME NEW m \in Message, ExecEnd(m), UNCHANGED control
        PROVE  TypeOK'
    BY <1>25 DEF ExecEnd, Leave, Goto, intakeVars, rowVars, runVars, loopVars,
       TypeOK, IntakeType, Statuses, Hook, Active, RunStatuses, Replies, Places,
       LoopOK
  <1>26. ASSUME NEW m \in Message, UserCancel(m), UNCHANGED control
        PROVE  TypeOK'
    BY <1>26 DEF UserCancel, intakeVars, rowVars, runVars, loopVars, TypeOK,
       IntakeType, Statuses, Hook, Active, RunStatuses, Replies, Places, LoopOK
  <1>27. ASSUME NEW m \in Message, Resume(m), UNCHANGED control
        PROVE  TypeOK'
    BY <1>27 DEF Resume, intakeVars, rowVars, runVars, loopVars, TypeOK,
       IntakeType, Statuses, Hook, Active, RunStatuses, Replies, Places, LoopOK
  <1>28. ASSUME NEW m \in Message, Spawn(m), UNCHANGED control
        PROVE  TypeOK'
    BY <1>28 DEF Spawn, intakeVars, rowVars, runVars, loopVars, TypeOK,
       IntakeType, Statuses, Hook, Active, RunStatuses, Replies, Places, LoopOK
  <1>29. CASE UNCHANGED vars
    BY <1>29 DEF vars, intakeVars, dispatchVars, runVars, loopVars, TypeOK,
       IntakeType, Statuses, Hook, Active, RunStatuses, Replies, Places, LoopOK
  <1>30. QED
    BY <1>1, <1>2, <1>3, <1>4, <1>5, <1>6, <1>7, <1>8, <1>9, <1>10, <1>11,
       <1>12, <1>13, <1>14, <1>15, <1>16, <1>17, <1>18, <1>19, <1>20, <1>21,
       <1>22, <1>23, <1>24, <1>25, <1>26, <1>27, <1>28, <1>29 DEF Next, Intake,
       Dispatch, LoopStep, ExecStep

(* Only the loop runs what it has registered.                               *)
LEMMA LoopStepOK == TypeOK /\ LoopOK /\ [Next]_vars => LoopOK'
  <1> SUFFICES ASSUME TypeOK, LoopOK, [Next]_vars PROVE LoopOK'
    OBVIOUS
  <1> USE IntakeAssumption, DispatchAssumption
  <1>1. ASSUME NEW m \in Message, Push(m), UNCHANGED <<control, dispatchVars>>
        PROVE  LoopOK'
    BY <1>1 DEF Push, Answer, intakeVars, dispatchVars, runVars, loopVars,
       TypeOK, LoopOK
  <1>2. ASSUME NEW m \in Message, Normalize(m), UNCHANGED <<control, dispatchVars>>
        PROVE  LoopOK'
    BY <1>2 DEF Normalize, intakeVars, dispatchVars, runVars, loopVars,
       TypeOK, LoopOK
  <1>3. ASSUME NEW m \in Message, Take(m), UNCHANGED <<control, dispatchVars>>
        PROVE  LoopOK'
    BY <1>3 DEF Take, intakeVars, dispatchVars, runVars, loopVars, TypeOK,
       LoopOK
  <1>4. ASSUME NEW m \in Message, Post(m), UNCHANGED <<control, dispatchVars>>
        PROVE  LoopOK'
    BY <1>4 DEF Post, Answer, Hook, intakeVars, dispatchVars, runVars,
       loopVars, TypeOK, LoopOK
  <1>5. ASSUME NEW m \in Message, Insert(m), UNCHANGED <<control, dispatchVars>>
        PROVE  LoopOK'
    BY <1>5 DEF Insert, Answer, Hook, intakeVars, dispatchVars, runVars,
       loopVars, TypeOK, LoopOK
  <1>6. ASSUME NEW m \in Message, InsertFails(m), UNCHANGED <<control, dispatchVars>>
        PROVE  LoopOK'
    BY <1>6 DEF InsertFails, intakeVars, dispatchVars, runVars, loopVars,
       TypeOK, LoopOK
  <1>7. ASSUME Reload, UNCHANGED <<control, dispatchVars>>
        PROVE  LoopOK'
    BY <1>7 DEF Reload, intakeVars, dispatchVars, runVars, loopVars, TypeOK,
       LoopOK
  <1>8. ASSUME GatewayCrash, UNCHANGED <<control, dispatchVars>>
        PROVE  LoopOK'
    BY <1>8 DEF GatewayCrash, intakeVars, dispatchVars, runVars, loopVars,
       TypeOK, LoopOK
  <1>9. ASSUME NEW m \in Message, Claim(m), UNCHANGED control
        PROVE  LoopOK'
    BY <1>9 DEF Claim, Claimable, SetRow, intakeVars, rowVars, runVars,
       loopVars, TypeOK, LoopOK
  <1>10. ASSUME Command, UNCHANGED control
        PROVE  LoopOK'
    BY <1>10 DEF Command, Goto, intakeVars, rowVars, runVars, loopVars,
       TypeOK, LoopOK
  <1>11. ASSUME Launch, UNCHANGED control
        PROVE  LoopOK'
    BY <1>11 DEF Launch, Goto, intakeVars, rowVars, runVars, loopVars, TypeOK,
       LoopOK
  <1>12. ASSUME Prepare, UNCHANGED control
        PROVE  LoopOK'
    BY <1>12 DEF Prepare, Goto, intakeVars, rowVars, runVars, loopVars,
       TypeOK, LoopOK
  <1>13. ASSUME PrepareFails, UNCHANGED control
        PROVE  LoopOK'
    BY <1>13 DEF PrepareFails, Goto, Interruptible, intakeVars, rowVars,
       runVars, loopVars, TypeOK, LoopOK
  <1>14. ASSUME Execute, UNCHANGED control
        PROVE  LoopOK'
    BY <1>14 DEF Execute, Goto, intakeVars, rowVars, runVars, loopVars,
       TypeOK, LoopOK
  <1>15. ASSUME Read, UNCHANGED control
        PROVE  LoopOK'
    BY <1>15 DEF Read, Goto, Verdict, intakeVars, rowVars, runVars, loopVars,
       TypeOK, LoopOK
  <1>16. ASSUME Enqueue, UNCHANGED control
        PROVE  LoopOK'
    BY <1>16 DEF Enqueue, Goto, intakeVars, rowVars, runVars, loopVars,
       TypeOK, LoopOK
  <1>17. ASSUME Errs, UNCHANGED control
        PROVE  LoopOK'
    BY <1>17 DEF Errs, Goto, intakeVars, rowVars, runVars, loopVars, TypeOK,
       LoopOK
  <1>18. ASSUME Finish, UNCHANGED control
        PROVE  LoopOK'
    BY <1>18 DEF Finish, Goto, Final, SetRow, Rest, intakeVars, rowVars,
       runVars, loopVars, TypeOK, LoopOK
  <1>19. ASSUME Fail, UNCHANGED control
        PROVE  LoopOK'
    BY <1>19 DEF Fail, SetRow, Rest, intakeVars, rowVars, runVars, loopVars,
       TypeOK, LoopOK
  <1>20. ASSUME Reconcile, UNCHANGED control
        PROVE  LoopOK'
    BY <1>20 DEF Reconcile, Lapsed, intakeVars, rowVars, runVars, loopVars,
       TypeOK, LoopOK
  <1>21. ASSUME DesktopCrash, UNCHANGED control
        PROVE  LoopOK'
    BY <1>21 DEF DesktopCrash, Rest, intakeVars, rowVars, runVars, loopVars,
       TypeOK, LoopOK
  <1>22. ASSUME NEW m \in Message, Expire(m), UNCHANGED control
        PROVE  LoopOK'
    BY <1>22 DEF Expire, Stalled, intakeVars, rowVars, runVars, loopVars,
       TypeOK, LoopOK
  <1>23. ASSUME NEW m \in Message, ExecBegin(m), UNCHANGED control
        PROVE  LoopOK'
    BY <1>23 DEF ExecBegin, intakeVars, rowVars, runVars, loopVars, TypeOK,
       LoopOK
  <1>24. ASSUME NEW m \in Message, ExecRefused(m), UNCHANGED control
        PROVE  LoopOK'
    BY <1>24 DEF ExecRefused, Leave, Goto, intakeVars, rowVars, runVars,
       loopVars, TypeOK, LoopOK
  <1>25. ASSUME NEW m \in Message, ExecEnd(m), UNCHANGED control
        PROVE  LoopOK'
    BY <1>25 DEF ExecEnd, Leave, Goto, intakeVars, rowVars, runVars, loopVars,
       TypeOK, LoopOK
  <1>26. ASSUME NEW m \in Message, UserCancel(m), UNCHANGED control
        PROVE  LoopOK'
    BY <1>26 DEF UserCancel, intakeVars, rowVars, runVars, loopVars, TypeOK,
       LoopOK
  <1>27. ASSUME NEW m \in Message, Resume(m), UNCHANGED control
        PROVE  LoopOK'
    BY <1>27 DEF Resume, intakeVars, rowVars, runVars, loopVars, TypeOK,
       LoopOK
  <1>28. ASSUME NEW m \in Message, Spawn(m), UNCHANGED control
        PROVE  LoopOK'
    BY <1>28 DEF Spawn, intakeVars, rowVars, runVars, loopVars, TypeOK, LoopOK
  <1>29. CASE UNCHANGED vars
    BY <1>29 DEF vars, intakeVars, dispatchVars, runVars, loopVars, TypeOK,
       LoopOK
  <1>30. QED
    BY <1>1, <1>2, <1>3, <1>4, <1>5, <1>6, <1>7, <1>8, <1>9, <1>10, <1>11,
       <1>12, <1>13, <1>14, <1>15, <1>16, <1>17, <1>18, <1>19, <1>20, <1>21,
       <1>22, <1>23, <1>24, <1>25, <1>26, <1>27, <1>28, <1>29 DEF Next, Intake,
       Dispatch, LoopStep, ExecStep

(* A launch counts the Session's Runs, and a Run stays one.                 *)
LEMMA RunsStep == TypeOK /\ RunsOK /\ [Next]_vars => RunsOK'
  <1> SUFFICES ASSUME TypeOK, RunsOK, [Next]_vars PROVE RunsOK'
    OBVIOUS
  <1> USE IntakeAssumption, DispatchAssumption
  <1>1. ASSUME NEW m \in Message, Push(m), UNCHANGED <<control, dispatchVars>>
        PROVE  RunsOK'
    BY <1>1 DEF Push, Answer, intakeVars, dispatchVars, runVars, loopVars,
       TypeOK, IntakeType, RunsOK, Active
  <1>2. ASSUME NEW m \in Message, Normalize(m), UNCHANGED <<control, dispatchVars>>
        PROVE  RunsOK'
    BY <1>2 DEF Normalize, intakeVars, dispatchVars, runVars, loopVars,
       TypeOK, IntakeType, RunsOK, Active
  <1>3. ASSUME NEW m \in Message, Take(m), UNCHANGED <<control, dispatchVars>>
        PROVE  RunsOK'
    BY <1>3 DEF Take, intakeVars, dispatchVars, runVars, loopVars, TypeOK,
       IntakeType, RunsOK, Active
  <1>4. ASSUME NEW m \in Message, Post(m), UNCHANGED <<control, dispatchVars>>
        PROVE  RunsOK'
    BY <1>4 DEF Post, Answer, Hook, intakeVars, dispatchVars, runVars,
       loopVars, TypeOK, IntakeType, RunsOK, Active
  <1>5. ASSUME NEW m \in Message, Insert(m), UNCHANGED <<control, dispatchVars>>
        PROVE  RunsOK'
    BY <1>5 DEF Insert, Answer, Hook, intakeVars, dispatchVars, runVars,
       loopVars, TypeOK, IntakeType, RunsOK, Active
  <1>6. ASSUME NEW m \in Message, InsertFails(m), UNCHANGED <<control, dispatchVars>>
        PROVE  RunsOK'
    BY <1>6 DEF InsertFails, intakeVars, dispatchVars, runVars, loopVars,
       TypeOK, IntakeType, RunsOK, Active
  <1>7. ASSUME Reload, UNCHANGED <<control, dispatchVars>>
        PROVE  RunsOK'
    BY <1>7 DEF Reload, intakeVars, dispatchVars, runVars, loopVars, TypeOK,
       IntakeType, RunsOK, Active
  <1>8. ASSUME GatewayCrash, UNCHANGED <<control, dispatchVars>>
        PROVE  RunsOK'
    BY <1>8 DEF GatewayCrash, intakeVars, dispatchVars, runVars, loopVars,
       TypeOK, IntakeType, RunsOK, Active
  <1>9. ASSUME NEW m \in Message, Claim(m), UNCHANGED control
        PROVE  RunsOK'
    BY <1>9 DEF Claim, Claimable, SetRow, intakeVars, rowVars, runVars,
       loopVars, TypeOK, IntakeType, RunsOK, Active
  <1>10. ASSUME Command, UNCHANGED control
        PROVE  RunsOK'
    BY <1>10 DEF Command, Goto, intakeVars, rowVars, runVars, loopVars,
       TypeOK, IntakeType, RunsOK, Active
  <1>11. ASSUME Launch, UNCHANGED control
        PROVE  RunsOK'
    BY <1>11 DEF Launch, Goto, intakeVars, rowVars, runVars, loopVars, TypeOK,
       IntakeType, RunsOK, Active
  <1>12. ASSUME Prepare, UNCHANGED control
        PROVE  RunsOK'
    BY <1>12 DEF Prepare, Goto, intakeVars, rowVars, runVars, loopVars,
       TypeOK, IntakeType, RunsOK, Active
  <1>13. ASSUME PrepareFails, UNCHANGED control
        PROVE  RunsOK'
    BY <1>13 DEF PrepareFails, Goto, Interruptible, intakeVars, rowVars,
       runVars, loopVars, TypeOK, IntakeType, RunsOK, Active
  <1>14. ASSUME Execute, UNCHANGED control
        PROVE  RunsOK'
    BY <1>14 DEF Execute, Goto, intakeVars, rowVars, runVars, loopVars,
       TypeOK, IntakeType, RunsOK, Active
  <1>15. ASSUME Read, UNCHANGED control
        PROVE  RunsOK'
    BY <1>15 DEF Read, Goto, Verdict, intakeVars, rowVars, runVars, loopVars,
       TypeOK, IntakeType, RunsOK, Active
  <1>16. ASSUME Enqueue, UNCHANGED control
        PROVE  RunsOK'
    BY <1>16 DEF Enqueue, Goto, intakeVars, rowVars, runVars, loopVars,
       TypeOK, IntakeType, RunsOK, Active
  <1>17. ASSUME Errs, UNCHANGED control
        PROVE  RunsOK'
    BY <1>17 DEF Errs, Goto, intakeVars, rowVars, runVars, loopVars, TypeOK,
       IntakeType, RunsOK, Active
  <1>18. ASSUME Finish, UNCHANGED control
        PROVE  RunsOK'
    BY <1>18 DEF Finish, Goto, Final, SetRow, Rest, intakeVars, rowVars,
       runVars, loopVars, TypeOK, IntakeType, RunsOK, Active
  <1>19. ASSUME Fail, UNCHANGED control
        PROVE  RunsOK'
    BY <1>19 DEF Fail, SetRow, Rest, intakeVars, rowVars, runVars, loopVars,
       TypeOK, IntakeType, RunsOK, Active
  <1>20. ASSUME Reconcile, UNCHANGED control
        PROVE  RunsOK'
    BY <1>20 DEF Reconcile, Lapsed, intakeVars, rowVars, runVars, loopVars,
       TypeOK, IntakeType, RunsOK, Active
  <1>21. ASSUME DesktopCrash, UNCHANGED control
        PROVE  RunsOK'
    BY <1>21 DEF DesktopCrash, Rest, intakeVars, rowVars, runVars, loopVars,
       TypeOK, IntakeType, RunsOK, Active
  <1>22. ASSUME NEW m \in Message, Expire(m), UNCHANGED control
        PROVE  RunsOK'
    BY <1>22 DEF Expire, Stalled, intakeVars, rowVars, runVars, loopVars,
       TypeOK, IntakeType, RunsOK, Active
  <1>23. ASSUME NEW m \in Message, ExecBegin(m), UNCHANGED control
        PROVE  RunsOK'
    BY <1>23 DEF ExecBegin, intakeVars, rowVars, runVars, loopVars, TypeOK,
       IntakeType, RunsOK, Active
  <1>24. ASSUME NEW m \in Message, ExecRefused(m), UNCHANGED control
        PROVE  RunsOK'
    BY <1>24 DEF ExecRefused, Leave, Goto, intakeVars, rowVars, runVars,
       loopVars, TypeOK, IntakeType, RunsOK, Active
  <1>25. ASSUME NEW m \in Message, ExecEnd(m), UNCHANGED control
        PROVE  RunsOK'
    BY <1>25 DEF ExecEnd, Leave, Goto, intakeVars, rowVars, runVars, loopVars,
       TypeOK, IntakeType, RunsOK, Active
  <1>26. ASSUME NEW m \in Message, UserCancel(m), UNCHANGED control
        PROVE  RunsOK'
    BY <1>26 DEF UserCancel, intakeVars, rowVars, runVars, loopVars, TypeOK,
       IntakeType, RunsOK, Active
  <1>27. ASSUME NEW m \in Message, Resume(m), UNCHANGED control
        PROVE  RunsOK'
    BY <1>27 DEF Resume, intakeVars, rowVars, runVars, loopVars, TypeOK,
       IntakeType, RunsOK, Active
  <1>28. ASSUME NEW m \in Message, Spawn(m), UNCHANGED control
        PROVE  RunsOK'
    BY <1>28 DEF Spawn, intakeVars, rowVars, runVars, loopVars, TypeOK,
       IntakeType, RunsOK, Active
  <1>29. CASE UNCHANGED vars
    BY <1>29 DEF vars, intakeVars, dispatchVars, runVars, loopVars, TypeOK,
       IntakeType, RunsOK, Active
  <1>30. QED
    BY <1>1, <1>2, <1>3, <1>4, <1>5, <1>6, <1>7, <1>8, <1>9, <1>10, <1>11,
       <1>12, <1>13, <1>14, <1>15, <1>16, <1>17, <1>18, <1>19, <1>20, <1>21,
       <1>22, <1>23, <1>24, <1>25, <1>26, <1>27, <1>28, <1>29 DEF Next, Intake,
       Dispatch, LoopStep, ExecStep

(* A Run that has succeeded stays so.                                       *)
LEMMA WantStep == TypeOK /\ LoopOK /\ WantOK /\ [Next]_vars => WantOK'
  <1> SUFFICES ASSUME TypeOK, LoopOK, WantOK, [Next]_vars PROVE WantOK'
    OBVIOUS
  <1> USE IntakeAssumption, DispatchAssumption
  <1>1. ASSUME NEW m \in Message, Push(m), UNCHANGED <<control, dispatchVars>>
        PROVE  WantOK'
    BY <1>1 DEF Push, Answer, intakeVars, dispatchVars, runVars, loopVars,
       TypeOK, IntakeType, Statuses, Hook, Active, RunStatuses, Replies, Places,
       LoopOK, WantOK
  <1>2. ASSUME NEW m \in Message, Normalize(m), UNCHANGED <<control, dispatchVars>>
        PROVE  WantOK'
    BY <1>2 DEF Normalize, intakeVars, dispatchVars, runVars, loopVars,
       TypeOK, IntakeType, Statuses, Hook, Active, RunStatuses, Replies, Places,
       LoopOK, WantOK
  <1>3. ASSUME NEW m \in Message, Take(m), UNCHANGED <<control, dispatchVars>>
        PROVE  WantOK'
    BY <1>3 DEF Take, intakeVars, dispatchVars, runVars, loopVars, TypeOK,
       IntakeType, Statuses, Hook, Active, RunStatuses, Replies, Places, LoopOK,
       WantOK
  <1>4. ASSUME NEW m \in Message, Post(m), UNCHANGED <<control, dispatchVars>>
        PROVE  WantOK'
    BY <1>4 DEF Post, Answer, Hook, intakeVars, dispatchVars, runVars,
       loopVars, TypeOK, IntakeType, Statuses, Active, RunStatuses, Replies,
       Places, LoopOK, WantOK
  <1>5. ASSUME NEW m \in Message, Insert(m), UNCHANGED <<control, dispatchVars>>
        PROVE  WantOK'
    BY <1>5 DEF Insert, Answer, Hook, intakeVars, dispatchVars, runVars,
       loopVars, TypeOK, IntakeType, Statuses, Active, RunStatuses, Replies,
       Places, LoopOK, WantOK
  <1>6. ASSUME NEW m \in Message, InsertFails(m), UNCHANGED <<control, dispatchVars>>
        PROVE  WantOK'
    BY <1>6 DEF InsertFails, intakeVars, dispatchVars, runVars, loopVars,
       TypeOK, IntakeType, Statuses, Hook, Active, RunStatuses, Replies, Places,
       LoopOK, WantOK
  <1>7. ASSUME Reload, UNCHANGED <<control, dispatchVars>>
        PROVE  WantOK'
    BY <1>7 DEF Reload, intakeVars, dispatchVars, runVars, loopVars, TypeOK,
       IntakeType, Statuses, Hook, Active, RunStatuses, Replies, Places, LoopOK,
       WantOK
  <1>8. ASSUME GatewayCrash, UNCHANGED <<control, dispatchVars>>
        PROVE  WantOK'
    BY <1>8 DEF GatewayCrash, intakeVars, dispatchVars, runVars, loopVars,
       TypeOK, IntakeType, Statuses, Hook, Active, RunStatuses, Replies, Places,
       LoopOK, WantOK
  <1>9. ASSUME NEW m \in Message, Claim(m), UNCHANGED control
        PROVE  WantOK'
    BY <1>9 DEF Claim, Claimable, SetRow, intakeVars, rowVars, runVars,
       loopVars, TypeOK, IntakeType, Statuses, Hook, Active, RunStatuses,
       Replies, Places, LoopOK, WantOK
  <1>10. ASSUME Command, UNCHANGED control
        PROVE  WantOK'
    BY <1>10 DEF Command, Goto, intakeVars, rowVars, runVars, loopVars,
       TypeOK, IntakeType, Statuses, Hook, Active, RunStatuses, Replies, Places,
       LoopOK, WantOK
  <1>11. ASSUME Launch, UNCHANGED control
        PROVE  WantOK'
    BY <1>11 DEF Launch, Goto, intakeVars, rowVars, runVars, loopVars, TypeOK,
       IntakeType, Statuses, Hook, Active, RunStatuses, Replies, Places, LoopOK,
       WantOK
  <1>12. ASSUME Prepare, UNCHANGED control
        PROVE  WantOK'
    BY <1>12 DEF Prepare, Goto, intakeVars, rowVars, runVars, loopVars,
       TypeOK, IntakeType, Statuses, Hook, Active, RunStatuses, Replies, Places,
       LoopOK, WantOK
  <1>13. ASSUME PrepareFails, UNCHANGED control
        PROVE  WantOK'
    BY <1>13 DEF PrepareFails, Goto, Interruptible, intakeVars, rowVars,
       runVars, loopVars, TypeOK, IntakeType, Statuses, Hook, Active,
       RunStatuses, Replies, Places, LoopOK, WantOK
  <1>14. ASSUME Execute, UNCHANGED control
        PROVE  WantOK'
    BY <1>14 DEF Execute, Goto, intakeVars, rowVars, runVars, loopVars,
       TypeOK, IntakeType, Statuses, Hook, Active, RunStatuses, Replies, Places,
       LoopOK, WantOK
  <1>15. ASSUME Read, UNCHANGED control
        PROVE  WantOK'
    BY <1>15 DEF Read, Goto, Verdict, intakeVars, rowVars, runVars, loopVars,
       TypeOK, IntakeType, Statuses, Hook, Active, RunStatuses, Replies, Places,
       LoopOK, WantOK
  <1>16. ASSUME Enqueue, UNCHANGED control
        PROVE  WantOK'
    BY <1>16 DEF Enqueue, Goto, intakeVars, rowVars, runVars, loopVars,
       TypeOK, IntakeType, Statuses, Hook, Active, RunStatuses, Replies, Places,
       LoopOK, WantOK
  <1>17. ASSUME Errs, UNCHANGED control
        PROVE  WantOK'
    BY <1>17 DEF Errs, Goto, intakeVars, rowVars, runVars, loopVars, TypeOK,
       IntakeType, Statuses, Hook, Active, RunStatuses, Replies, Places, LoopOK,
       WantOK
  <1>18. ASSUME Finish, UNCHANGED control
        PROVE  WantOK'
    BY <1>18 DEF Finish, Goto, Final, SetRow, Rest, intakeVars, rowVars,
       runVars, loopVars, TypeOK, IntakeType, Statuses, Hook, Active,
       RunStatuses, Replies, Places, LoopOK, WantOK
  <1>19. ASSUME Fail, UNCHANGED control
        PROVE  WantOK'
    BY <1>19 DEF Fail, SetRow, Rest, intakeVars, rowVars, runVars, loopVars,
       TypeOK, IntakeType, Statuses, Hook, Active, RunStatuses, Replies, Places,
       LoopOK, WantOK
  <1>20. ASSUME Reconcile, UNCHANGED control
        PROVE  WantOK'
    BY <1>20 DEF Reconcile, Lapsed, intakeVars, rowVars, runVars, loopVars,
       TypeOK, IntakeType, Statuses, Hook, Active, RunStatuses, Replies, Places,
       LoopOK, WantOK
  <1>21. ASSUME DesktopCrash, UNCHANGED control
        PROVE  WantOK'
    BY <1>21 DEF DesktopCrash, Rest, intakeVars, rowVars, runVars, loopVars,
       TypeOK, IntakeType, Statuses, Hook, Active, RunStatuses, Replies, Places,
       LoopOK, WantOK
  <1>22. ASSUME NEW m \in Message, Expire(m), UNCHANGED control
        PROVE  WantOK'
    BY <1>22 DEF Expire, Stalled, intakeVars, rowVars, runVars, loopVars,
       TypeOK, IntakeType, Statuses, Hook, Active, RunStatuses, Replies, Places,
       LoopOK, WantOK
  <1>23. ASSUME NEW m \in Message, ExecBegin(m), UNCHANGED control
        PROVE  WantOK'
    BY <1>23 DEF ExecBegin, intakeVars, rowVars, runVars, loopVars, TypeOK,
       IntakeType, Statuses, Hook, Active, RunStatuses, Replies, Places, LoopOK,
       WantOK
  <1>24. ASSUME NEW m \in Message, ExecRefused(m), UNCHANGED control
        PROVE  WantOK'
    BY <1>24 DEF ExecRefused, Leave, Goto, intakeVars, rowVars, runVars,
       loopVars, TypeOK, IntakeType, Statuses, Hook, Active, RunStatuses,
       Replies, Places, LoopOK, WantOK
  <1>25. ASSUME NEW m \in Message, ExecEnd(m), UNCHANGED control
        PROVE  WantOK'
    BY <1>25 DEF ExecEnd, Leave, Goto, intakeVars, rowVars, runVars, loopVars,
       TypeOK, IntakeType, Statuses, Hook, Active, RunStatuses, Replies, Places,
       LoopOK, WantOK
  <1>26. ASSUME NEW m \in Message, UserCancel(m), UNCHANGED control
        PROVE  WantOK'
    BY <1>26 DEF UserCancel, intakeVars, rowVars, runVars, loopVars, TypeOK,
       IntakeType, Statuses, Hook, Active, RunStatuses, Replies, Places, LoopOK,
       WantOK
  <1>27. ASSUME NEW m \in Message, Resume(m), UNCHANGED control
        PROVE  WantOK'
    BY <1>27 DEF Resume, intakeVars, rowVars, runVars, loopVars, TypeOK,
       IntakeType, Statuses, Hook, Active, RunStatuses, Replies, Places, LoopOK,
       WantOK
  <1>28. ASSUME NEW m \in Message, Spawn(m), UNCHANGED control
        PROVE  WantOK'
    BY <1>28 DEF Spawn, intakeVars, rowVars, runVars, loopVars, TypeOK,
       IntakeType, Statuses, Hook, Active, RunStatuses, Replies, Places, LoopOK,
       WantOK
  <1>29. CASE UNCHANGED vars
    BY <1>29 DEF vars, intakeVars, dispatchVars, runVars, loopVars, TypeOK,
       IntakeType, Statuses, Hook, Active, RunStatuses, Replies, Places, LoopOK,
       WantOK
  <1>30. QED
    BY <1>1, <1>2, <1>3, <1>4, <1>5, <1>6, <1>7, <1>8, <1>9, <1>10, <1>11,
       <1>12, <1>13, <1>14, <1>15, <1>16, <1>17, <1>18, <1>19, <1>20, <1>21,
       <1>22, <1>23, <1>24, <1>25, <1>26, <1>27, <1>28, <1>29 DEF Next, Intake,
       Dispatch, LoopStep, ExecStep

(* Replies are true when enqueued, and remain so.                           *)
LEMMA RepliesStep == TypeOK /\ WantOK /\ RepliesTruthful /\ [Next]_vars => RepliesTruthful'
  <1> SUFFICES ASSUME TypeOK, WantOK, RepliesTruthful, [Next]_vars PROVE RepliesTruthful'
    OBVIOUS
  <1> USE IntakeAssumption, DispatchAssumption
  <1>1. ASSUME NEW m \in Message, Push(m), UNCHANGED <<control, dispatchVars>>
        PROVE  RepliesTruthful'
    BY <1>1 DEF Push, Answer, intakeVars, dispatchVars, runVars, loopVars,
       TypeOK, IntakeType, Statuses, Hook, Active, RunStatuses, Replies, Places,
       WantOK, RepliesTruthful
  <1>2. ASSUME NEW m \in Message, Normalize(m), UNCHANGED <<control, dispatchVars>>
        PROVE  RepliesTruthful'
    BY <1>2 DEF Normalize, intakeVars, dispatchVars, runVars, loopVars,
       TypeOK, IntakeType, Statuses, Hook, Active, RunStatuses, Replies, Places,
       WantOK, RepliesTruthful
  <1>3. ASSUME NEW m \in Message, Take(m), UNCHANGED <<control, dispatchVars>>
        PROVE  RepliesTruthful'
    BY <1>3 DEF Take, intakeVars, dispatchVars, runVars, loopVars, TypeOK,
       IntakeType, Statuses, Hook, Active, RunStatuses, Replies, Places, WantOK,
       RepliesTruthful
  <1>4. ASSUME NEW m \in Message, Post(m), UNCHANGED <<control, dispatchVars>>
        PROVE  RepliesTruthful'
    BY <1>4 DEF Post, Answer, Hook, intakeVars, dispatchVars, runVars,
       loopVars, TypeOK, IntakeType, Statuses, Active, RunStatuses, Replies,
       Places, WantOK, RepliesTruthful
  <1>5. ASSUME NEW m \in Message, Insert(m), UNCHANGED <<control, dispatchVars>>
        PROVE  RepliesTruthful'
    BY <1>5 DEF Insert, Answer, Hook, intakeVars, dispatchVars, runVars,
       loopVars, TypeOK, IntakeType, Statuses, Active, RunStatuses, Replies,
       Places, WantOK, RepliesTruthful
  <1>6. ASSUME NEW m \in Message, InsertFails(m), UNCHANGED <<control, dispatchVars>>
        PROVE  RepliesTruthful'
    BY <1>6 DEF InsertFails, intakeVars, dispatchVars, runVars, loopVars,
       TypeOK, IntakeType, Statuses, Hook, Active, RunStatuses, Replies, Places,
       WantOK, RepliesTruthful
  <1>7. ASSUME Reload, UNCHANGED <<control, dispatchVars>>
        PROVE  RepliesTruthful'
    BY <1>7 DEF Reload, intakeVars, dispatchVars, runVars, loopVars, TypeOK,
       IntakeType, Statuses, Hook, Active, RunStatuses, Replies, Places, WantOK,
       RepliesTruthful
  <1>8. ASSUME GatewayCrash, UNCHANGED <<control, dispatchVars>>
        PROVE  RepliesTruthful'
    BY <1>8 DEF GatewayCrash, intakeVars, dispatchVars, runVars, loopVars,
       TypeOK, IntakeType, Statuses, Hook, Active, RunStatuses, Replies, Places,
       WantOK, RepliesTruthful
  <1>9. ASSUME NEW m \in Message, Claim(m), UNCHANGED control
        PROVE  RepliesTruthful'
    BY <1>9 DEF Claim, Claimable, SetRow, intakeVars, rowVars, runVars,
       loopVars, TypeOK, IntakeType, Statuses, Hook, Active, RunStatuses,
       Replies, Places, WantOK, RepliesTruthful
  <1>10. ASSUME Command, UNCHANGED control
        PROVE  RepliesTruthful'
    BY <1>10 DEF Command, Goto, intakeVars, rowVars, runVars, loopVars,
       TypeOK, IntakeType, Statuses, Hook, Active, RunStatuses, Replies, Places,
       WantOK, RepliesTruthful
  <1>11. ASSUME Launch, UNCHANGED control
        PROVE  RepliesTruthful'
    BY <1>11 DEF Launch, Goto, intakeVars, rowVars, runVars, loopVars, TypeOK,
       IntakeType, Statuses, Hook, Active, RunStatuses, Replies, Places, WantOK,
       RepliesTruthful
  <1>12. ASSUME Prepare, UNCHANGED control
        PROVE  RepliesTruthful'
    BY <1>12 DEF Prepare, Goto, intakeVars, rowVars, runVars, loopVars,
       TypeOK, IntakeType, Statuses, Hook, Active, RunStatuses, Replies, Places,
       WantOK, RepliesTruthful
  <1>13. ASSUME PrepareFails, UNCHANGED control
        PROVE  RepliesTruthful'
    BY <1>13 DEF PrepareFails, Goto, Interruptible, intakeVars, rowVars,
       runVars, loopVars, TypeOK, IntakeType, Statuses, Hook, Active,
       RunStatuses, Replies, Places, WantOK, RepliesTruthful
  <1>14. ASSUME Execute, UNCHANGED control
        PROVE  RepliesTruthful'
    BY <1>14 DEF Execute, Goto, intakeVars, rowVars, runVars, loopVars,
       TypeOK, IntakeType, Statuses, Hook, Active, RunStatuses, Replies, Places,
       WantOK, RepliesTruthful
  <1>15. ASSUME Read, UNCHANGED control
        PROVE  RepliesTruthful'
    BY <1>15 DEF Read, Goto, Verdict, intakeVars, rowVars, runVars, loopVars,
       TypeOK, IntakeType, Statuses, Hook, Active, RunStatuses, Replies, Places,
       WantOK, RepliesTruthful
  <1>16. ASSUME Enqueue, UNCHANGED control
        PROVE  RepliesTruthful'
    BY <1>16 DEF Enqueue, Goto, intakeVars, rowVars, runVars, loopVars,
       TypeOK, IntakeType, Statuses, Hook, Active, RunStatuses, Replies, Places,
       WantOK, RepliesTruthful
  <1>17. ASSUME Errs, UNCHANGED control
        PROVE  RepliesTruthful'
    BY <1>17 DEF Errs, Goto, intakeVars, rowVars, runVars, loopVars, TypeOK,
       IntakeType, Statuses, Hook, Active, RunStatuses, Replies, Places, WantOK,
       RepliesTruthful
  <1>18. ASSUME Finish, UNCHANGED control
        PROVE  RepliesTruthful'
    BY <1>18 DEF Finish, Goto, Final, SetRow, Rest, intakeVars, rowVars,
       runVars, loopVars, TypeOK, IntakeType, Statuses, Hook, Active,
       RunStatuses, Replies, Places, WantOK, RepliesTruthful
  <1>19. ASSUME Fail, UNCHANGED control
        PROVE  RepliesTruthful'
    BY <1>19 DEF Fail, SetRow, Rest, intakeVars, rowVars, runVars, loopVars,
       TypeOK, IntakeType, Statuses, Hook, Active, RunStatuses, Replies, Places,
       WantOK, RepliesTruthful
  <1>20. ASSUME Reconcile, UNCHANGED control
        PROVE  RepliesTruthful'
    BY <1>20 DEF Reconcile, Lapsed, intakeVars, rowVars, runVars, loopVars,
       TypeOK, IntakeType, Statuses, Hook, Active, RunStatuses, Replies, Places,
       WantOK, RepliesTruthful
  <1>21. ASSUME DesktopCrash, UNCHANGED control
        PROVE  RepliesTruthful'
    BY <1>21 DEF DesktopCrash, Rest, intakeVars, rowVars, runVars, loopVars,
       TypeOK, IntakeType, Statuses, Hook, Active, RunStatuses, Replies, Places,
       WantOK, RepliesTruthful
  <1>22. ASSUME NEW m \in Message, Expire(m), UNCHANGED control
        PROVE  RepliesTruthful'
    BY <1>22 DEF Expire, Stalled, intakeVars, rowVars, runVars, loopVars,
       TypeOK, IntakeType, Statuses, Hook, Active, RunStatuses, Replies, Places,
       WantOK, RepliesTruthful
  <1>23. ASSUME NEW m \in Message, ExecBegin(m), UNCHANGED control
        PROVE  RepliesTruthful'
    BY <1>23 DEF ExecBegin, intakeVars, rowVars, runVars, loopVars, TypeOK,
       IntakeType, Statuses, Hook, Active, RunStatuses, Replies, Places, WantOK,
       RepliesTruthful
  <1>24. ASSUME NEW m \in Message, ExecRefused(m), UNCHANGED control
        PROVE  RepliesTruthful'
    BY <1>24 DEF ExecRefused, Leave, Goto, intakeVars, rowVars, runVars,
       loopVars, TypeOK, IntakeType, Statuses, Hook, Active, RunStatuses,
       Replies, Places, WantOK, RepliesTruthful
  <1>25. ASSUME NEW m \in Message, ExecEnd(m), UNCHANGED control
        PROVE  RepliesTruthful'
    BY <1>25 DEF ExecEnd, Leave, Goto, intakeVars, rowVars, runVars, loopVars,
       TypeOK, IntakeType, Statuses, Hook, Active, RunStatuses, Replies, Places,
       WantOK, RepliesTruthful
  <1>26. ASSUME NEW m \in Message, UserCancel(m), UNCHANGED control
        PROVE  RepliesTruthful'
    BY <1>26 DEF UserCancel, intakeVars, rowVars, runVars, loopVars, TypeOK,
       IntakeType, Statuses, Hook, Active, RunStatuses, Replies, Places, WantOK,
       RepliesTruthful
  <1>27. ASSUME NEW m \in Message, Resume(m), UNCHANGED control
        PROVE  RepliesTruthful'
    BY <1>27 DEF Resume, intakeVars, rowVars, runVars, loopVars, TypeOK,
       IntakeType, Statuses, Hook, Active, RunStatuses, Replies, Places, WantOK,
       RepliesTruthful
  <1>28. ASSUME NEW m \in Message, Spawn(m), UNCHANGED control
        PROVE  RepliesTruthful'
    BY <1>28 DEF Spawn, intakeVars, rowVars, runVars, loopVars, TypeOK,
       IntakeType, Statuses, Hook, Active, RunStatuses, Replies, Places, WantOK,
       RepliesTruthful
  <1>29. CASE UNCHANGED vars
    BY <1>29 DEF vars, intakeVars, dispatchVars, runVars, loopVars, TypeOK,
       IntakeType, Statuses, Hook, Active, RunStatuses, Replies, Places, WantOK,
       RepliesTruthful
  <1>30. QED
    BY <1>1, <1>2, <1>3, <1>4, <1>5, <1>6, <1>7, <1>8, <1>9, <1>10, <1>11,
       <1>12, <1>13, <1>14, <1>15, <1>16, <1>17, <1>18, <1>19, <1>20, <1>21,
       <1>22, <1>23, <1>24, <1>25, <1>26, <1>27, <1>28, <1>29 DEF Next, Intake,
       Dispatch, LoopStep, ExecStep

(* A row is there before the answer, and is never removed.                  *)
LEMMA AckStep == TypeOK /\ HookAckDurable /\ [Next]_vars => HookAckDurable'
  <1> SUFFICES ASSUME TypeOK, HookAckDurable, [Next]_vars PROVE HookAckDurable'
    OBVIOUS
  <1> USE IntakeAssumption, DispatchAssumption
  <1>1. ASSUME NEW m \in Message, Push(m), UNCHANGED <<control, dispatchVars>>
        PROVE  HookAckDurable'
    BY <1>1 DEF Push, Answer, intakeVars, dispatchVars, runVars, loopVars,
       TypeOK, IntakeType, HookAckDurable, Hook
  <1>2. ASSUME NEW m \in Message, Normalize(m), UNCHANGED <<control, dispatchVars>>
        PROVE  HookAckDurable'
    BY <1>2 DEF Normalize, intakeVars, dispatchVars, runVars, loopVars,
       TypeOK, IntakeType, HookAckDurable, Hook
  <1>3. ASSUME NEW m \in Message, Take(m), UNCHANGED <<control, dispatchVars>>
        PROVE  HookAckDurable'
    BY <1>3 DEF Take, intakeVars, dispatchVars, runVars, loopVars, TypeOK,
       IntakeType, HookAckDurable, Hook
  <1>4. ASSUME NEW m \in Message, Post(m), UNCHANGED <<control, dispatchVars>>
        PROVE  HookAckDurable'
    BY <1>4 DEF Post, Answer, Hook, intakeVars, dispatchVars, runVars,
       loopVars, TypeOK, IntakeType, HookAckDurable
  <1>5. ASSUME NEW m \in Message, Insert(m), UNCHANGED <<control, dispatchVars>>
        PROVE  HookAckDurable'
    BY <1>5 DEF Insert, Answer, Hook, intakeVars, dispatchVars, runVars,
       loopVars, TypeOK, IntakeType, HookAckDurable
  <1>6. ASSUME NEW m \in Message, InsertFails(m), UNCHANGED <<control, dispatchVars>>
        PROVE  HookAckDurable'
    BY <1>6 DEF InsertFails, intakeVars, dispatchVars, runVars, loopVars,
       TypeOK, IntakeType, HookAckDurable, Hook
  <1>7. ASSUME Reload, UNCHANGED <<control, dispatchVars>>
        PROVE  HookAckDurable'
    BY <1>7 DEF Reload, intakeVars, dispatchVars, runVars, loopVars, TypeOK,
       IntakeType, HookAckDurable, Hook
  <1>8. ASSUME GatewayCrash, UNCHANGED <<control, dispatchVars>>
        PROVE  HookAckDurable'
    BY <1>8 DEF GatewayCrash, intakeVars, dispatchVars, runVars, loopVars,
       TypeOK, IntakeType, HookAckDurable, Hook
  <1>9. ASSUME NEW m \in Message, Claim(m), UNCHANGED control
        PROVE  HookAckDurable'
    BY <1>9 DEF Claim, Claimable, SetRow, intakeVars, rowVars, runVars,
       loopVars, TypeOK, IntakeType, HookAckDurable, Hook
  <1>10. ASSUME Command, UNCHANGED control
        PROVE  HookAckDurable'
    BY <1>10 DEF Command, Goto, intakeVars, rowVars, runVars, loopVars,
       TypeOK, IntakeType, HookAckDurable, Hook
  <1>11. ASSUME Launch, UNCHANGED control
        PROVE  HookAckDurable'
    BY <1>11 DEF Launch, Goto, intakeVars, rowVars, runVars, loopVars, TypeOK,
       IntakeType, HookAckDurable, Hook
  <1>12. ASSUME Prepare, UNCHANGED control
        PROVE  HookAckDurable'
    BY <1>12 DEF Prepare, Goto, intakeVars, rowVars, runVars, loopVars,
       TypeOK, IntakeType, HookAckDurable, Hook
  <1>13. ASSUME PrepareFails, UNCHANGED control
        PROVE  HookAckDurable'
    BY <1>13 DEF PrepareFails, Goto, Interruptible, intakeVars, rowVars,
       runVars, loopVars, TypeOK, IntakeType, HookAckDurable, Hook
  <1>14. ASSUME Execute, UNCHANGED control
        PROVE  HookAckDurable'
    BY <1>14 DEF Execute, Goto, intakeVars, rowVars, runVars, loopVars,
       TypeOK, IntakeType, HookAckDurable, Hook
  <1>15. ASSUME Read, UNCHANGED control
        PROVE  HookAckDurable'
    BY <1>15 DEF Read, Goto, Verdict, intakeVars, rowVars, runVars, loopVars,
       TypeOK, IntakeType, HookAckDurable, Hook
  <1>16. ASSUME Enqueue, UNCHANGED control
        PROVE  HookAckDurable'
    BY <1>16 DEF Enqueue, Goto, intakeVars, rowVars, runVars, loopVars,
       TypeOK, IntakeType, HookAckDurable, Hook
  <1>17. ASSUME Errs, UNCHANGED control
        PROVE  HookAckDurable'
    BY <1>17 DEF Errs, Goto, intakeVars, rowVars, runVars, loopVars, TypeOK,
       IntakeType, HookAckDurable, Hook
  <1>18. ASSUME Finish, UNCHANGED control
        PROVE  HookAckDurable'
    BY <1>18 DEF Finish, Goto, Final, SetRow, Rest, intakeVars, rowVars,
       runVars, loopVars, TypeOK, IntakeType, HookAckDurable, Hook
  <1>19. ASSUME Fail, UNCHANGED control
        PROVE  HookAckDurable'
    BY <1>19 DEF Fail, SetRow, Rest, intakeVars, rowVars, runVars, loopVars,
       TypeOK, IntakeType, HookAckDurable, Hook
  <1>20. ASSUME Reconcile, UNCHANGED control
        PROVE  HookAckDurable'
    BY <1>20 DEF Reconcile, Lapsed, intakeVars, rowVars, runVars, loopVars,
       TypeOK, IntakeType, HookAckDurable, Hook
  <1>21. ASSUME DesktopCrash, UNCHANGED control
        PROVE  HookAckDurable'
    BY <1>21 DEF DesktopCrash, Rest, intakeVars, rowVars, runVars, loopVars,
       TypeOK, IntakeType, HookAckDurable, Hook
  <1>22. ASSUME NEW m \in Message, Expire(m), UNCHANGED control
        PROVE  HookAckDurable'
    BY <1>22 DEF Expire, Stalled, intakeVars, rowVars, runVars, loopVars,
       TypeOK, IntakeType, HookAckDurable, Hook
  <1>23. ASSUME NEW m \in Message, ExecBegin(m), UNCHANGED control
        PROVE  HookAckDurable'
    BY <1>23 DEF ExecBegin, intakeVars, rowVars, runVars, loopVars, TypeOK,
       IntakeType, HookAckDurable, Hook
  <1>24. ASSUME NEW m \in Message, ExecRefused(m), UNCHANGED control
        PROVE  HookAckDurable'
    BY <1>24 DEF ExecRefused, Leave, Goto, intakeVars, rowVars, runVars,
       loopVars, TypeOK, IntakeType, HookAckDurable, Hook
  <1>25. ASSUME NEW m \in Message, ExecEnd(m), UNCHANGED control
        PROVE  HookAckDurable'
    BY <1>25 DEF ExecEnd, Leave, Goto, intakeVars, rowVars, runVars, loopVars,
       TypeOK, IntakeType, HookAckDurable, Hook
  <1>26. ASSUME NEW m \in Message, UserCancel(m), UNCHANGED control
        PROVE  HookAckDurable'
    BY <1>26 DEF UserCancel, intakeVars, rowVars, runVars, loopVars, TypeOK,
       IntakeType, HookAckDurable, Hook
  <1>27. ASSUME NEW m \in Message, Resume(m), UNCHANGED control
        PROVE  HookAckDurable'
    BY <1>27 DEF Resume, intakeVars, rowVars, runVars, loopVars, TypeOK,
       IntakeType, HookAckDurable, Hook
  <1>28. ASSUME NEW m \in Message, Spawn(m), UNCHANGED control
        PROVE  HookAckDurable'
    BY <1>28 DEF Spawn, intakeVars, rowVars, runVars, loopVars, TypeOK,
       IntakeType, HookAckDurable, Hook
  <1>29. CASE UNCHANGED vars
    BY <1>29 DEF vars, intakeVars, dispatchVars, runVars, loopVars, TypeOK,
       IntakeType, HookAckDurable, Hook
  <1>30. QED
    BY <1>1, <1>2, <1>3, <1>4, <1>5, <1>6, <1>7, <1>8, <1>9, <1>10, <1>11,
       <1>12, <1>13, <1>14, <1>15, <1>16, <1>17, <1>18, <1>19, <1>20, <1>21,
       <1>22, <1>23, <1>24, <1>25, <1>26, <1>27, <1>28, <1>29 DEF Next, Intake,
       Dispatch, LoopStep, ExecStep

(* No step leaves a settled status.                                         *)
LEMMA SettledStep == TypeOK /\ [Next]_vars => (\A k \in Message : status[k] \in Settled => status'[k] = status[k])
  <1> SUFFICES ASSUME TypeOK, [Next]_vars PROVE (\A k \in Message : status[k] \in Settled => status'[k] = status[k])
    OBVIOUS
  <1> USE IntakeAssumption, DispatchAssumption
  <1>1. ASSUME NEW m \in Message, Push(m), UNCHANGED <<control, dispatchVars>>
        PROVE  (\A k \in Message : status[k] \in Settled => status'[k] = status[k])
    BY <1>1 DEF Push, Answer, intakeVars, dispatchVars, runVars, loopVars,
       TypeOK, IntakeType, Settled
  <1>2. ASSUME NEW m \in Message, Normalize(m), UNCHANGED <<control, dispatchVars>>
        PROVE  (\A k \in Message : status[k] \in Settled => status'[k] = status[k])
    BY <1>2 DEF Normalize, intakeVars, dispatchVars, runVars, loopVars,
       TypeOK, IntakeType, Settled
  <1>3. ASSUME NEW m \in Message, Take(m), UNCHANGED <<control, dispatchVars>>
        PROVE  (\A k \in Message : status[k] \in Settled => status'[k] = status[k])
    BY <1>3 DEF Take, intakeVars, dispatchVars, runVars, loopVars, TypeOK,
       IntakeType, Settled
  <1>4. ASSUME NEW m \in Message, Post(m), UNCHANGED <<control, dispatchVars>>
        PROVE  (\A k \in Message : status[k] \in Settled => status'[k] = status[k])
    BY <1>4 DEF Post, Answer, Hook, intakeVars, dispatchVars, runVars,
       loopVars, TypeOK, IntakeType, Settled
  <1>5. ASSUME NEW m \in Message, Insert(m), UNCHANGED <<control, dispatchVars>>
        PROVE  (\A k \in Message : status[k] \in Settled => status'[k] = status[k])
    BY <1>5 DEF Insert, Answer, Hook, intakeVars, dispatchVars, runVars,
       loopVars, TypeOK, IntakeType, Settled
  <1>6. ASSUME NEW m \in Message, InsertFails(m), UNCHANGED <<control, dispatchVars>>
        PROVE  (\A k \in Message : status[k] \in Settled => status'[k] = status[k])
    BY <1>6 DEF InsertFails, intakeVars, dispatchVars, runVars, loopVars,
       TypeOK, IntakeType, Settled
  <1>7. ASSUME Reload, UNCHANGED <<control, dispatchVars>>
        PROVE  (\A k \in Message : status[k] \in Settled => status'[k] = status[k])
    BY <1>7 DEF Reload, intakeVars, dispatchVars, runVars, loopVars, TypeOK,
       IntakeType, Settled
  <1>8. ASSUME GatewayCrash, UNCHANGED <<control, dispatchVars>>
        PROVE  (\A k \in Message : status[k] \in Settled => status'[k] = status[k])
    BY <1>8 DEF GatewayCrash, intakeVars, dispatchVars, runVars, loopVars,
       TypeOK, IntakeType, Settled
  <1>9. ASSUME NEW m \in Message, Claim(m), UNCHANGED control
        PROVE  (\A k \in Message : status[k] \in Settled => status'[k] = status[k])
    BY <1>9 DEF Claim, Claimable, SetRow, intakeVars, rowVars, runVars,
       loopVars, TypeOK, IntakeType, Settled
  <1>10. ASSUME Command, UNCHANGED control
        PROVE  (\A k \in Message : status[k] \in Settled => status'[k] = status[k])
    BY <1>10 DEF Command, Goto, intakeVars, rowVars, runVars, loopVars,
       TypeOK, IntakeType, Settled
  <1>11. ASSUME Launch, UNCHANGED control
        PROVE  (\A k \in Message : status[k] \in Settled => status'[k] = status[k])
    BY <1>11 DEF Launch, Goto, intakeVars, rowVars, runVars, loopVars, TypeOK,
       IntakeType, Settled
  <1>12. ASSUME Prepare, UNCHANGED control
        PROVE  (\A k \in Message : status[k] \in Settled => status'[k] = status[k])
    BY <1>12 DEF Prepare, Goto, intakeVars, rowVars, runVars, loopVars,
       TypeOK, IntakeType, Settled
  <1>13. ASSUME PrepareFails, UNCHANGED control
        PROVE  (\A k \in Message : status[k] \in Settled => status'[k] = status[k])
    BY <1>13 DEF PrepareFails, Goto, Interruptible, intakeVars, rowVars,
       runVars, loopVars, TypeOK, IntakeType, Settled
  <1>14. ASSUME Execute, UNCHANGED control
        PROVE  (\A k \in Message : status[k] \in Settled => status'[k] = status[k])
    BY <1>14 DEF Execute, Goto, intakeVars, rowVars, runVars, loopVars,
       TypeOK, IntakeType, Settled
  <1>15. ASSUME Read, UNCHANGED control
        PROVE  (\A k \in Message : status[k] \in Settled => status'[k] = status[k])
    BY <1>15 DEF Read, Goto, Verdict, intakeVars, rowVars, runVars, loopVars,
       TypeOK, IntakeType, Settled
  <1>16. ASSUME Enqueue, UNCHANGED control
        PROVE  (\A k \in Message : status[k] \in Settled => status'[k] = status[k])
    BY <1>16 DEF Enqueue, Goto, intakeVars, rowVars, runVars, loopVars,
       TypeOK, IntakeType, Settled
  <1>17. ASSUME Errs, UNCHANGED control
        PROVE  (\A k \in Message : status[k] \in Settled => status'[k] = status[k])
    BY <1>17 DEF Errs, Goto, intakeVars, rowVars, runVars, loopVars, TypeOK,
       IntakeType, Settled
  <1>18. ASSUME Finish, UNCHANGED control
        PROVE  (\A k \in Message : status[k] \in Settled => status'[k] = status[k])
    BY <1>18 DEF Finish, Goto, Final, SetRow, Rest, intakeVars, rowVars,
       runVars, loopVars, TypeOK, IntakeType, Settled
  <1>19. ASSUME Fail, UNCHANGED control
        PROVE  (\A k \in Message : status[k] \in Settled => status'[k] = status[k])
    BY <1>19 DEF Fail, SetRow, Rest, intakeVars, rowVars, runVars, loopVars,
       TypeOK, IntakeType, Settled
  <1>20. ASSUME Reconcile, UNCHANGED control
        PROVE  (\A k \in Message : status[k] \in Settled => status'[k] = status[k])
    BY <1>20 DEF Reconcile, Lapsed, intakeVars, rowVars, runVars, loopVars,
       TypeOK, IntakeType, Settled
  <1>21. ASSUME DesktopCrash, UNCHANGED control
        PROVE  (\A k \in Message : status[k] \in Settled => status'[k] = status[k])
    BY <1>21 DEF DesktopCrash, Rest, intakeVars, rowVars, runVars, loopVars,
       TypeOK, IntakeType, Settled
  <1>22. ASSUME NEW m \in Message, Expire(m), UNCHANGED control
        PROVE  (\A k \in Message : status[k] \in Settled => status'[k] = status[k])
    BY <1>22 DEF Expire, Stalled, intakeVars, rowVars, runVars, loopVars,
       TypeOK, IntakeType, Settled
  <1>23. ASSUME NEW m \in Message, ExecBegin(m), UNCHANGED control
        PROVE  (\A k \in Message : status[k] \in Settled => status'[k] = status[k])
    BY <1>23 DEF ExecBegin, intakeVars, rowVars, runVars, loopVars, TypeOK,
       IntakeType, Settled
  <1>24. ASSUME NEW m \in Message, ExecRefused(m), UNCHANGED control
        PROVE  (\A k \in Message : status[k] \in Settled => status'[k] = status[k])
    BY <1>24 DEF ExecRefused, Leave, Goto, intakeVars, rowVars, runVars,
       loopVars, TypeOK, IntakeType, Settled
  <1>25. ASSUME NEW m \in Message, ExecEnd(m), UNCHANGED control
        PROVE  (\A k \in Message : status[k] \in Settled => status'[k] = status[k])
    BY <1>25 DEF ExecEnd, Leave, Goto, intakeVars, rowVars, runVars, loopVars,
       TypeOK, IntakeType, Settled
  <1>26. ASSUME NEW m \in Message, UserCancel(m), UNCHANGED control
        PROVE  (\A k \in Message : status[k] \in Settled => status'[k] = status[k])
    BY <1>26 DEF UserCancel, intakeVars, rowVars, runVars, loopVars, TypeOK,
       IntakeType, Settled
  <1>27. ASSUME NEW m \in Message, Resume(m), UNCHANGED control
        PROVE  (\A k \in Message : status[k] \in Settled => status'[k] = status[k])
    BY <1>27 DEF Resume, intakeVars, rowVars, runVars, loopVars, TypeOK,
       IntakeType, Settled
  <1>28. ASSUME NEW m \in Message, Spawn(m), UNCHANGED control
        PROVE  (\A k \in Message : status[k] \in Settled => status'[k] = status[k])
    BY <1>28 DEF Spawn, intakeVars, rowVars, runVars, loopVars, TypeOK,
       IntakeType, Settled
  <1>29. CASE UNCHANGED vars
    BY <1>29 DEF vars, intakeVars, dispatchVars, runVars, loopVars, TypeOK,
       IntakeType, Settled
  <1>30. QED
    BY <1>1, <1>2, <1>3, <1>4, <1>5, <1>6, <1>7, <1>8, <1>9, <1>10, <1>11,
       <1>12, <1>13, <1>14, <1>15, <1>16, <1>17, <1>18, <1>19, <1>20, <1>21,
       <1>22, <1>23, <1>24, <1>25, <1>26, <1>27, <1>28, <1>29 DEF Next, Intake,
       Dispatch, LoopStep, ExecStep

-----------------------------------------------------------------------------

(* The inductive invariant of intake and dispatch.                          *)
THEOREM Invariance == Spec => []IInv
  <1>1. Init => IInv
    <2> SUFFICES ASSUME Init PROVE IInv
      OBVIOUS
    <2> USE IntakeAssumption, DispatchAssumption DEF Init, IntakeInit
    <2>1. TypeOK
      BY DEF TypeOK, IntakeType, Statuses, RunStatuses, Active, Replies, Places
    <2>2. LoopOK /\ RunsOK /\ WantOK
      BY DEF LoopOK, RunsOK, WantOK, Active
    <2>3. RepliesTruthful /\ HookAckDurable
      BY DEF RepliesTruthful, HookAckDurable, Hook
    <2>4. QED
      BY <2>1, <2>2, <2>3 DEF IInv
  <1>2. IInv /\ [Next]_vars => IInv'
    BY TypeStep, LoopStepOK, RunsStep, WantStep, RepliesStep, AckStep DEF IInv
  <1>3. QED
    BY <1>1, <1>2, PTL DEF Spec

(* TypeOK: the row, the Run, the queues of the intake and the steps of the  *)
(* loop keep their types.                                                   *)
THEOREM TypeCorrect == Spec => []TypeOK
  BY Invariance, PTL DEF IInv

(* HookAckDurable: a hook answered with success is in channel_ingress.      *)
THEOREM AckDurable == Spec => []HookAckDurable
  BY Invariance, PTL DEF IInv

(* RepliesTruthful: an answer is of a Run that succeeded, and a completed   *)
(* row has its reply in the outbox.                                         *)
THEOREM TrueReplies == Spec => []RepliesTruthful
  BY Invariance, PTL DEF IInv

(* OneRunPerChat: a Session's chats never have two Runs that are not over,  *)
(* however many messages it has.                                            *)
THEOREM OneRun == Spec => []OneRunPerChat
  <1>1. RunsOK => OneRunPerChat
    <2> SUFFICES ASSUME RunsOK
                 PROVE  Cardinality({m \in Message : run[m] \in Active}) <= 1
      BY DEF RunsOK, OneRunPerChat
    <2> DEFINE A == {m \in Message : run[m] \in Active}
    <2>1. CASE A = {}
      BY <2>1, FS_EmptySet
    <2>2. CASE A # {}
      <3>1. PICK m \in A : TRUE
        BY <2>2
      <3>2. A = {m}
        BY <3>1 DEF RunsOK
      <3>3. Cardinality({m}) = 1
        BY FS_Singleton
      <3>4. QED
        BY <3>2, <3>3
    <2>3. QED
      BY <2>1, <2>2
  <1>2. IInv => OneRunPerChat
    BY <1>1 DEF IInv
  <1>3. QED
    BY <1>2, Invariance, PTL

(* SettledForGood: no claim, late finish, failure or reconciliation takes a *)
(* settled row up again.                                                    *)
THEOREM Settling == Spec => SettledForGood
  <1>1. TypeOK /\ [Next]_vars
        => [\A m \in Message : status[m] \in Settled => status'[m] = status[m]]_vars
    BY SettledStep
  <1>2. QED
    BY <1>1, TypeCorrect, PTL DEF Spec, SettledForGood
=============================================================================
