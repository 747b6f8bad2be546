--------------------------- MODULE AgentTasksProofs ---------------------------
(***************************************************************************)
(* What holds of the Agent Tasks for any tree, number of calls and number   *)
(* of restarts: the types, that a lease in the name of a process belongs to *)
(* an executor of it that still runs, that an executor which is over leaves *)
(* its Task open beside an ended Run only by an outdated write or a half    *)
(* cancellation, and that a restart accounts for every open Task.           *)
(***************************************************************************)
EXTENDS AgentTasks, TLAPS

(* A tool past its first step has the Task it is about.                     *)
ToolsOK ==
  \A p \in Node :
    /\ tool[p].kind \in {"spawn", "poll"} => tool[p].of \in Task
    /\ tool[p].kind = "cancel" /\ tool[p].step # "stop" => tool[p].of \in Task
    /\ tool[p].kind = "poll" => tool[p].seen \in RunStates

(* No lease is held in the name of a process to come.                       *)
OwnersPast == \A t \in Task : owner[t] <= life

IInv == TypeOK /\ ToolsOK /\ OwnersPast /\ LeaseAccounted

-----------------------------------------------------------------------------
(* The tool a turn is not in.                                              *)
LEMMA NoToolType == NoTool \in Tools
  BY DEF NoTool, Tools, RunStates, TaskStates, Interruptible, Ended, Open, Closed

(* The walk of a cancellation keeps its type.                               *)
LEMMA NextTaskType ==
  ASSUME tool \in [Node -> Tools], NEW p \in Node, NEW d \in Task, NextTask(p, d)
  PROVE  tool' \in [Node -> Tools]
  <1> DEFINE r == tool[p]
  <1> DEFINE next == [r EXCEPT !.step = "stop", !.of = NoTask, !.left = r.left \ {d}, !.seen = "none"]
  <1>1. r \in Tools
    OBVIOUS
  <1>2. next \in Tools
    BY <1>1 DEF Tools, RunStates, TaskStates, Interruptible, Ended, Open, Closed
  <1>3. CASE r.left \ {d} = {}
    BY <1>3, NoToolType DEF NextTask
  <1>4. CASE r.left \ {d} # {}
    <2>1. tool'[p] = next
      BY <1>4 DEF NextTask
    <2>2. tool' = [tool EXCEPT ![p] = tool'[p]]
      BY DEF NextTask
    <2>3. QED
      BY <1>2, <2>1, <2>2
  <1>5. QED
    BY <1>3, <1>4

(* So does the step to the row of a Task.                                  *)
LEMMA ToTaskRowType ==
  ASSUME tool \in [Node -> Tools], NEW p \in Node, NEW d \in Task, ToTaskRow(p, d)
  PROVE  tool' \in [Node -> Tools]
  <1> DEFINE r == tool[p]
  <1> DEFINE next == [r EXCEPT !.step = "read", !.of = d, !.seen = "none"]
  <1>1. r \in Tools
    OBVIOUS
  <1>2. next \in Tools
    BY <1>1 DEF Tools, RunStates, TaskStates, Interruptible, Ended, Open, Closed
  <1>3. CASE d \in r.open
    BY <1>2, <1>3 DEF ToTaskRow
  <1>4. CASE d \notin r.open
    BY <1>4, NextTaskType DEF ToTaskRow
  <1>5. QED
    BY <1>3, <1>4

(* The walk of a cancellation goes on with a Task it has chosen.            *)
LEMMA NextTaskOK ==
  ASSUME tool \in [Node -> Tools], ToolsOK, NEW p \in Node, NEW d \in Task,
         tool[p].kind = "cancel", NextTask(p, d)
  PROVE  ToolsOK'
  <1>1. ASSUME NEW q \in Node PROVE
          /\ tool'[q].kind \in {"spawn", "poll"} => tool'[q] = tool[q]
          /\ tool'[q].kind = "cancel" /\ tool'[q].step # "stop" => tool'[q] = tool[q]
    <2>1. CASE q = p
      <3>1. CASE tool[p].left \ {d} = {}
        BY <2>1, <3>1 DEF NextTask, NoTool
      <3>2. CASE tool[p].left \ {d} # {}
        BY <2>1, <3>2 DEF NextTask, Tools
      <3>3. QED
        BY <3>1, <3>2
    <2>2. CASE q # p
      BY <2>2 DEF NextTask
    <2>3. QED
      BY <2>1, <2>2
  <1>2. QED
    BY <1>1 DEF ToolsOK

(* And the step to the row of a Task.                                      *)
LEMMA ToTaskRowOK ==
  ASSUME tool \in [Node -> Tools], ToolsOK, NEW p \in Node, NEW d \in Task,
         tool[p].kind = "cancel", ToTaskRow(p, d)
  PROVE  ToolsOK'
  <1>1. CASE d \in tool[p].open
    <2>1. tool'[p].kind = "cancel" /\ tool'[p].of = d
      <3>1. tool'[p] = [tool[p] EXCEPT !.step = "read", !.of = d, !.seen = "none"]
        BY <1>1 DEF ToTaskRow
      <3>2. tool[p] \in Tools
        OBVIOUS
      <3>3. QED
        BY <3>1, <3>2 DEF Tools
    <2>2. \A q \in Node \ {p} : tool'[q] = tool[q]
      BY <1>1 DEF ToTaskRow
    <2>3. QED
      BY <2>1, <2>2 DEF ToolsOK
  <1>2. CASE d \notin tool[p].open
    BY <1>2, NextTaskOK DEF ToTaskRow
  <1>3. QED
    BY <1>1, <1>2

(* Rows, tools and executors keep their types.                              *)
LEMMA TypeStep == TypeOK /\ ToolsOK /\ [Next]_vars => TypeOK'
  <1> SUFFICES ASSUME TypeOK, ToolsOK, [Next]_vars PROVE TypeOK'
    OBVIOUS
  <1> USE TasksAssumption DEF Node
  <1>1. ASSUME NEW p \in Node, NEW t \in Task, Spawn(p, t) PROVE TypeOK'
    <2> DEFINE r == [NoTool EXCEPT !.kind = "spawn", !.of = t, !.step = "row"]
    <2>1. tool' \in [Node -> Tools]
      <3>1. r \in Tools
        BY <1>1 DEF NoTool, Tools, RunStates, TaskStates, Interruptible, Ended, Open, Closed
      <3>2. tool' = [tool EXCEPT ![p] = r]
        BY <1>1 DEF Spawn
      <3>3. QED
        BY <3>1, <3>2 DEF TypeOK
    <2>2. QED
      BY <1>1, <2>1 DEF Spawn, Calls, rows, control, history, TypeOK, RunStates,
         TaskStates, Interruptible, Ended, Open, Closed, Executing, Settling
  <1>2. ASSUME NEW p \in Node, NEW t \in Task, Poll(p, t) PROVE TypeOK'
    <2> DEFINE r == [NoTool EXCEPT !.kind = "poll", !.of = t, !.step = "write", !.seen = run[t]]
    <2>1. tool' \in [Node -> Tools]
      <3>1. r \in Tools
        BY <1>2 DEF NoTool, TypeOK, Tools, RunStates, TaskStates, Interruptible, Ended, Open, Closed
      <3>2. tool' = [tool EXCEPT ![p] = r]
        BY <1>2 DEF Poll
      <3>3. QED
        BY <3>1, <3>2 DEF TypeOK
    <2>2. QED
      BY <1>2, <2>1 DEF Poll, Calls, rows, control, history, TypeOK, RunStates,
         TaskStates, Interruptible, Ended, Open, Closed, Executing, Settling
  <1>3. ASSUME NEW p \in Node, NEW t \in Task, Cancel(p, t) PROVE TypeOK'
    <2> DEFINE r == [NoTool EXCEPT !.kind = "cancel", !.step = "stop", !.left = Subtree(t),
                      !.open = {d \in Subtree(t) : task[d] \notin Closed}]
    <2>1. tool' \in [Node -> Tools]
      <3>1. r \in Tools
        BY <1>3 DEF NoTool, Subtree, Tools, RunStates, TaskStates, Interruptible, Ended, Open, Closed
      <3>2. tool' = [tool EXCEPT ![p] = r]
        BY <1>3 DEF Cancel
      <3>3. QED
        BY <3>1, <3>2 DEF TypeOK
    <2>2. QED
      BY <1>3, <2>1 DEF Cancel, Calls, rows, control, history, TypeOK, RunStates,
         TaskStates, Interruptible, Ended, Open, Closed, Executing, Settling
  <1>4. ASSUME NEW p \in Node, SpawnRow(p) PROVE TypeOK'
    <2>1. tool' \in [Node -> Tools]
      <3>1. [tool[p] EXCEPT !.step = "claim"] \in Tools
        BY DEF TypeOK, Tools
      <3>2. tool' = [tool EXCEPT ![p] = [tool[p] EXCEPT !.step = "claim"]] \/ Returns(p)
        BY <1>4 DEF SpawnRow, TypeOK
      <3>3. QED
        BY <3>1, <3>2, NoToolType DEF Returns, TypeOK
    <2>2. tool[p].of \in Task
      BY <1>4 DEF SpawnRow, In, ToolsOK
    <2>3. QED
      BY <1>4, <2>1, <2>2 DEF SpawnRow, control, history, TypeOK, TaskStates, Open
  <1>5. ASSUME NEW p \in Node, SpawnClaim(p) PROVE TypeOK'
    <2>1. tool' \in [Node -> Tools]
      BY <1>5, NoToolType DEF SpawnClaim, Returns, TypeOK
    <2>2. tool[p].of \in Task
      BY <1>5 DEF SpawnClaim, In, ToolsOK
    <2>3. QED
      BY <1>5, <2>1, <2>2 DEF SpawnClaim, Claimable, Launch, Claim, rows, control,
         history, TypeOK, RunStates, TaskStates, Interruptible, Ended, Open,
         Closed, Executing, Settling
  <1>6. ASSUME NEW p \in Node, PollWrite(p) PROVE TypeOK'
    <2>1. tool' \in [Node -> Tools]
      BY <1>6, NoToolType DEF PollWrite, Returns, TypeOK
    <2>2. tool[p].of \in Task /\ tool[p].seen \in RunStates
      BY <1>6 DEF PollWrite, In, ToolsOK
    <2>3. Derived(tool[p].seen) \in TaskStates
      BY <2>2 DEF Derived, RunStates, TaskStates, Interruptible, Ended, Open, Closed
    <2>4. /\ task' \in [Task -> TaskStates]
          /\ owner' \in [Task -> 0..MaxLives]
          /\ astray' \subseteq Task
      BY <1>6, <2>2, <2>3 DEF PollWrite, WriteDerived, Write, TypeOK
    <2>5. QED
      BY <1>6, <2>1, <2>4 DEF PollWrite, control, TypeOK
  <1>7. ASSUME NEW p \in Node, CancelStop(p) PROVE TypeOK'
    <2>1. tool' \in [Node -> Tools]
      <3>1. PICK d \in Deepest(tool[p].left) :
              IF run[d] \in Ended THEN ToTaskRow(p, d)
              ELSE tool' = [tool EXCEPT ![p] =
                              [@ EXCEPT !.step = "row", !.of = d, !.seen = run[d]]]
        BY <1>7 DEF CancelStop
      <3>2. d \in Task
        BY DEF Deepest, TypeOK, Tools
      <3>3. CASE run[d] \in Ended
        BY <3>1, <3>2, <3>3, ToTaskRowType DEF TypeOK
      <3>4. CASE run[d] \notin Ended
        <4>1. [tool[p] EXCEPT !.step = "row", !.of = d, !.seen = run[d]] \in Tools
          <5>1. tool[p] \in Tools /\ run[d] \in RunStates
            BY <3>2 DEF TypeOK
          <5>2. QED
            BY <3>2, <5>1 DEF Tools
        <4>2. QED
          BY <3>1, <3>4, <4>1 DEF TypeOK
      <3>5. QED
        BY <3>3, <3>4
    <2>2. token' \subseteq Node
      BY <1>7 DEF CancelStop, CancelRegistered, Descendants, Below, Deepest, TypeOK, Tools
    <2>3. QED
      BY <1>7, <2>1, <2>2 DEF CancelStop, rows, control, history, TypeOK, RunStates, TaskStates, Interruptible, Ended, Open, Closed, Executing, Settling
  <1>8. ASSUME NEW p \in Node, CancelRow(p) PROVE TypeOK'
    <2> DEFINE d == tool[p].of
    <2>1. tool' \in [Node -> Tools] /\ d \in Task
      <3>1. d \in Task
        BY <1>8 DEF CancelRow, CancelStep, In, ToolsOK
      <3>2. QED
        BY <1>8, <3>1, ToTaskRowType DEF CancelRow, TypeOK
    <2>2. QED
      BY <1>8, <2>1 DEF CancelRow, MoveRun, rows, control, history, TypeOK,
         RunStates, TaskStates, Interruptible, Ended, Open, Closed, Executing,
         Settling
  <1>9. ASSUME NEW p \in Node, CancelRead(p) PROVE TypeOK'
    <2> DEFINE d == tool[p].of
               r == [tool[p] EXCEPT !.step = "write", !.seen = task[d]]
    <2>1. tool' \in [Node -> Tools]
      <3>1. d \in Task
        BY <1>9 DEF CancelRead, CancelStep, In, ToolsOK
      <3>2. tool[p] \in Tools /\ task[d] \in TaskStates
        BY <3>1 DEF TypeOK
      <3>3. r \in Tools
        BY <3>2 DEF Tools
      <3>4. tool' = [tool EXCEPT ![p] = r] \/ NextTask(p, d)
        BY <1>9 DEF CancelRead
      <3>5. QED
        BY <3>1, <3>3, <3>4, NextTaskType DEF TypeOK
    <2>2. QED
      BY <1>9, <2>1 DEF CancelRead, rows, control, history, TypeOK, RunStates,
         TaskStates, Interruptible, Ended, Open, Closed, Executing, Settling
  <1>10. ASSUME NEW p \in Node, CancelWrite(p) PROVE TypeOK'
    <2> DEFINE d == tool[p].of
    <2>1. tool' \in [Node -> Tools] /\ d \in Task
      <3>1. d \in Task
        BY <1>10 DEF CancelWrite, CancelStep, In, ToolsOK
      <3>2. QED
        BY <1>10, <3>1, NextTaskType DEF CancelWrite, TypeOK
    <2>2. QED
      BY <1>10, <2>1 DEF CancelWrite, Write, rows, control, history, TypeOK,
         RunStates, TaskStates, Interruptible, Ended, Open, Closed, Executing,
         Settling
  <1>11. ASSUME NEW p \in Node, DropTool(p) PROVE TypeOK'
    BY <1>11 DEF DropTool, In, Claimable, Claim, Returns, NoTool, rows,
       control, history, TypeOK, RunStates, TaskStates, Interruptible, Ended,
       Open, Closed, Executing, Settling, Tools, ToolsOK
  <1>12. ASSUME NEW p \in Node, Finish(p) PROVE TypeOK'
    BY <1>12 DEF Finish, Turning, Leaves, Descendants, Below, rows, control,
       history, TypeOK, RunStates, TaskStates, Interruptible, Ended, Open,
       Closed, Executing, Settling, Tools, ToolsOK
  <1>13. ASSUME NEW p \in Node, Watch(p) PROVE TypeOK'
    BY <1>13 DEF Watch, rows, control, history, TypeOK, RunStates, TaskStates,
       Interruptible, Ended, Open, Closed, Executing, Settling, Tools, ToolsOK
  <1>14. ASSUME NEW p \in Node, StopRun(p) PROVE TypeOK'
    BY <1>14 DEF StopRun, Turning, rows, control, history, TypeOK, RunStates,
       TaskStates, Interruptible, Ended, Open, Closed, Executing, Settling,
       Tools, ToolsOK
  <1>15. ASSUME NEW p \in Node, Stopped(p) PROVE TypeOK'
    BY <1>15 DEF Stopped, Turning, Leaves, Descendants, Below, rows, control,
       history, TypeOK, RunStates, TaskStates, Interruptible, Ended, Open,
       Closed, Executing, Settling, Tools, ToolsOK
  <1>16. ASSUME NEW p \in Node, Resume(p) PROVE TypeOK'
    BY <1>16 DEF Resume, rows, control, history, TypeOK, RunStates,
       TaskStates, Interruptible, Ended, Open, Closed, Executing, Settling,
       Tools, ToolsOK
  <1>17. ASSUME NEW t \in Task, Register(t) PROVE TypeOK'
    BY <1>17 DEF Register, rows, control, history, TypeOK, RunStates,
       TaskStates, Interruptible, Ended, Open, Closed, Executing, Settling,
       Tools, ToolsOK
  <1>18. ASSUME NEW t \in Task, Enter(t) PROVE TypeOK'
    BY <1>18 DEF Enter, rows, control, history, TypeOK, RunStates, TaskStates,
       Interruptible, Ended, Open, Closed, Executing, Settling, Tools, ToolsOK
  <1>19. ASSUME NEW t \in Task, Refuse(t) PROVE TypeOK'
    BY <1>19 DEF Refuse, Leaves, Descendants, Below, rows, control, history,
       TypeOK, RunStates, TaskStates, Interruptible, Ended, Open, Closed,
       Executing, Settling, Tools, ToolsOK
  <1>20. ASSUME NEW t \in Task, Go(t) PROVE TypeOK'
    BY <1>20 DEF Go, rows, control, history, TypeOK, RunStates, TaskStates,
       Interruptible, Ended, Open, Closed, Executing, Settling, Tools, ToolsOK
  <1>21. ASSUME NEW t \in Task, Break(t) PROVE TypeOK'
    BY <1>21 DEF Break, Turning, Leaves, Descendants, Below, rows, control,
       history, TypeOK, RunStates, TaskStates, Interruptible, Ended, Open,
       Closed, Executing, Settling, Tools, ToolsOK
  <1>22. ASSUME NEW t \in Task, Deliver(t) PROVE TypeOK'
    BY <1>22 DEF Deliver, Selecting, StopSelecting, CancelRegistered,
       Descendants, Below, rows, control, history, TypeOK, RunStates, TaskStates,
       Interruptible, Ended, Open, Closed, Executing, Settling, Tools, ToolsOK
  <1>23. ASSUME NEW t \in Task, Heartbeat(t) PROVE TypeOK'
    BY <1>23 DEF Heartbeat, Selecting, StopSelecting, CancelRegistered,
       Descendants, Below, rows, control, history, TypeOK, RunStates, TaskStates,
       Interruptible, Ended, Open, Closed, Executing, Settling, Tools, ToolsOK
  <1>24. ASSUME NEW t \in Task, Settle(t) PROVE TypeOK'
    BY <1>24 DEF Settle, MoveRun, rows, control, history, TypeOK, RunStates,
       TaskStates, Interruptible, Ended, Open, Closed, Executing, Settling,
       Tools, ToolsOK
  <1>25. ASSUME NEW t \in Task, WriteTask(t) PROVE TypeOK'
    BY <1>25 DEF WriteTask, WriteDerived, Write, Derived, rows, control,
       history, TypeOK, RunStates, TaskStates, Interruptible, Ended, Open,
       Closed, Executing, Settling, Tools, ToolsOK
  <1>26. ASSUME NEW t \in Task, Release(t) PROVE TypeOK'
    BY <1>26 DEF Release, TaskAccepts, rows, control, history, TypeOK,
       RunStates, TaskStates, Interruptible, Ended, Open, Closed, Executing,
       Settling, Tools, ToolsOK
  <1>27. ASSUME NEW t \in Task, InspectCancelled(t) PROVE TypeOK'
    BY <1>27 DEF InspectCancelled, Inspect, MoveRun, MoveTask, Write, rows,
       control, history, TypeOK, RunStates, TaskStates, Interruptible, Ended,
       Open, Closed, Executing, Settling, Tools, ToolsOK
  <1>28. ASSUME NEW t \in Task, InspectEnded(t) PROVE TypeOK'
    BY <1>28 DEF InspectEnded, Inspect, Write, Derived, rows, control,
       history, TypeOK, RunStates, TaskStates, Interruptible, Ended, Open,
       Closed, Executing, Settling, Tools, ToolsOK
  <1>29. ASSUME NEW t \in Task, InspectFails(t) PROVE TypeOK'
    BY <1>29 DEF InspectFails, Inspect, MoveRun, MoveTask, Write, rows,
       control, history, TypeOK, RunStates, TaskStates, Interruptible, Ended,
       Open, Closed, Executing, Settling, Tools, ToolsOK
  <1>30. ASSUME NEW t \in Task, InspectResumes(t) PROVE TypeOK'
    BY <1>30 DEF InspectResumes, Inspect, Claimable, Launch, Claim, rows,
       control, history, TypeOK, RunStates, TaskStates, Interruptible, Ended,
       Open, Closed, Executing, Settling, Tools, ToolsOK
  <1>31. ASSUME NEW t \in Task, InspectUnprepared(t) PROVE TypeOK'
    BY <1>31 DEF InspectUnprepared, Inspect, MoveTask, Write, rows, control,
       history, TypeOK, RunStates, TaskStates, Interruptible, Ended, Open,
       Closed, Executing, Settling, Tools, ToolsOK
  <1>32. CASE UserCancel
    BY <1>32 DEF UserCancel, CancelRegistered, Descendants, Below, rows,
       control, history, TypeOK, RunStates, TaskStates, Interruptible, Ended,
       Open, Closed, Executing, Settling, Tools, ToolsOK
  <1>33. CASE Restart
    BY <1>33 DEF Restart, NoTool, rows, control, history, TypeOK, RunStates,
       TaskStates, Interruptible, Ended, Open, Closed, Executing, Settling,
       Tools, ToolsOK
  <1>34. CASE UNCHANGED vars
    BY <1>34 DEF vars, rows, control, history, TypeOK, RunStates, TaskStates,
       Interruptible, Ended, Open, Closed, Executing, Settling, Tools, ToolsOK
  <1>35. QED
    BY <1>1, <1>2, <1>3, <1>4, <1>5, <1>6, <1>7, <1>8, <1>9, <1>10, <1>11,
       <1>12, <1>13, <1>14, <1>15, <1>16, <1>17, <1>18, <1>19, <1>20, <1>21,
       <1>22, <1>23, <1>24, <1>25, <1>26, <1>27, <1>28, <1>29, <1>30, <1>31,
       <1>32, <1>33, <1>34 DEF Next, ToolStep, ExecutorStep, InspectStep

(* A tool goes on with the Task it has chosen.                              *)
LEMMA ToolStepOK == TypeOK /\ ToolsOK /\ [Next]_vars => ToolsOK'
  <1> SUFFICES ASSUME TypeOK, ToolsOK, [Next]_vars PROVE ToolsOK'
    OBVIOUS
  <1> USE TasksAssumption DEF Node
  <1>1. ASSUME NEW p \in Node, NEW t \in Task, Spawn(p, t) PROVE ToolsOK'
    BY <1>1 DEF Spawn, Calls, NoTool, rows, control, history, TypeOK,
       RunStates, TaskStates, Interruptible, Ended, Open, Closed, Executing,
       Settling, Tools, ToolsOK
  <1>2. ASSUME NEW p \in Node, NEW t \in Task, Poll(p, t) PROVE ToolsOK'
    BY <1>2 DEF Poll, Calls, NoTool, rows, control, history, TypeOK,
       RunStates, TaskStates, Interruptible, Ended, Open, Closed, Executing,
       Settling, Tools, ToolsOK
  <1>3. ASSUME NEW p \in Node, NEW t \in Task, Cancel(p, t) PROVE ToolsOK'
    BY <1>3 DEF Cancel, Calls, NoTool, Subtree, rows, control, history,
       TypeOK, RunStates, TaskStates, Interruptible, Ended, Open, Closed,
       Executing, Settling, Tools, ToolsOK
  <1>4. ASSUME NEW p \in Node, SpawnRow(p) PROVE ToolsOK'
    BY <1>4 DEF SpawnRow, In, Returns, NoTool, rows, control, history, TypeOK,
       RunStates, TaskStates, Interruptible, Ended, Open, Closed, Executing,
       Settling, Tools, ToolsOK
  <1>5. ASSUME NEW p \in Node, SpawnClaim(p) PROVE ToolsOK'
    BY <1>5 DEF SpawnClaim, In, Returns, NoTool, Claimable, Launch, Claim,
       rows, control, history, TypeOK, RunStates, TaskStates, Interruptible,
       Ended, Open, Closed, Executing, Settling, Tools, ToolsOK
  <1>6. ASSUME NEW p \in Node, PollWrite(p) PROVE ToolsOK'
    BY <1>6 DEF PollWrite, In, Returns, NoTool, WriteDerived, Write, Derived,
       rows, control, history, TypeOK, RunStates, TaskStates, Interruptible,
       Ended, Open, Closed, Executing, Settling, Tools, ToolsOK
  <1>7. ASSUME NEW p \in Node, CancelStop(p) PROVE ToolsOK'
    <2>1. PICK d \in Deepest(tool[p].left) :
            IF run[d] \in Ended THEN ToTaskRow(p, d)
            ELSE tool' = [tool EXCEPT ![p] =
                            [@ EXCEPT !.step = "row", !.of = d, !.seen = run[d]]]
      BY <1>7 DEF CancelStop
    <2>2. d \in Task /\ tool[p].kind = "cancel"
      BY <1>7 DEF CancelStop, CancelStep, In, Deepest, TypeOK, Tools
    <2>3. CASE run[d] \in Ended
      BY <2>1, <2>2, <2>3, ToTaskRowOK DEF TypeOK
    <2>4. CASE run[d] \notin Ended
      <3>1. tool'[p].kind = "cancel" /\ tool'[p].of = d
        <4>1. tool'[p] = [tool[p] EXCEPT !.step = "row", !.of = d, !.seen = run[d]]
          BY <2>1, <2>4 DEF TypeOK
        <4>2. tool[p] \in Tools
          BY DEF TypeOK
        <4>3. QED
          BY <2>2, <4>1, <4>2 DEF Tools
      <3>2. \A q \in Node \ {p} : tool'[q] = tool[q]
        BY <2>1, <2>4 DEF TypeOK
      <3>3. QED
        BY <2>2, <3>1, <3>2 DEF ToolsOK
    <2>5. QED
      BY <2>3, <2>4
  <1>8. ASSUME NEW p \in Node, CancelRow(p) PROVE ToolsOK'
    <2>1. tool[p].of \in Task /\ tool[p].kind = "cancel"
      BY <1>8 DEF CancelRow, CancelStep, In, ToolsOK
    <2>2. QED
      BY <1>8, <2>1, ToTaskRowOK DEF CancelRow, TypeOK
  <1>9. ASSUME NEW p \in Node, CancelRead(p) PROVE ToolsOK'
    <2> DEFINE d == tool[p].of
    <2>1. d \in Task /\ tool[p].kind = "cancel"
      BY <1>9 DEF CancelRead, CancelStep, In, ToolsOK
    <2>2. CASE NextTask(p, d)
      BY <2>1, <2>2, NextTaskOK DEF TypeOK
    <2>3. CASE tool' = [tool EXCEPT ![p] = [@ EXCEPT !.step = "write", !.seen = task[d]]]
      <3>1. tool'[p].kind = "cancel" /\ tool'[p].of = d
        BY <2>1, <2>3 DEF TypeOK, Tools
      <3>2. \A q \in Node \ {p} : tool'[q] = tool[q]
        BY <2>3 DEF TypeOK
      <3>3. QED
        BY <2>1, <3>1, <3>2 DEF ToolsOK
    <2>4. QED
      BY <1>9, <2>2, <2>3 DEF CancelRead
  <1>10. ASSUME NEW p \in Node, CancelWrite(p) PROVE ToolsOK'
    <2>1. tool[p].of \in Task /\ tool[p].kind = "cancel"
      BY <1>10 DEF CancelWrite, CancelStep, In, ToolsOK
    <2>2. QED
      BY <1>10, <2>1, NextTaskOK DEF CancelWrite, TypeOK
  <1>11. ASSUME NEW p \in Node, DropTool(p) PROVE ToolsOK'
    BY <1>11 DEF DropTool, In, Claimable, Claim, Returns, NoTool, rows,
       control, history, TypeOK, RunStates, TaskStates, Interruptible, Ended,
       Open, Closed, Executing, Settling, Tools, ToolsOK
  <1>12. ASSUME NEW p \in Node, Finish(p) PROVE ToolsOK'
    BY <1>12 DEF Finish, Turning, Leaves, Descendants, Below, rows, control,
       history, TypeOK, RunStates, TaskStates, Interruptible, Ended, Open,
       Closed, Executing, Settling, Tools, ToolsOK
  <1>13. ASSUME NEW p \in Node, Watch(p) PROVE ToolsOK'
    BY <1>13 DEF Watch, rows, control, history, TypeOK, RunStates, TaskStates,
       Interruptible, Ended, Open, Closed, Executing, Settling, Tools, ToolsOK
  <1>14. ASSUME NEW p \in Node, StopRun(p) PROVE ToolsOK'
    BY <1>14 DEF StopRun, Turning, rows, control, history, TypeOK, RunStates,
       TaskStates, Interruptible, Ended, Open, Closed, Executing, Settling,
       Tools, ToolsOK
  <1>15. ASSUME NEW p \in Node, Stopped(p) PROVE ToolsOK'
    BY <1>15 DEF Stopped, Turning, Leaves, Descendants, Below, rows, control,
       history, TypeOK, RunStates, TaskStates, Interruptible, Ended, Open,
       Closed, Executing, Settling, Tools, ToolsOK
  <1>16. ASSUME NEW p \in Node, Resume(p) PROVE ToolsOK'
    BY <1>16 DEF Resume, rows, control, history, TypeOK, RunStates,
       TaskStates, Interruptible, Ended, Open, Closed, Executing, Settling,
       Tools, ToolsOK
  <1>17. ASSUME NEW t \in Task, Register(t) PROVE ToolsOK'
    BY <1>17 DEF Register, rows, control, history, TypeOK, RunStates,
       TaskStates, Interruptible, Ended, Open, Closed, Executing, Settling,
       Tools, ToolsOK
  <1>18. ASSUME NEW t \in Task, Enter(t) PROVE ToolsOK'
    BY <1>18 DEF Enter, rows, control, history, TypeOK, RunStates, TaskStates,
       Interruptible, Ended, Open, Closed, Executing, Settling, Tools, ToolsOK
  <1>19. ASSUME NEW t \in Task, Refuse(t) PROVE ToolsOK'
    BY <1>19 DEF Refuse, Leaves, Descendants, Below, rows, control, history,
       TypeOK, RunStates, TaskStates, Interruptible, Ended, Open, Closed,
       Executing, Settling, Tools, ToolsOK
  <1>20. ASSUME NEW t \in Task, Go(t) PROVE ToolsOK'
    BY <1>20 DEF Go, rows, control, history, TypeOK, RunStates, TaskStates,
       Interruptible, Ended, Open, Closed, Executing, Settling, Tools, ToolsOK
  <1>21. ASSUME NEW t \in Task, Break(t) PROVE ToolsOK'
    BY <1>21 DEF Break, Turning, Leaves, Descendants, Below, rows, control,
       history, TypeOK, RunStates, TaskStates, Interruptible, Ended, Open,
       Closed, Executing, Settling, Tools, ToolsOK
  <1>22. ASSUME NEW t \in Task, Deliver(t) PROVE ToolsOK'
    BY <1>22 DEF Deliver, Selecting, StopSelecting, CancelRegistered,
       Descendants, Below, rows, control, history, TypeOK, RunStates, TaskStates,
       Interruptible, Ended, Open, Closed, Executing, Settling, Tools, ToolsOK
  <1>23. ASSUME NEW t \in Task, Heartbeat(t) PROVE ToolsOK'
    BY <1>23 DEF Heartbeat, Selecting, StopSelecting, CancelRegistered,
       Descendants, Below, rows, control, history, TypeOK, RunStates, TaskStates,
       Interruptible, Ended, Open, Closed, Executing, Settling, Tools, ToolsOK
  <1>24. ASSUME NEW t \in Task, Settle(t) PROVE ToolsOK'
    BY <1>24 DEF Settle, MoveRun, rows, control, history, TypeOK, RunStates,
       TaskStates, Interruptible, Ended, Open, Closed, Executing, Settling,
       Tools, ToolsOK
  <1>25. ASSUME NEW t \in Task, WriteTask(t) PROVE ToolsOK'
    BY <1>25 DEF WriteTask, WriteDerived, Write, Derived, rows, control,
       history, TypeOK, RunStates, TaskStates, Interruptible, Ended, Open,
       Closed, Executing, Settling, Tools, ToolsOK
  <1>26. ASSUME NEW t \in Task, Release(t) PROVE ToolsOK'
    BY <1>26 DEF Release, TaskAccepts, rows, control, history, TypeOK,
       RunStates, TaskStates, Interruptible, Ended, Open, Closed, Executing,
       Settling, Tools, ToolsOK
  <1>27. ASSUME NEW t \in Task, InspectCancelled(t) PROVE ToolsOK'
    BY <1>27 DEF InspectCancelled, Inspect, MoveRun, MoveTask, Write, rows,
       control, history, TypeOK, RunStates, TaskStates, Interruptible, Ended,
       Open, Closed, Executing, Settling, Tools, ToolsOK
  <1>28. ASSUME NEW t \in Task, InspectEnded(t) PROVE ToolsOK'
    BY <1>28 DEF InspectEnded, Inspect, Write, Derived, rows, control,
       history, TypeOK, RunStates, TaskStates, Interruptible, Ended, Open,
       Closed, Executing, Settling, Tools, ToolsOK
  <1>29. ASSUME NEW t \in Task, InspectFails(t) PROVE ToolsOK'
    BY <1>29 DEF InspectFails, Inspect, MoveRun, MoveTask, Write, rows,
       control, history, TypeOK, RunStates, TaskStates, Interruptible, Ended,
       Open, Closed, Executing, Settling, Tools, ToolsOK
  <1>30. ASSUME NEW t \in Task, InspectResumes(t) PROVE ToolsOK'
    BY <1>30 DEF InspectResumes, Inspect, Claimable, Launch, Claim, rows,
       control, history, TypeOK, RunStates, TaskStates, Interruptible, Ended,
       Open, Closed, Executing, Settling, Tools, ToolsOK
  <1>31. ASSUME NEW t \in Task, InspectUnprepared(t) PROVE ToolsOK'
    BY <1>31 DEF InspectUnprepared, Inspect, MoveTask, Write, rows, control,
       history, TypeOK, RunStates, TaskStates, Interruptible, Ended, Open,
       Closed, Executing, Settling, Tools, ToolsOK
  <1>32. CASE UserCancel
    BY <1>32 DEF UserCancel, CancelRegistered, Descendants, Below, rows,
       control, history, TypeOK, RunStates, TaskStates, Interruptible, Ended,
       Open, Closed, Executing, Settling, Tools, ToolsOK
  <1>33. CASE Restart
    BY <1>33 DEF Restart, NoTool, rows, control, history, TypeOK, RunStates,
       TaskStates, Interruptible, Ended, Open, Closed, Executing, Settling,
       Tools, ToolsOK
  <1>34. CASE UNCHANGED vars
    BY <1>34 DEF vars, rows, control, history, TypeOK, RunStates, TaskStates,
       Interruptible, Ended, Open, Closed, Executing, Settling, Tools, ToolsOK
  <1>35. QED
    BY <1>1, <1>2, <1>3, <1>4, <1>5, <1>6, <1>7, <1>8, <1>9, <1>10, <1>11,
       <1>12, <1>13, <1>14, <1>15, <1>16, <1>17, <1>18, <1>19, <1>20, <1>21,
       <1>22, <1>23, <1>24, <1>25, <1>26, <1>27, <1>28, <1>29, <1>30, <1>31,
       <1>32, <1>33, <1>34 DEF Next, ToolStep, ExecutorStep, InspectStep

(* A claim is in the name of this process.                                  *)
LEMMA OwnerStep == TypeOK /\ ToolsOK /\ OwnersPast /\ [Next]_vars => OwnersPast'
  <1> SUFFICES ASSUME TypeOK, ToolsOK, OwnersPast, [Next]_vars PROVE OwnersPast'
    OBVIOUS
  <1> USE TasksAssumption DEF Node
  <1>1. ASSUME NEW p \in Node, NEW t \in Task, Spawn(p, t) PROVE OwnersPast'
    BY <1>1 DEF Spawn, Calls, NoTool, rows, control, history, TypeOK, ToolsOK,
       OwnersPast, Open, Closed
  <1>2. ASSUME NEW p \in Node, NEW t \in Task, Poll(p, t) PROVE OwnersPast'
    BY <1>2 DEF Poll, Calls, NoTool, rows, control, history, TypeOK, ToolsOK,
       OwnersPast, Open, Closed
  <1>3. ASSUME NEW p \in Node, NEW t \in Task, Cancel(p, t) PROVE OwnersPast'
    BY <1>3 DEF Cancel, Calls, NoTool, Subtree, rows, control, history,
       TypeOK, ToolsOK, OwnersPast, Open, Closed
  <1>4. ASSUME NEW p \in Node, SpawnRow(p) PROVE OwnersPast'
    BY <1>4 DEF SpawnRow, In, Returns, NoTool, rows, control, history, TypeOK,
       ToolsOK, OwnersPast, Open, Closed
  <1>5. ASSUME NEW p \in Node, SpawnClaim(p) PROVE OwnersPast'
    BY <1>5 DEF SpawnClaim, In, Returns, NoTool, Claimable, Launch, Claim,
       rows, control, history, TypeOK, ToolsOK, OwnersPast, Open, Closed
  <1>6. ASSUME NEW p \in Node, PollWrite(p) PROVE OwnersPast'
    BY <1>6 DEF PollWrite, In, Returns, NoTool, WriteDerived, Write, Derived,
       rows, control, history, TypeOK, ToolsOK, OwnersPast, Open, Closed
  <1>7. ASSUME NEW p \in Node, CancelStop(p) PROVE OwnersPast'
    BY <1>7 DEF CancelStop, CancelStep, In, Deepest, ToTaskRow, NextTask,
       NoTool, CancelRegistered, Descendants, Below, rows, control, history,
       TypeOK, ToolsOK, OwnersPast, Open, Closed
  <1>8. ASSUME NEW p \in Node, CancelRow(p) PROVE OwnersPast'
    BY <1>8 DEF CancelRow, CancelStep, In, ToTaskRow, NextTask, NoTool,
       MoveRun, rows, control, history, TypeOK, ToolsOK, OwnersPast, Open, Closed
  <1>9. ASSUME NEW p \in Node, CancelRead(p) PROVE OwnersPast'
    BY <1>9 DEF CancelRead, CancelStep, In, NextTask, NoTool, rows, control,
       history, TypeOK, ToolsOK, OwnersPast, Open, Closed
  <1>10. ASSUME NEW p \in Node, CancelWrite(p) PROVE OwnersPast'
    BY <1>10 DEF CancelWrite, CancelStep, In, NextTask, NoTool, Write, rows,
       control, history, TypeOK, ToolsOK, OwnersPast, Open, Closed
  <1>11. ASSUME NEW p \in Node, DropTool(p) PROVE OwnersPast'
    BY <1>11 DEF DropTool, In, Claimable, Claim, Returns, NoTool, rows,
       control, history, TypeOK, ToolsOK, OwnersPast, Open, Closed
  <1>12. ASSUME NEW p \in Node, Finish(p) PROVE OwnersPast'
    BY <1>12 DEF Finish, Turning, Leaves, Descendants, Below, rows, control,
       history, TypeOK, ToolsOK, OwnersPast, Open, Closed
  <1>13. ASSUME NEW p \in Node, Watch(p) PROVE OwnersPast'
    BY <1>13 DEF Watch, rows, control, history, TypeOK, ToolsOK, OwnersPast,
       Open, Closed
  <1>14. ASSUME NEW p \in Node, StopRun(p) PROVE OwnersPast'
    BY <1>14 DEF StopRun, Turning, rows, control, history, TypeOK, ToolsOK,
       OwnersPast, Open, Closed
  <1>15. ASSUME NEW p \in Node, Stopped(p) PROVE OwnersPast'
    BY <1>15 DEF Stopped, Turning, Leaves, Descendants, Below, rows, control,
       history, TypeOK, ToolsOK, OwnersPast, Open, Closed
  <1>16. ASSUME NEW p \in Node, Resume(p) PROVE OwnersPast'
    BY <1>16 DEF Resume, rows, control, history, TypeOK, ToolsOK, OwnersPast,
       Open, Closed
  <1>17. ASSUME NEW t \in Task, Register(t) PROVE OwnersPast'
    BY <1>17 DEF Register, rows, control, history, TypeOK, ToolsOK,
       OwnersPast, Open, Closed
  <1>18. ASSUME NEW t \in Task, Enter(t) PROVE OwnersPast'
    BY <1>18 DEF Enter, rows, control, history, TypeOK, ToolsOK, OwnersPast,
       Open, Closed
  <1>19. ASSUME NEW t \in Task, Refuse(t) PROVE OwnersPast'
    BY <1>19 DEF Refuse, Leaves, Descendants, Below, rows, control, history,
       TypeOK, ToolsOK, OwnersPast, Open, Closed
  <1>20. ASSUME NEW t \in Task, Go(t) PROVE OwnersPast'
    BY <1>20 DEF Go, rows, control, history, TypeOK, ToolsOK, OwnersPast,
       Open, Closed
  <1>21. ASSUME NEW t \in Task, Break(t) PROVE OwnersPast'
    BY <1>21 DEF Break, Turning, Leaves, Descendants, Below, rows, control,
       history, TypeOK, ToolsOK, OwnersPast, Open, Closed
  <1>22. ASSUME NEW t \in Task, Deliver(t) PROVE OwnersPast'
    BY <1>22 DEF Deliver, Selecting, StopSelecting, CancelRegistered,
       Descendants, Below, rows, control, history, TypeOK, ToolsOK, OwnersPast,
       Open, Closed
  <1>23. ASSUME NEW t \in Task, Heartbeat(t) PROVE OwnersPast'
    BY <1>23 DEF Heartbeat, Selecting, StopSelecting, CancelRegistered,
       Descendants, Below, rows, control, history, TypeOK, ToolsOK, OwnersPast,
       Open, Closed
  <1>24. ASSUME NEW t \in Task, Settle(t) PROVE OwnersPast'
    BY <1>24 DEF Settle, MoveRun, rows, control, history, TypeOK, ToolsOK,
       OwnersPast, Open, Closed
  <1>25. ASSUME NEW t \in Task, WriteTask(t) PROVE OwnersPast'
    BY <1>25 DEF WriteTask, WriteDerived, Write, Derived, rows, control,
       history, TypeOK, ToolsOK, OwnersPast, Open, Closed
  <1>26. ASSUME NEW t \in Task, Release(t) PROVE OwnersPast'
    BY <1>26 DEF Release, TaskAccepts, rows, control, history, TypeOK,
       ToolsOK, OwnersPast, Open, Closed
  <1>27. ASSUME NEW t \in Task, InspectCancelled(t) PROVE OwnersPast'
    BY <1>27 DEF InspectCancelled, Inspect, MoveRun, MoveTask, Write, rows,
       control, history, TypeOK, ToolsOK, OwnersPast, Open, Closed
  <1>28. ASSUME NEW t \in Task, InspectEnded(t) PROVE OwnersPast'
    BY <1>28 DEF InspectEnded, Inspect, Write, Derived, rows, control,
       history, TypeOK, ToolsOK, OwnersPast, Open, Closed
  <1>29. ASSUME NEW t \in Task, InspectFails(t) PROVE OwnersPast'
    BY <1>29 DEF InspectFails, Inspect, MoveRun, MoveTask, Write, rows,
       control, history, TypeOK, ToolsOK, OwnersPast, Open, Closed
  <1>30. ASSUME NEW t \in Task, InspectResumes(t) PROVE OwnersPast'
    BY <1>30 DEF InspectResumes, Inspect, Claimable, Launch, Claim, rows,
       control, history, TypeOK, ToolsOK, OwnersPast, Open, Closed
  <1>31. ASSUME NEW t \in Task, InspectUnprepared(t) PROVE OwnersPast'
    BY <1>31 DEF InspectUnprepared, Inspect, MoveTask, Write, rows, control,
       history, TypeOK, ToolsOK, OwnersPast, Open, Closed
  <1>32. CASE UserCancel
    BY <1>32 DEF UserCancel, CancelRegistered, Descendants, Below, rows,
       control, history, TypeOK, ToolsOK, OwnersPast, Open, Closed
  <1>33. CASE Restart
    BY <1>33 DEF Restart, NoTool, rows, control, history, TypeOK, ToolsOK,
       OwnersPast, Open, Closed
  <1>34. CASE UNCHANGED vars
    BY <1>34 DEF vars, rows, control, history, TypeOK, ToolsOK, OwnersPast,
       Open, Closed
  <1>35. QED
    BY <1>1, <1>2, <1>3, <1>4, <1>5, <1>6, <1>7, <1>8, <1>9, <1>10, <1>11,
       <1>12, <1>13, <1>14, <1>15, <1>16, <1>17, <1>18, <1>19, <1>20, <1>21,
       <1>22, <1>23, <1>24, <1>25, <1>26, <1>27, <1>28, <1>29, <1>30, <1>31,
       <1>32, <1>33, <1>34 DEF Next, ToolStep, ExecutorStep, InspectStep

(* An executor that leaves gives back its lease.                            *)
LEMMA LeaseStep == TypeOK /\ ToolsOK /\ OwnersPast /\ LeaseAccounted /\ [Next]_vars => LeaseAccounted'
  <1> SUFFICES ASSUME TypeOK, ToolsOK, OwnersPast, LeaseAccounted, [Next]_vars PROVE LeaseAccounted'
    OBVIOUS
  <1> USE TasksAssumption DEF Node
  <1>1. ASSUME NEW p \in Node, NEW t \in Task, Spawn(p, t) PROVE LeaseAccounted'
    BY <1>1 DEF Spawn, Calls, NoTool, rows, control, history, TypeOK, ToolsOK,
       OwnersPast, LeaseAccounted, Executing, Settling, Open, Closed
  <1>2. ASSUME NEW p \in Node, NEW t \in Task, Poll(p, t) PROVE LeaseAccounted'
    BY <1>2 DEF Poll, Calls, NoTool, rows, control, history, TypeOK, ToolsOK,
       OwnersPast, LeaseAccounted, Executing, Settling, Open, Closed
  <1>3. ASSUME NEW p \in Node, NEW t \in Task, Cancel(p, t) PROVE LeaseAccounted'
    BY <1>3 DEF Cancel, Calls, NoTool, Subtree, rows, control, history,
       TypeOK, ToolsOK, OwnersPast, LeaseAccounted, Executing, Settling, Open,
       Closed
  <1>4. ASSUME NEW p \in Node, SpawnRow(p) PROVE LeaseAccounted'
    BY <1>4 DEF SpawnRow, In, Returns, NoTool, rows, control, history, TypeOK,
       ToolsOK, OwnersPast, LeaseAccounted, Executing, Settling, Open, Closed
  <1>5. ASSUME NEW p \in Node, SpawnClaim(p) PROVE LeaseAccounted'
    BY <1>5 DEF SpawnClaim, In, Returns, NoTool, Claimable, Launch, Claim,
       rows, control, history, TypeOK, ToolsOK, OwnersPast, LeaseAccounted,
       Executing, Settling, Open, Closed
  <1>6. ASSUME NEW p \in Node, PollWrite(p) PROVE LeaseAccounted'
    BY <1>6 DEF PollWrite, In, Returns, NoTool, WriteDerived, Write, Derived,
       rows, control, history, TypeOK, ToolsOK, OwnersPast, LeaseAccounted,
       Executing, Settling, Open, Closed
  <1>7. ASSUME NEW p \in Node, CancelStop(p) PROVE LeaseAccounted'
    BY <1>7 DEF CancelStop, CancelStep, In, Deepest, ToTaskRow, NextTask,
       NoTool, CancelRegistered, Descendants, Below, rows, control, history,
       TypeOK, ToolsOK, OwnersPast, LeaseAccounted, Executing, Settling, Open,
       Closed
  <1>8. ASSUME NEW p \in Node, CancelRow(p) PROVE LeaseAccounted'
    BY <1>8 DEF CancelRow, CancelStep, In, ToTaskRow, NextTask, NoTool,
       MoveRun, rows, control, history, TypeOK, ToolsOK, OwnersPast,
       LeaseAccounted, Executing, Settling, Open, Closed
  <1>9. ASSUME NEW p \in Node, CancelRead(p) PROVE LeaseAccounted'
    BY <1>9 DEF CancelRead, CancelStep, In, NextTask, NoTool, rows, control,
       history, TypeOK, ToolsOK, OwnersPast, LeaseAccounted, Executing, Settling,
       Open, Closed
  <1>10. ASSUME NEW p \in Node, CancelWrite(p) PROVE LeaseAccounted'
    BY <1>10 DEF CancelWrite, CancelStep, In, NextTask, NoTool, Write, rows,
       control, history, TypeOK, ToolsOK, OwnersPast, LeaseAccounted, Executing,
       Settling, Open, Closed
  <1>11. ASSUME NEW p \in Node, DropTool(p) PROVE LeaseAccounted'
    BY <1>11 DEF DropTool, In, Claimable, Claim, Returns, NoTool, rows,
       control, history, TypeOK, ToolsOK, OwnersPast, LeaseAccounted, Executing,
       Settling, Open, Closed
  <1>12. ASSUME NEW p \in Node, Finish(p) PROVE LeaseAccounted'
    BY <1>12 DEF Finish, Turning, Leaves, Descendants, Below, rows, control,
       history, TypeOK, ToolsOK, OwnersPast, LeaseAccounted, Executing, Settling,
       Open, Closed
  <1>13. ASSUME NEW p \in Node, Watch(p) PROVE LeaseAccounted'
    BY <1>13 DEF Watch, rows, control, history, TypeOK, ToolsOK, OwnersPast,
       LeaseAccounted, Executing, Settling, Open, Closed
  <1>14. ASSUME NEW p \in Node, StopRun(p) PROVE LeaseAccounted'
    BY <1>14 DEF StopRun, Turning, rows, control, history, TypeOK, ToolsOK,
       OwnersPast, LeaseAccounted, Executing, Settling, Open, Closed
  <1>15. ASSUME NEW p \in Node, Stopped(p) PROVE LeaseAccounted'
    BY <1>15 DEF Stopped, Turning, Leaves, Descendants, Below, rows, control,
       history, TypeOK, ToolsOK, OwnersPast, LeaseAccounted, Executing, Settling,
       Open, Closed
  <1>16. ASSUME NEW p \in Node, Resume(p) PROVE LeaseAccounted'
    BY <1>16 DEF Resume, rows, control, history, TypeOK, ToolsOK, OwnersPast,
       LeaseAccounted, Executing, Settling, Open, Closed
  <1>17. ASSUME NEW t \in Task, Register(t) PROVE LeaseAccounted'
    BY <1>17 DEF Register, rows, control, history, TypeOK, ToolsOK,
       OwnersPast, LeaseAccounted, Executing, Settling, Open, Closed
  <1>18. ASSUME NEW t \in Task, Enter(t) PROVE LeaseAccounted'
    BY <1>18 DEF Enter, rows, control, history, TypeOK, ToolsOK, OwnersPast,
       LeaseAccounted, Executing, Settling, Open, Closed
  <1>19. ASSUME NEW t \in Task, Refuse(t) PROVE LeaseAccounted'
    BY <1>19 DEF Refuse, Leaves, Descendants, Below, rows, control, history,
       TypeOK, ToolsOK, OwnersPast, LeaseAccounted, Executing, Settling, Open,
       Closed
  <1>20. ASSUME NEW t \in Task, Go(t) PROVE LeaseAccounted'
    BY <1>20 DEF Go, rows, control, history, TypeOK, ToolsOK, OwnersPast,
       LeaseAccounted, Executing, Settling, Open, Closed
  <1>21. ASSUME NEW t \in Task, Break(t) PROVE LeaseAccounted'
    BY <1>21 DEF Break, Turning, Leaves, Descendants, Below, rows, control,
       history, TypeOK, ToolsOK, OwnersPast, LeaseAccounted, Executing, Settling,
       Open, Closed
  <1>22. ASSUME NEW t \in Task, Deliver(t) PROVE LeaseAccounted'
    BY <1>22 DEF Deliver, Selecting, StopSelecting, CancelRegistered,
       Descendants, Below, rows, control, history, TypeOK, ToolsOK, OwnersPast,
       LeaseAccounted, Executing, Settling, Open, Closed
  <1>23. ASSUME NEW t \in Task, Heartbeat(t) PROVE LeaseAccounted'
    BY <1>23 DEF Heartbeat, Selecting, StopSelecting, CancelRegistered,
       Descendants, Below, rows, control, history, TypeOK, ToolsOK, OwnersPast,
       LeaseAccounted, Executing, Settling, Open, Closed
  <1>24. ASSUME NEW t \in Task, Settle(t) PROVE LeaseAccounted'
    BY <1>24 DEF Settle, MoveRun, rows, control, history, TypeOK, ToolsOK,
       OwnersPast, LeaseAccounted, Executing, Settling, Open, Closed
  <1>25. ASSUME NEW t \in Task, WriteTask(t) PROVE LeaseAccounted'
    BY <1>25 DEF WriteTask, WriteDerived, Write, Derived, rows, control,
       history, TypeOK, ToolsOK, OwnersPast, LeaseAccounted, Executing, Settling,
       Open, Closed
  <1>26. ASSUME NEW t \in Task, Release(t) PROVE LeaseAccounted'
    BY <1>26 DEF Release, TaskAccepts, rows, control, history, TypeOK,
       ToolsOK, OwnersPast, LeaseAccounted, Executing, Settling, Open, Closed
  <1>27. ASSUME NEW t \in Task, InspectCancelled(t) PROVE LeaseAccounted'
    BY <1>27 DEF InspectCancelled, Inspect, MoveRun, MoveTask, Write, rows,
       control, history, TypeOK, ToolsOK, OwnersPast, LeaseAccounted, Executing,
       Settling, Open, Closed
  <1>28. ASSUME NEW t \in Task, InspectEnded(t) PROVE LeaseAccounted'
    BY <1>28 DEF InspectEnded, Inspect, Write, Derived, rows, control,
       history, TypeOK, ToolsOK, OwnersPast, LeaseAccounted, Executing, Settling,
       Open, Closed
  <1>29. ASSUME NEW t \in Task, InspectFails(t) PROVE LeaseAccounted'
    BY <1>29 DEF InspectFails, Inspect, MoveRun, MoveTask, Write, rows,
       control, history, TypeOK, ToolsOK, OwnersPast, LeaseAccounted, Executing,
       Settling, Open, Closed
  <1>30. ASSUME NEW t \in Task, InspectResumes(t) PROVE LeaseAccounted'
    BY <1>30 DEF InspectResumes, Inspect, Claimable, Launch, Claim, rows,
       control, history, TypeOK, ToolsOK, OwnersPast, LeaseAccounted, Executing,
       Settling, Open, Closed
  <1>31. ASSUME NEW t \in Task, InspectUnprepared(t) PROVE LeaseAccounted'
    BY <1>31 DEF InspectUnprepared, Inspect, MoveTask, Write, rows, control,
       history, TypeOK, ToolsOK, OwnersPast, LeaseAccounted, Executing, Settling,
       Open, Closed
  <1>32. CASE UserCancel
    BY <1>32 DEF UserCancel, CancelRegistered, Descendants, Below, rows,
       control, history, TypeOK, ToolsOK, OwnersPast, LeaseAccounted, Executing,
       Settling, Open, Closed
  <1>33. CASE Restart
    BY <1>33 DEF Restart, NoTool, rows, control, history, TypeOK, ToolsOK,
       OwnersPast, LeaseAccounted, Executing, Settling, Open, Closed
  <1>34. CASE UNCHANGED vars
    BY <1>34 DEF vars, rows, control, history, TypeOK, ToolsOK, OwnersPast,
       LeaseAccounted, Executing, Settling, Open, Closed
  <1>35. QED
    BY <1>1, <1>2, <1>3, <1>4, <1>5, <1>6, <1>7, <1>8, <1>9, <1>10, <1>11,
       <1>12, <1>13, <1>14, <1>15, <1>16, <1>17, <1>18, <1>19, <1>20, <1>21,
       <1>22, <1>23, <1>24, <1>25, <1>26, <1>27, <1>28, <1>29, <1>30, <1>31,
       <1>32, <1>33, <1>34 DEF Next, ToolStep, ExecutorStep, InspectStep

-----------------------------------------------------------------------------

(* The inductive invariant of tasks, tools and leases.                      *)
THEOREM Invariance == Spec => []IInv
  <1>1. Init => IInv
    <2> SUFFICES ASSUME Init PROVE IInv
      OBVIOUS
    <2> USE TasksAssumption DEF Init, Node, NoTool
    <2>1. TypeOK
      BY DEF TypeOK, RunStates, TaskStates, Interruptible, Ended, Open, Closed, Executing,
         Settling, Tools
    <2>2. ToolsOK /\ OwnersPast /\ LeaseAccounted
      BY DEF ToolsOK, OwnersPast, LeaseAccounted
    <2>3. QED
      BY <2>1, <2>2 DEF IInv
  <1>2. IInv /\ [Next]_vars => IInv'
    BY TypeStep, ToolStepOK, OwnerStep, LeaseStep DEF IInv
  <1>3. QED
    BY <1>1, <1>2, PTL DEF Spec

(* TypeOK: the rows of Runs and Tasks, the tools and the executors.         *)
THEOREM TypeCorrect == Spec => []TypeOK
  BY Invariance, PTL DEF IInv

(* LeaseAccounted: whatever ends an executor, its lease is given back, in   *)
(* every life of the process.                                               *)
THEOREM Leases == Spec => []LeaseAccounted
  BY Invariance, PTL DEF IInv

-----------------------------------------------------------------------------
(***************************************************************************)
(* Reconciliation.  What an executor leaves behind depends on what others   *)
(* read before it was over, so the invariant follows every read: those of   *)
(* the polls, of the walk of a cancellation and of the executor itself.     *)
(* The statements are about one Task or one tool each, and Frame says what  *)
(* a step has to show of the Task it is about and of all others.            *)
(***************************************************************************)
(* A Run that waits for a decision or has ended; no execution moves it on. *)
Dead == Ended \cup {"deciding"}

(* A Run that was seen to run, or to end: it is not queued again.          *)
Past == {"running", "cancelling"} \cup Ended

TaskOK(t) ==
  /\ task[t] # "none" \/ pc[t] # "off" => run[t] # "none"
  /\ pc[t] \in Executing \cup Settling => t \in launched
  /\ t \in launched \cup todo \/ owner[t] # 0 => task[t] # "none"
  /\ pc[t] = "writing" => snap[t] # "none"
  /\ snap[t] \in {"deciding", "interrupted"} => run[t] \in Dead
  /\ task[t] = "needs_attention" => run[t] \in Dead

(* What this process launched has no recovery of its own.                  *)
LaunchedOK(t) ==
  t \in launched =>
    /\ t \notin todo /\ pc[t] # "solo" /\ run[t] \notin {"recovering", "deciding"}
    /\ pc[t] \in {"writing", "releasing", "off"} =>
         run[t] \in {"queued", "running"} \cup Ended

PollOK(p) ==
  LET u == tool[p] IN
  /\ task[u.of] # "none" /\ u.seen # "none" /\ u.left = {}
  /\ u.seen \in {"deciding", "interrupted"} => run[u.of] \in Dead

(* A Task that is being spawned is nobody else's.                          *)
Unborn(t) == /\ t \notin launched \cup todo
             /\ run[t] \in {"queued"} \cup Ended
             /\ pc[t] = "off" /\ owner[t] = 0

SpawnOK(p) ==
  LET u == tool[p] IN
  /\ Parent[u.of] = p /\ u.left = {}
  /\ Unborn(u.of)
  /\ u.step # "claim" => task[u.of] = "none"

(* Behind the transition of the Run a cancellation has seen it past being  *)
(* queued; what it passes over was closed when it was listed.              *)
CancelOK(p) ==
  LET u == tool[p] IN
  /\ \A d \in u.left : /\ task[d] # "none"
                       /\ d \notin u.open => task[d] \notin Open \/ d \in astray
  /\ u.step # "stop" => u.of \in u.left
  /\ u.step = "row" => /\ u.seen \in RunStates \ (Ended \cup {"none"})
                       /\ u.seen = "running" => run[u.of] \in Past
  /\ u.step \in {"read", "write"} => run[u.of] \in Past

(* An executor that has written its Task, or is over, with an ended Run.   *)
Over(t) == /\ t \in launched \ astray
           /\ pc[t] \in {"releasing", "off"}
           /\ run[t] \in Ended

(* The compare-and-set of a cancellation only misses a Task that is not    *)
(* open any more.                                                          *)
WriteOK(p) ==
  LET u == tool[p] IN
  u.kind = "cancel" /\ u.step = "write" /\ Over(u.of) =>
    task[u.of] \notin Open \/ task[u.of] = u.seen

ToolOK(p) ==
  /\ tool[p].kind = "none" => tool[p].left = {}
  /\ tool[p].kind = "poll" => PollOK(p)
  /\ tool[p].kind = "spawn" => SpawnOK(p)
  /\ tool[p].kind = "cancel" => CancelOK(p)
  /\ WriteOK(p)

(* EndedAgrees, also for an executor that still has to give back its lease. *)
Agrees(t) ==
  Over(t) /\ (\A p \in Node : t \notin tool[p].left) => task[t] \notin Open

(* StartupAccounted, Task by Task while the reconciliation goes on.        *)
Waiting(t) == /\ t \notin todo
              /\ task[t] \in Open /\ run[t] \notin Ended
              /\ t \notin launched \cup dropped \cup astray
Unspawned(t) == \A p \in Node : tool[p].kind = "spawn" => tool[p].of # t
Leased(t) == t \in fresh /\ owner[t] \in 1..(life - 1)
Accounted(t) == life > 1 /\ Waiting(t) /\ Unspawned(t) => Leased(t)

TasksInv == \A t \in Task : TaskOK(t) /\ LaunchedOK(t)
ToolsInv == \A p \in Node : ToolOK(p)
AgreesInv == \A t \in Task : Agrees(t)
AccountedInv == \A t \in Task : Accounted(t)

ReconInv == TasksInv /\ ToolsInv /\ AgreesInv /\ AccountedInv

-----------------------------------------------------------------------------
(* What a step keeps of a Task.                                            *)
OverKept(t) == Over(t)' => task'[t] \notin Open \/ (Over(t) /\ task'[t] = task[t])

Kept(t) ==
  /\ run[t] # "none" => run'[t] # "none"
  /\ run[t] \in Dead => run'[t] \in Dead
  /\ run[t] \in Past => run'[t] \in Past /\ OverKept(t)
  /\ task[t] # "none" => task'[t] # "none"
  /\ task[t] # "none" /\ (task[t] \notin Open \/ t \in astray) =>
       task'[t] \notin Open \/ t \in astray'

TaskFrame(t) == TaskOK(t)' /\ LaunchedOK(t)' /\ Kept(t)

SpawnKept(t) == Unborn(t)' /\ (task[t] = "none" => task'[t] = "none")

(* A Task the step is not about.                                           *)
Same(t) ==
  /\ run'[t] = run[t] /\ task'[t] = task[t] /\ pc'[t] = pc[t]
  /\ owner'[t] = owner[t] /\ snap'[t] = snap[t]
  /\ (t \in fresh') = (t \in fresh) /\ (t \in todo') = (t \in todo)
  /\ (t \in launched') = (t \in launched)
  /\ t \in astray => t \in astray'
  /\ t \in dropped => t \in dropped'

(* What holds of a Task the step is not about goes on to hold of it.       *)
LEMMA SameTask ==
  ASSUME NEW t \in Task, TaskOK(t), LaunchedOK(t), Same(t)
  PROVE  /\ TaskFrame(t) /\ OverKept(t)
         /\ Unborn(t) => SpawnKept(t)
         /\ Waiting(t)' => Waiting(t)
         /\ Leased(t) /\ life' = life => Leased(t)'
  <1>1. TaskOK(t)' /\ LaunchedOK(t)'
    BY DEF Same, TaskOK, LaunchedOK
  <1>2. OverKept(t)
    BY DEF Same, OverKept, Over
  <1>3. Kept(t)
    BY <1>2 DEF Same, Kept
  <1>4. QED
    BY <1>1, <1>2, <1>3 DEF Same, TaskFrame, SpawnKept, Unborn, Waiting, Leased

(* A tool the step is not about.                                           *)
LEMMA SameTool ==
  ASSUME TypeOK, ToolsOK, NEW q \in Node, ToolOK(q), tool'[q] = tool[q],
         \A t \in Task : Kept(t),
         tool[q].kind = "spawn" => SpawnKept(tool[q].of)
  PROVE  ToolOK(q)'
  <1>1. tool[q] \in Tools
    BY DEF TypeOK
  <1>2. ASSUME tool[q].kind = "poll" PROVE PollOK(q)'
    BY <1>2 DEF ToolsOK, ToolOK, PollOK, Kept
  <1>3. ASSUME tool[q].kind = "spawn" PROVE SpawnOK(q)'
    <2>1. SpawnOK(q) /\ SpawnKept(tool[q].of)
      BY <1>3 DEF ToolOK
    <2>2. QED
      BY <2>1 DEF SpawnOK, SpawnKept, Unborn
  <1>4. ASSUME tool[q].kind = "cancel" PROVE CancelOK(q)'
    <2>1. CancelOK(q) /\ tool[q].left \subseteq Task
      BY <1>1, <1>4 DEF ToolOK, Tools
    <2>2. tool[q].step # "stop" => tool[q].of \in Task
      BY <1>4 DEF ToolsOK
    <2>3. \A d \in tool[q].left :
            /\ task'[d] # "none"
            /\ d \notin tool[q].open => task'[d] \notin Open \/ d \in astray'
      BY <2>1 DEF CancelOK, Kept
    <2>4. tool[q].step # "stop" /\ run[tool[q].of] \in Past => run'[tool[q].of] \in Past
      BY <2>2 DEF Kept
    <2>5. QED
      BY <2>1, <2>3, <2>4 DEF CancelOK
  <1>5. WriteOK(q)'
    <2> SUFFICES ASSUME tool[q].kind = "cancel", tool[q].step = "write", Over(tool[q].of)'
                 PROVE  task'[tool[q].of] \notin Open \/ task'[tool[q].of] = tool[q].seen
      BY DEF WriteOK, Over
    <2>1. PICK t \in Task : t = tool[q].of
      BY DEF ToolsOK
    <2>2. run[t] \in Past /\ WriteOK(q)
      BY <2>1 DEF ToolOK, CancelOK
    <2>3. OverKept(t) /\ Over(t)'
      BY <2>1, <2>2 DEF Kept, Over
    <2>4. QED
      BY <2>1, <2>2, <2>3 DEF OverKept, WriteOK, Over
  <1>6. QED
    BY <1>2, <1>3, <1>4, <1>5 DEF ToolOK

(* What a step within the life of a process has to show.                   *)
LEMMA Frame ==
  ASSUME IInv, ReconInv, life' = life,
         \A t \in Task : TaskFrame(t),
         \A t \in Task : OverKept(t) \/ \E p \in Node : t \in tool'[p].left,
         \A q \in Node :
           \/ ToolOK(q)'
           \/ tool'[q] = tool[q] /\ (tool[q].kind = "spawn" => SpawnKept(tool[q].of)),
         \A q \in Node : \A t \in tool[q].left :
           t \in tool'[q].left \/ ~Over(t)' \/ task'[t] \notin Open,
         \A t \in Task : Waiting(t)' /\ Unspawned(t)' =>
           \/ Leased(t)'
           \/ Waiting(t) /\ Unspawned(t) /\ (Leased(t) => Leased(t)')
  PROVE  ReconInv'
  <1>1. TasksInv'
    BY DEF TasksInv, TaskFrame
  <1>2. ToolsInv'
    <2> SUFFICES ASSUME NEW q \in Node PROVE ToolOK(q)'
      BY DEF ToolsInv
    <2>1. CASE tool'[q] = tool[q] /\ (tool[q].kind = "spawn" => SpawnKept(tool[q].of))
      BY <2>1, SameTool DEF IInv, ReconInv, ToolsInv, TaskFrame
    <2>2. QED
      BY <2>1
  <1>3. AgreesInv'
    <2> SUFFICES ASSUME NEW t \in Task, Over(t)', \A p \in Node : t \notin tool'[p].left,
                        task'[t] \in Open
                 PROVE  FALSE
      BY DEF AgreesInv, Agrees
    <2>1. Over(t) /\ task'[t] = task[t]
      BY DEF OverKept
    <2>2. \A p \in Node : t \notin tool[p].left
      OBVIOUS
    <2>3. QED
      BY <2>1, <2>2 DEF ReconInv, AgreesInv, Agrees
  <1>4. AccountedInv'
    <2> SUFFICES ASSUME NEW t \in Task, life > 1, Waiting(t)', Unspawned(t)'
                 PROVE  Leased(t)'
      BY DEF AccountedInv, Accounted
    <2>1. QED
      BY DEF ReconInv, AccountedInv, Accounted
  <1>5. QED
    BY <1>1, <1>2, <1>3, <1>4 DEF ReconInv
-----------------------------------------------------------------------------
(* The executions and their turns.                                         *)

(* A registered execution moves its Run, or an execution goes on or ends.  *)
TurnMove(n) ==
  \/ /\ run'[n] = run[n]
     /\ \/ pc'[n] = pc[n]
        \/ pc[n] \in Executing /\ pc'[n] \in {"waiting", "ended"}
  \/ /\ pc[n] \in {"waiting", "turn", "solo"}
     /\ run[n] \notin Dead \cup {"none", "recovering"}
     /\ run'[n] \in {"preparing", "running", "cancelling"} \cup Ended
     /\ run[n] \in Past => run'[n] \in Past
     /\ IF pc[n] = "solo" THEN pc'[n] \in {"solo", "off"} ELSE pc'[n] \in {"turn", "ended"}

Elsewhere == <<task, owner, fresh, snap, tool, history, life, todo>>

(* The thirteen actions of a turn and its executor, as what they move.     *)
LEMMA TurnMoves ==
  ASSUME TypeOK,
         \/ \E n \in Node : Finish(n) \/ Watch(n) \/ StopRun(n) \/ Stopped(n)
         \/ \E t \in Task : \/ Register(t) \/ Enter(t) \/ Refuse(t) \/ Go(t) \/ Break(t)
                            \/ Deliver(t) \/ Heartbeat(t)
         \/ UserCancel
         \/ UNCHANGED vars
  PROVE  UNCHANGED Elsewhere /\ \A n \in Node : TurnMove(n)
  <1> USE DEF Elsewhere, TurnMove, TypeOK, Node
  <1>1. ASSUME NEW m \in Node, Finish(m)
        PROVE  UNCHANGED Elsewhere /\ \A n \in Node : TurnMove(n)
    BY <1>1 DEF Finish, Turning, Leaves, history, Dead, Past, Ended
  <1>2. ASSUME NEW m \in Node, Watch(m)
        PROVE  UNCHANGED Elsewhere /\ \A n \in Node : TurnMove(n)
    BY <1>2 DEF Watch, rows, history
  <1>3. ASSUME NEW m \in Node, StopRun(m)
        PROVE  UNCHANGED Elsewhere /\ \A n \in Node : TurnMove(n)
    BY <1>3 DEF StopRun, Turning, control, history, Dead, Past, Ended
  <1>4. ASSUME NEW m \in Node, Stopped(m)
        PROVE  UNCHANGED Elsewhere /\ \A n \in Node : TurnMove(n)
    BY <1>4 DEF Stopped, Turning, Leaves, history, Dead, Past, Ended
  <1>5. ASSUME NEW t \in Task, Register(t) \/ Refuse(t) \/ Break(t)
        PROVE  UNCHANGED Elsewhere /\ \A n \in Node : TurnMove(n)
    BY <1>5 DEF Register, Refuse, Break, Leaves, rows, control, history, Executing
  <1>6. ASSUME NEW t \in Task, Enter(t) \/ Go(t)
        PROVE  UNCHANGED Elsewhere /\ \A n \in Node : TurnMove(n)
    BY <1>6 DEF Enter, Go, control, history, Dead, Past, Ended
  <1>7. ASSUME NEW t \in Task, Deliver(t) \/ Heartbeat(t)
        PROVE  UNCHANGED Elsewhere /\ \A n \in Node : TurnMove(n)
    BY <1>7 DEF Deliver, Heartbeat, rows, history
  <1>8. CASE UserCancel
    BY <1>8 DEF UserCancel, rows, history
  <1>9. CASE UNCHANGED vars
    BY <1>9 DEF vars, rows, history
  <1>10. QED
    BY <1>1, <1>2, <1>3, <1>4, <1>5, <1>6, <1>7, <1>8, <1>9

(* A turn keeps the invariant: it ends in a status a poll may have read.   *)
LEMMA TurnInv ==
  ASSUME IInv, ReconInv, UNCHANGED Elsewhere, \A n \in Node : TurnMove(n)
  PROVE  ReconInv'
  <1> USE DEF Elsewhere, history
  <1>1. ASSUME NEW t \in Task
        PROVE  /\ TaskFrame(t) /\ OverKept(t)
               /\ Unborn(t) => SpawnKept(t)
               /\ Waiting(t)' => Waiting(t)
    <2>1. TaskOK(t) /\ LaunchedOK(t) /\ TurnMove(t)
      BY DEF ReconInv, TasksInv, Node
    <2>2. CASE run'[t] = run[t] /\ pc'[t] = pc[t]
      BY <2>1, <2>2, SameTask DEF Same
    <2>3. CASE /\ run'[t] = run[t]
               /\ pc[t] \in Executing /\ pc'[t] \in {"waiting", "ended"}
      <3>1. TaskOK(t)' /\ LaunchedOK(t)'
        BY <2>1, <2>3 DEF TaskOK, LaunchedOK, Executing, Settling
      <3>2. OverKept(t) /\ ~Unborn(t)
        BY <2>3 DEF OverKept, Over, Unborn, Executing
      <3>3. QED
        BY <2>3, <3>1, <3>2 DEF TaskFrame, Kept, Waiting
    <2>4. CASE /\ pc[t] \in {"waiting", "turn", "solo"}
               /\ run[t] \notin Dead \cup {"none", "recovering"}
               /\ run'[t] \in {"preparing", "running", "cancelling"} \cup Ended
               /\ run[t] \in Past => run'[t] \in Past
               /\ IF pc[t] = "solo" THEN pc'[t] \in {"solo", "off"}
                  ELSE pc'[t] \in {"turn", "ended"}
      <3>1. pc[t] = "solo" => t \notin launched
        BY <2>1 DEF LaunchedOK
      <3>2. pc[t] # "solo" => t \in launched
        BY <2>1, <2>4 DEF TaskOK, Executing
      <3>3. run'[t] # "none" /\ run'[t] \notin {"recovering", "deciding"} /\ run[t] \notin Ended
        BY <2>4 DEF Ended, Dead
      <3>4. TaskOK(t)'
        BY <2>1, <2>4, <3>2, <3>3 DEF TaskOK, Executing, Settling
      <3>5. LaunchedOK(t)'
        BY <2>1, <2>4, <3>1, <3>3 DEF LaunchedOK
      <3>6. OverKept(t) /\ ~Unborn(t)
        BY <2>4, <3>1 DEF OverKept, Over, Unborn
      <3>7. Kept(t)
        BY <2>4, <3>3, <3>6 DEF Kept
      <3>8. QED
        BY <3>3, <3>4, <3>5, <3>6, <3>7 DEF TaskFrame, Waiting
    <2>5. QED
      BY <2>1, <2>2, <2>3, <2>4 DEF TurnMove
  <1>2. ASSUME NEW q \in Node, tool[q].kind = "spawn" PROVE SpawnKept(tool[q].of)
    <2>1. PICK t \in Task : t = tool[q].of
      BY <1>2 DEF IInv, ToolsOK
    <2>2. Unborn(t)
      BY <1>2, <2>1 DEF ReconInv, ToolsInv, ToolOK, SpawnOK
    <2>3. QED
      BY <1>1, <2>1, <2>2
  <1>3. \A t \in Task : Leased(t) => Leased(t)'
    BY DEF Leased
  <1>4. \A t \in Task : Unspawned(t)' => Unspawned(t)
    BY DEF Unspawned
  <1>5. QED
    BY <1>1, <1>2, <1>3, <1>4, Frame

-----------------------------------------------------------------------------
(* The tools of a turn.                                                    *)

(* Only the tool of p moves, and it was not in the way of a spawn.         *)
LEMMA ToolFrame ==
  ASSUME IInv, ReconInv, life' = life, NEW p \in Node,
         \A q \in Node \ {p} : tool'[q] = tool[q],
         ToolOK(p)', \A t \in Task : Same(t),
         tool[p].kind # "spawn",
         \A t \in tool[p].left : t \in tool'[p].left \/ ~Over(t)' \/ task'[t] \notin Open
  PROVE  ReconInv'
  <1>1. ASSUME NEW t \in Task
        PROVE  /\ TaskFrame(t) /\ OverKept(t)
               /\ Unborn(t) => SpawnKept(t)
               /\ Waiting(t)' => Waiting(t)
               /\ Leased(t) => Leased(t)'
    BY SameTask DEF ReconInv, TasksInv
  <1>2. ASSUME NEW q \in Node, tool[q].kind = "spawn" PROVE SpawnKept(tool[q].of)
    <2>1. PICK t \in Task : t = tool[q].of
      BY <1>2 DEF IInv, ToolsOK
    <2>2. Unborn(t)
      BY <1>2, <2>1 DEF ReconInv, ToolsInv, ToolOK, SpawnOK
    <2>3. QED
      BY <1>1, <2>1, <2>2
  <1>3. \A t \in Task : Unspawned(t)' => Unspawned(t)
    BY DEF Unspawned
  <1>4. QED
    BY <1>1, <1>2, <1>3, Frame

(* The walk of a cancellation.                                             *)
LEMMA NextTaskStep ==
  ASSUME tool \in [Node -> Tools], NEW p \in Node, NEW d, tool[p].kind = "cancel",
         NextTask(p, d)
  PROVE  /\ \A q \in Node \ {p} : tool'[q] = tool[q]
         /\ tool'[p].left = tool[p].left \ {d}
         /\ \/ tool'[p].kind = "none" /\ tool'[p].left = {}
            \/ /\ tool'[p].kind = "cancel" /\ tool'[p].step = "stop"
               /\ tool'[p].open = tool[p].open
  <1> DEFINE r == tool[p]
             next == [r EXCEPT !.step = "stop", !.of = NoTask, !.left = r.left \ {d},
                               !.seen = "none"]
  <1>1. r \in Tools
    OBVIOUS
  <1>2. /\ next.left = r.left \ {d} /\ next.kind = "cancel" /\ next.step = "stop"
        /\ next.open = r.open
    BY <1>1 DEF Tools
  <1>3. CASE r.left \ {d} = {}
    <2>1. tool' = [tool EXCEPT ![p] = NoTool]
      BY <1>3 DEF NextTask
    <2>2. QED
      BY <1>3, <2>1 DEF NoTool
  <1>4. CASE r.left \ {d} # {}
    <2>1. tool' = [tool EXCEPT ![p] = next]
      BY <1>4 DEF NextTask
    <2> HIDE DEF next
    <2>2. QED
      BY <1>2, <2>1
  <1>5. QED
    BY <1>3, <1>4

(* A step to the row of a Task keeps what is left of the walk.             *)
LEMMA ToTaskRowStep ==
  ASSUME tool \in [Node -> Tools], NEW p \in Node, NEW d \in tool[p].open,
         tool[p].kind = "cancel", ToTaskRow(p, d)
  PROVE  /\ \A q \in Node \ {p} : tool'[q] = tool[q]
         /\ tool'[p].kind = "cancel" /\ tool'[p].step = "read" /\ tool'[p].of = d
         /\ tool'[p].left = tool[p].left /\ tool'[p].open = tool[p].open
  <1> DEFINE r == tool[p]
             next == [r EXCEPT !.step = "read", !.of = d, !.seen = "none"]
  <1>1. r \in Tools
    OBVIOUS
  <1>2. /\ next.left = r.left /\ next.kind = "cancel" /\ next.step = "read"
        /\ next.open = r.open /\ next.of = d
    BY <1>1 DEF Tools
  <1>3. tool' = [tool EXCEPT ![p] = next]
    BY DEF ToTaskRow
  <1> HIDE DEF next
  <1>4. QED
    BY <1>2, <1>3

(* What the walk has to show of its tool.                                  *)
LEMMA WalkOK ==
  ASSUME IInv, NEW p \in Node, CancelOK(p), \A t \in Task : Kept(t),
         tool[p].kind = "cancel",
         tool'[p].left \subseteq tool[p].left, tool'[p].open = tool[p].open,
         \/ tool'[p].step = "stop"
         \/ /\ tool'[p].step = "read" /\ tool'[p].of \in tool'[p].left
            /\ run'[tool'[p].of] \in Past,
         tool'[p].kind = "cancel"
  PROVE  ToolOK(p)'
  <1>1. tool[p].left \subseteq Task
    BY DEF IInv, TypeOK, Tools
  <1>2. \A d \in tool'[p].left :
          /\ task'[d] # "none"
          /\ d \notin tool'[p].open => task'[d] \notin Open \/ d \in astray'
    BY <1>1 DEF CancelOK, Kept
  <1>3. CancelOK(p)'
    BY <1>2 DEF CancelOK
  <1>4. WriteOK(p)'
    BY DEF WriteOK
  <1>5. QED
    BY <1>3, <1>4 DEF ToolOK

(* Nothing is asked of a turn that is in no tool.                          *)
LEMMA NoToolOK ==
  ASSUME NEW p \in Node, tool'[p].kind = "none", tool'[p].left = {}
  PROVE  ToolOK(p)'
  BY DEF ToolOK, WriteOK

(* The walk leaves a Task behind.                                          *)
LEMMA NextTaskInv ==
  ASSUME IInv, NEW p \in Node, CancelOK(p), \A t \in Task : Kept(t),
         tool[p].kind = "cancel", NEW d, NextTask(p, d)
  PROVE  /\ \A q \in Node \ {p} : tool'[q] = tool[q]
         /\ ToolOK(p)' /\ tool'[p].left = tool[p].left \ {d}
  <1>1. tool \in [Node -> Tools]
    BY DEF IInv, TypeOK
  <1>2. QED
    BY <1>1, NextTaskStep, NoToolOK, WalkOK

(* A step of the tool of p about the Task u; the others are as they were.  *)
LEMMA RowFrame ==
  ASSUME IInv, ReconInv, life' = life, NEW p \in Node, NEW u \in Task,
         \A t \in Task \ {u} : Same(t),
         TaskFrame(u), OverKept(u) \/ \E q \in Node : u \in tool'[q].left,
         \A q \in Node \ {p} : tool'[q] = tool[q],
         \A q \in Node \ {p} : tool[q].kind = "spawn" /\ tool[q].of = u => SpawnKept(u),
         ToolOK(p)' \/ (tool'[p] = tool[p] /\ tool[p].kind # "spawn"),
         tool[p].kind = "spawn" => tool[p].of = u,
         \A t \in tool[p].left : t \in tool'[p].left \/ ~Over(t)' \/ task'[t] \notin Open,
         Waiting(u)' /\ Unspawned(u)' =>
           Leased(u)' \/ (Waiting(u) /\ Unspawned(u) /\ (Leased(u) => Leased(u)'))
  PROVE  ReconInv'
  <1>1. ASSUME NEW t \in Task, t # u
        PROVE  /\ TaskFrame(t) /\ OverKept(t)
               /\ Unborn(t) => SpawnKept(t)
               /\ Waiting(t)' => Waiting(t)
               /\ Leased(t) => Leased(t)'
    BY <1>1, SameTask DEF ReconInv, TasksInv
  <1>2. ASSUME NEW q \in Node \ {p}, tool[q].kind = "spawn" PROVE SpawnKept(tool[q].of)
    <2>1. PICK t \in Task : t = tool[q].of
      BY <1>2 DEF IInv, ToolsOK
    <2>2. Unborn(t)
      BY <1>2, <2>1 DEF ReconInv, ToolsInv, ToolOK, SpawnOK
    <2>3. QED
      BY <1>1, <1>2, <2>1, <2>2
  <1>3. \A t \in Task \ {u} : Unspawned(t)' => Unspawned(t)
    BY DEF Unspawned
  <1>4. \A t \in Task : TaskFrame(t)
    BY <1>1
  <1>5. \A t \in Task : OverKept(t) \/ \E q \in Node : t \in tool'[q].left
    BY <1>1
  <1>6. \A q \in Node : \/ ToolOK(q)'
                        \/ /\ tool'[q] = tool[q]
                           /\ tool[q].kind = "spawn" => SpawnKept(tool[q].of)
    BY <1>2
  <1>7. \A q \in Node : \A t \in tool[q].left :
          t \in tool'[q].left \/ ~Over(t)' \/ task'[t] \notin Open
    OBVIOUS
  <1>8. \A t \in Task : Waiting(t)' /\ Unspawned(t)' =>
          Leased(t)' \/ (Waiting(t) /\ Unspawned(t) /\ (Leased(t) => Leased(t)'))
    BY <1>1, <1>3
  <1>9. QED
    BY <1>4, <1>5, <1>6, <1>7, <1>8, Frame

(* A new child Run is nobody else's.                                       *)
LEMMA SpawnInv ==
  ASSUME IInv, ReconInv, NEW p \in Node, NEW t \in Task, Spawn(p, t)
  PROVE  ReconInv'
  <1> DEFINE u == [NoTool EXCEPT !.kind = "spawn", !.of = t, !.step = "row"]
  <1>1. u.kind = "spawn" /\ u.of = t /\ u.step = "row" /\ u.left = {}
    BY DEF NoTool
  <1>2. tool' = [tool EXCEPT ![p] = u] /\ tool \in [Node -> Tools] /\ run \in [Node -> RunStates]
    BY DEF Spawn, IInv, TypeOK
  <1> HIDE DEF u
  <1>3. tool'[p] = u /\ \A q \in Node \ {p} : tool'[q] = tool[q]
    BY <1>2
  <1>4. /\ run[t] = "none" /\ task[t] = "none" /\ pc[t] = "off" /\ owner[t] = 0
        /\ t \notin launched \cup todo /\ tool[p].kind = "none" /\ tool[p].left = {}
    BY DEF Spawn, Calls, ReconInv, TasksInv, TaskOK, ToolsInv, ToolOK
  <1>5. run'[t] = "queued" /\ \A d \in Task \ {t} : run'[d] = run[d]
    BY <1>2 DEF Spawn, Node
  <1>6. UNCHANGED <<task, gen, owner, fresh, pc, control, snap, history, life, todo>>
    BY DEF Spawn
  <1>7. \A d \in Task \ {t} : Same(d)
    BY <1>5, <1>6 DEF Same, history
  <1>8. TaskFrame(t) /\ OverKept(t)
    <2>1. TaskOK(t)
      BY DEF ReconInv, TasksInv
    <2>2. TaskOK(t)' /\ LaunchedOK(t)'
      BY <1>4, <1>5, <1>6, <2>1 DEF TaskOK, LaunchedOK, history, Executing, Settling, Dead, Ended
    <2>3. OverKept(t) /\ Kept(t)
      BY <1>4, <1>5, <1>6 DEF OverKept, Over, Kept, history, Dead, Past, Ended
    <2>4. QED
      BY <2>2, <2>3 DEF TaskFrame
  <1>9. ToolOK(p)'
    BY <1>1, <1>3, <1>4, <1>5, <1>6 DEF ToolOK, SpawnOK, Unborn, WriteOK, Spawn, history
  <1>10. \A q \in Node \ {p} : tool[q].kind = "spawn" => tool[q].of # t
    BY <1>4 DEF ReconInv, ToolsInv, ToolOK, SpawnOK, Unborn, Ended
  <1>11. ~Waiting(t)'
    BY <1>4, <1>6 DEF Waiting, Open
  <1>12. QED
    BY <1>3, <1>4, <1>6, <1>7, <1>8, <1>9, <1>10, <1>11, RowFrame

(* Its row is written queued, or not at all.                               *)
LEMMA SpawnRowInv ==
  ASSUME IInv, ReconInv, NEW p \in Node, SpawnRow(p)
  PROVE  ReconInv'
  <1>1. PICK t \in Task : t = tool[p].of
    BY DEF SpawnRow, In, IInv, ToolsOK
  <1>2. /\ SpawnOK(p) /\ tool[p].kind = "spawn" /\ task[t] = "none" /\ Unborn(t)
        /\ tool[p].left = {}
    BY <1>1 DEF SpawnRow, In, ReconInv, ToolsInv, ToolOK, SpawnOK
  <1>3. /\ tool \in [Node -> Tools] /\ tool[p] \in Tools /\ task \in [Task -> TaskStates]
        /\ TaskOK(t)
    BY <1>1 DEF IInv, TypeOK, ReconInv, TasksInv
  <1>4. UNCHANGED <<run, gen, owner, fresh, pc, control, snap, history, life, todo>>
    BY DEF SpawnRow
  <1>5. \A q \in Node \ {p} : tool'[q] = tool[q]
    BY <1>3 DEF SpawnRow, Returns
  <1>6. \/ /\ task' = [task EXCEPT ![t] = "queued"]
           /\ tool'[p].kind = "spawn" /\ tool'[p].of = t /\ tool'[p].step = "claim"
           /\ tool'[p].left = {}
        \/ task' = task /\ tool'[p].kind = "none" /\ tool'[p].left = {}
    BY <1>1, <1>2, <1>3 DEF SpawnRow, Returns, NoTool, Tools
  <1>7. \A d \in Task \ {t} : Same(d)
    BY <1>3, <1>4, <1>6 DEF Same, history
  <1>8. task'[t] \in {"none", "queued"}
    BY <1>2, <1>3, <1>6
  <1>9. TaskFrame(t) /\ OverKept(t)
    <2>1. run[t] # "none"
      BY <1>2 DEF Unborn, Ended
    <2>2. TaskOK(t)' /\ LaunchedOK(t)'
      BY <1>2, <1>3, <1>4, <1>8, <2>1 DEF TaskOK, LaunchedOK, history, Unborn
    <2>3. OverKept(t) /\ Kept(t)
      BY <1>2, <1>4 DEF OverKept, Over, Kept, Unborn, history
    <2>4. QED
      BY <2>2, <2>3 DEF TaskFrame
  <1>10. ToolOK(p)'
    BY <1>1, <1>2, <1>4, <1>6 DEF ToolOK, SpawnOK, Unborn, WriteOK, history
  <1>11. \A q \in Node \ {p} : tool[q].kind = "spawn" => tool[q].of # t
    BY <1>1, <1>2 DEF ReconInv, ToolsInv, ToolOK, SpawnOK
  <1>12. ~(Waiting(t)' /\ Unspawned(t)')
    BY <1>2, <1>6 DEF Waiting, Unspawned, Open
  <1>13. QED
    BY <1>1, <1>2, <1>4, <1>5, <1>7, <1>9, <1>10, <1>11, <1>12, RowFrame

(* The claim launches the Task, or finds that it is not open.              *)
LEMMA SpawnClaimInv ==
  ASSUME IInv, ReconInv, NEW p \in Node, SpawnClaim(p)
  PROVE  ReconInv'
  <1>1. PICK t \in Task : t = tool[p].of
    BY DEF SpawnClaim, In, IInv, ToolsOK
  <1>2. /\ SpawnOK(p) /\ tool[p].kind = "spawn" /\ Unborn(t) /\ tool[p].left = {} /\ TaskOK(t)
    BY <1>1 DEF SpawnClaim, In, ReconInv, ToolsInv, ToolOK, SpawnOK, TasksInv
  <1>3. UNCHANGED <<run, snap, astray, dropped, life, todo>> /\ TypeOK
    BY DEF SpawnClaim, IInv
  <1>4. tool'[p].kind = "none" /\ tool'[p].left = {} /\ \A q \in Node \ {p} : tool'[q] = tool[q]
    BY <1>3 DEF SpawnClaim, Returns, NoTool, TypeOK
  <1>5. \/ /\ task[t] \in Open
           /\ task'[t] = "running" /\ pc'[t] = "starting" /\ t \in launched'
           /\ owner'[t] = life
        \/ UNCHANGED <<task, owner, fresh, pc, launched>> /\ ~Claimable(t)
    BY <1>1, <1>3 DEF SpawnClaim, Claimable, Launch, Claim, TypeOK, Node
  <1>6. \A d \in Task \ {t} : Same(d)
    BY <1>1, <1>3 DEF SpawnClaim, Launch, Claim, TypeOK, Same, Node
  <1>7. TaskFrame(t) /\ OverKept(t)
    <2>1. CASE UNCHANGED <<task, owner, fresh, pc, launched>>
      BY <1>2, <1>3, <2>1, SameTask DEF Same, ReconInv, TasksInv
    <2>2. CASE /\ task[t] \in Open
               /\ task'[t] = "running" /\ pc'[t] = "starting" /\ t \in launched'
      <3>1. run[t] # "none" /\ run[t] \notin {"recovering", "deciding"}
        BY <1>2 DEF Unborn, Ended
      <3>2. TaskOK(t)' /\ LaunchedOK(t)'
        BY <1>2, <1>3, <2>2, <3>1 DEF TaskOK, LaunchedOK, Unborn
      <3>3. OverKept(t) /\ Kept(t)
        BY <1>3, <2>2 DEF OverKept, Over, Kept
      <3>4. QED
        BY <3>2, <3>3 DEF TaskFrame
    <2>3. QED
      BY <1>5, <2>1, <2>2
  <1>8. ToolOK(p)'
    BY <1>4, NoToolOK
  <1>9. \A q \in Node \ {p} : tool[q].kind = "spawn" => tool[q].of # t
    BY <1>1, <1>2 DEF ReconInv, ToolsInv, ToolOK, SpawnOK
  <1>10. ~Waiting(t)'
    BY <1>2, <1>5 DEF Waiting, Claimable, Unborn
  <1>11. QED
    BY <1>1, <1>2, <1>3, <1>4, <1>6, <1>7, <1>8, <1>9, <1>10, RowFrame

(* What a dropped tool leaves half done is astray or dropped.              *)
LEMMA DropToolInv ==
  ASSUME IInv, ReconInv, NEW p \in Node, DropTool(p)
  PROVE  ReconInv'
  <1>1. UNCHANGED <<run, task, pc, snap, launched, life, todo>> /\ TypeOK /\ ToolOK(p)
    BY DEF DropTool, IInv, ReconInv, ToolsInv
  <1>2. tool'[p].kind = "none" /\ tool'[p].left = {} /\ \A q \in Node \ {p} : tool'[q] = tool[q]
    BY <1>1 DEF DropTool, Returns, NoTool, TypeOK
  <1>3. ToolOK(p)'
    BY <1>2, NoToolOK
  <1>4. \A t \in tool[p].left : t \in astray'
    BY DEF DropTool
  <1>5. CASE tool[p].kind = "cancel"
    <2>1. \A t \in Task : Same(t)
      BY <1>1, <1>5 DEF DropTool, In, Same
    <2>2. QED
      BY <1>1, <1>2, <1>3, <1>4, <1>5, <2>1, ToolFrame DEF Over
  <1>6. CASE tool[p].kind = "spawn"
    <2>1. PICK t \in Task : t = tool[p].of
      BY <1>6 DEF IInv, ToolsOK
    <2>2. SpawnOK(p) /\ Unborn(t) /\ TaskOK(t) /\ LaunchedOK(t)
      BY <1>1, <1>6, <2>1 DEF ToolOK, SpawnOK, ReconInv, TasksInv
    <2>3. \A d \in Task \ {t} : Same(d)
      BY <1>1, <2>1 DEF DropTool, Claim, Same, TypeOK
    <2>4. owner'[t] = owner[t] \/ task[t] \in Open
      BY <1>1, <2>1 DEF DropTool, Claimable
    <2>5. TaskFrame(t) /\ OverKept(t)
      <3>1. TaskOK(t)' /\ LaunchedOK(t)'
        BY <1>1, <2>2, <2>4 DEF TaskOK, LaunchedOK, Open
      <3>2. OverKept(t) /\ Kept(t)
        BY <1>1, <2>2 DEF DropTool, OverKept, Over, Kept, Unborn
      <3>3. QED
        BY <3>1, <3>2 DEF TaskFrame
    <2>6. \A q \in Node \ {p} : tool[q].kind = "spawn" => tool[q].of # t
      BY <2>1, <2>2 DEF ReconInv, ToolsInv, ToolOK, SpawnOK
    <2>7. ~Waiting(t)'
      <3>1. CASE tool[p].step = "claim"
        BY <1>6, <2>1, <3>1 DEF DropTool, In, Waiting
      <3>2. CASE tool[p].step # "claim"
        BY <1>1, <2>1, <2>2, <3>2 DEF SpawnOK, Waiting, Open
      <3>3. QED
        BY <3>1, <3>2
    <2>8. QED
      BY <1>1, <1>2, <1>3, <1>4, <2>1, <2>3, <2>5, <2>6, <2>7, RowFrame DEF Over
  <1>7. QED
    BY <1>5, <1>6 DEF DropTool

(* A poll has read a Run that exists.                                      *)
LEMMA PollInv ==
  ASSUME IInv, ReconInv, NEW p \in Node, NEW t \in Task, Poll(p, t)
  PROVE  ReconInv'
  <1> DEFINE u == [NoTool EXCEPT !.kind = "poll", !.of = t, !.step = "write", !.seen = run[t]]
  <1>1. u.kind = "poll" /\ u.of = t /\ u.step = "write" /\ u.seen = run[t] /\ u.left = {}
    BY DEF NoTool
  <1>2. tool' = [tool EXCEPT ![p] = u] /\ tool \in [Node -> Tools]
    BY DEF Poll, IInv, TypeOK
  <1> HIDE DEF u
  <1>3. tool'[p] = u /\ \A q \in Node \ {p} : tool'[q] = tool[q]
    BY <1>2
  <1>4. /\ UNCHANGED <<rows, pc, snap, history, life, todo>> /\ task[t] # "none"
        /\ tool[p].kind = "none" /\ tool[p].left = {} /\ TaskOK(t)
    BY DEF Poll, Calls, ReconInv, ToolsInv, ToolOK, TasksInv
  <1>5. \A d \in Task : Same(d)
    BY <1>4 DEF Same, rows, history
  <1>6. PollOK(p)'
    BY <1>1, <1>3, <1>4 DEF PollOK, TaskOK, rows, Dead, Ended
  <1>7. ToolOK(p)'
    BY <1>1, <1>3, <1>6 DEF ToolOK, WriteOK
  <1>8. QED
    BY <1>3, <1>4, <1>5, <1>7, ToolFrame

(* The reconciliation of a Task writes what it derived from a read.        *)
LEMMA WriteDerivedStep ==
  ASSUME TypeOK, NEW t \in Task, TaskOK(t), NEW seen \in RunStates, seen # "none",
         seen \in {"deciding", "interrupted"} => run[t] \in Dead,
         task[t] # "none",
         WriteDerived(t, seen)
  PROVE  /\ task'[t] # "none"
         /\ task'[t] = "needs_attention" => run[t] \in Dead
         /\ task'[t] \in Open /\ (run[t] \in Dead \/ task[t] \notin Open) => t \in astray'
         /\ task'[t] \in Open => owner'[t] = owner[t] /\ (t \in astray => t \in astray')
         /\ task'[t] \notin Open => owner'[t] = 0
         /\ \A d \in Task \ {t} : /\ task'[d] = task[d] /\ owner'[d] = owner[d]
                                  /\ (d \in astray') = (d \in astray)
  <1> DEFINE s == Derived(seen)
  <1>1. /\ task' = [task EXCEPT ![t] = s]
        /\ owner' = [owner EXCEPT ![t] = IF s \in Open THEN @ ELSE 0]
    BY DEF WriteDerived, Write
  <1>2. s # "none" /\ (s = "needs_attention" => run[t] \in Dead)
    BY DEF Derived, RunStates, Interruptible, Ended
  <1>3. s \in Open /\ run[t] \in Dead => s # Derived(run[t])
    BY DEF Derived, Dead, Ended, Open
  <1>4. s \in Open /\ task[t] \notin Open => task[t] \in Closed \/ run[t] \in Dead
    BY DEF TypeOK, TaskStates, TaskOK, Open
  <1>5. /\ task'[t] = s
        /\ owner'[t] = IF s \in Open THEN owner[t] ELSE 0
        /\ \A d \in Task \ {t} : task'[d] = task[d] /\ owner'[d] = owner[d]
    BY <1>1 DEF TypeOK
  <1>6. /\ s \in Open /\ (s # Derived(run[t]) \/ task[t] \in Closed) => t \in astray'
        /\ s \in Open => (t \in astray => t \in astray')
        /\ \A d \in Task \ {t} : (d \in astray') = (d \in astray)
    BY DEF WriteDerived
  <1> HIDE DEF s
  <1>7. QED
    BY <1>2, <1>3, <1>4, <1>5, <1>6

(* A poll writes what it read, which may be outdated by now.               *)
LEMMA PollWriteInv ==
  ASSUME IInv, ReconInv, NEW p \in Node, PollWrite(p)
  PROVE  ReconInv'
  <1>1. PICK t \in Task : t = tool[p].of
    BY DEF PollWrite, In, IInv, ToolsOK
  <1>2. /\ tool[p].kind = "poll" /\ PollOK(p) /\ TaskOK(t) /\ LaunchedOK(t) /\ TypeOK
        /\ tool[p].seen \in RunStates
    BY <1>1 DEF PollWrite, In, IInv, ToolsOK, ReconInv, ToolsInv, ToolOK, TasksInv
  <1>3. UNCHANGED <<run, fresh, pc, snap, dropped, launched, life, todo>>
    BY DEF PollWrite
  <1>4. tool'[p].kind = "none" /\ tool'[p].left = {} /\ \A q \in Node \ {p} : tool'[q] = tool[q]
    BY <1>2 DEF PollWrite, Returns, NoTool, TypeOK
  <1>5. /\ task[t] # "none" /\ task'[t] # "none"
        /\ task'[t] = "needs_attention" => run[t] \in Dead
        /\ task'[t] \in Open /\ (run[t] \in Dead \/ task[t] \notin Open) => t \in astray'
        /\ task'[t] \in Open => owner'[t] = owner[t] /\ (t \in astray => t \in astray')
        /\ task'[t] \notin Open => owner'[t] = 0
        /\ \A d \in Task \ {t} : /\ task'[d] = task[d] /\ owner'[d] = owner[d]
                                 /\ (d \in astray') = (d \in astray)
    BY <1>1, <1>2, WriteDerivedStep DEF PollWrite, PollOK
  <1>6. \A d \in Task \ {t} : Same(d)
    BY <1>3, <1>5 DEF Same
  <1>7. TaskFrame(t) /\ OverKept(t)
    <2>1. TaskOK(t)' /\ LaunchedOK(t)'
      BY <1>2, <1>3, <1>5 DEF TaskOK, LaunchedOK
    <2>2. OverKept(t) /\ Kept(t)
      BY <1>3, <1>5 DEF OverKept, Over, Kept, Dead
    <2>3. QED
      BY <2>1, <2>2 DEF TaskFrame
  <1>8. ASSUME NEW q \in Node \ {p}, tool[q].kind = "spawn", tool[q].of = t PROVE SpawnKept(t)
    <2>1. Unborn(t)
      BY <1>8 DEF ReconInv, ToolsInv, ToolOK, SpawnOK
    <2>2. QED
      BY <1>3, <1>5, <2>1 DEF SpawnKept, Unborn
  <1>9. ToolOK(p)'
    BY <1>4, NoToolOK
  <1>10. Waiting(t)' => Waiting(t) /\ (Leased(t) => Leased(t)')
    BY <1>3, <1>5 DEF Waiting, Leased, Dead
  <1>11. Unspawned(t)' => Unspawned(t)
    BY <1>2, <1>4 DEF Unspawned
  <1>12. tool[p].left = {}
    BY <1>2 DEF PollOK
  <1>13. QED
    BY <1>2, <1>3, <1>4, <1>6, <1>7, <1>8, <1>9, <1>10, <1>11, <1>12, RowFrame

(* A cancellation passes over only what is closed when it lists it.        *)
LEMMA CancelInv ==
  ASSUME IInv, ReconInv, NEW p \in Node, NEW t \in Task, Cancel(p, t)
  PROVE  ReconInv'
  <1> DEFINE u == [NoTool EXCEPT !.kind = "cancel", !.step = "stop", !.left = Subtree(t),
                    !.open = {d \in Subtree(t) : task[d] \notin Closed}]
  <1>1. /\ u.kind = "cancel" /\ u.step = "stop" /\ u.left = Subtree(t)
        /\ u.open = {d \in Subtree(t) : task[d] \notin Closed}
    BY DEF NoTool
  <1>2. tool' = [tool EXCEPT ![p] = u] /\ tool \in [Node -> Tools]
    BY DEF Cancel, IInv, TypeOK
  <1> HIDE DEF u
  <1>3. tool'[p] = u /\ \A q \in Node \ {p} : tool'[q] = tool[q]
    BY <1>2
  <1>4. /\ UNCHANGED <<rows, pc, snap, history, life, todo>>
        /\ tool[p].kind = "none" /\ tool[p].left = {}
    BY DEF Cancel, Calls, ReconInv, ToolsInv, ToolOK
  <1>5. \A d \in Task : Same(d)
    BY <1>4 DEF Same, rows, history
  <1>6. CancelOK(p)'
    <2>1. \A d \in Subtree(t) : task'[d] # "none"
      BY <1>4 DEF Subtree, rows
    <2>2. \A d \in Subtree(t) : d \notin u.open => task'[d] \notin Open
      BY <1>1, <1>4 DEF rows, Open, Closed
    <2>3. QED
      BY <1>1, <1>3, <2>1, <2>2 DEF CancelOK
  <1>7. ToolOK(p)'
    BY <1>1, <1>3, <1>6 DEF ToolOK, WriteOK
  <1>8. QED
    BY <1>3, <1>4, <1>5, <1>7, ToolFrame

(* It goes to the row of a Task once its Run has ended.                    *)
LEMMA CancelStopInv ==
  ASSUME IInv, ReconInv, NEW p \in Node, CancelStop(p)
  PROVE  ReconInv'
  <1>1. PICK d \in Deepest(tool[p].left) :
          IF run[d] \in Ended THEN ToTaskRow(p, d)
          ELSE tool' = [tool EXCEPT ![p] = [@ EXCEPT !.step = "row", !.of = d, !.seen = run[d]]]
    BY DEF CancelStop
  <1>2. /\ UNCHANGED <<rows, pc, snap, history, life, todo>> /\ tool[p].kind = "cancel"
        /\ CancelOK(p) /\ TypeOK
    BY DEF CancelStop, CancelStep, In, ReconInv, ToolsInv, ToolOK, IInv
  <1>3. d \in tool[p].left /\ d \in Task /\ tool \in [Node -> Tools] /\ tool[p] \in Tools
    BY <1>2 DEF Deepest, TypeOK, Tools
  <1>4. \A t \in Task : Same(t)
    BY <1>2 DEF Same, rows, history
  <1>5. \A t \in Task : Kept(t)
    BY <1>4, SameTask DEF ReconInv, TasksInv, TaskFrame
  <1>6. run' = run /\ task' = task /\ astray' = astray
    BY <1>2 DEF rows, history
  <1>7. CASE run[d] \in Ended /\ d \in tool[p].open
    <2>1. /\ \A q \in Node \ {p} : tool'[q] = tool[q]
          /\ tool'[p].kind = "cancel" /\ tool'[p].step = "read" /\ tool'[p].of = d
          /\ tool'[p].left = tool[p].left /\ tool'[p].open = tool[p].open
      BY <1>1, <1>2, <1>3, <1>7, ToTaskRowStep
    <2>2. ToolOK(p)'
      BY <1>2, <1>3, <1>5, <1>6, <1>7, <2>1, WalkOK DEF Past
    <2>3. QED
      BY <1>2, <1>4, <2>1, <2>2, ToolFrame
  <1>8. CASE run[d] \in Ended /\ d \notin tool[p].open
    <2>1. NextTask(p, d)
      BY <1>1, <1>8 DEF ToTaskRow
    <2>2. /\ \A q \in Node \ {p} : tool'[q] = tool[q]
          /\ ToolOK(p)' /\ tool'[p].left = tool[p].left \ {d}
      BY <1>2, <1>5, <2>1, NextTaskInv
    <2>3. task'[d] \notin Open \/ ~Over(d)'
      BY <1>2, <1>3, <1>6, <1>8 DEF CancelOK, Over
    <2>4. QED
      BY <1>2, <1>4, <2>2, <2>3, ToolFrame
  <1>9. CASE run[d] \notin Ended
    <2> DEFINE u == [tool[p] EXCEPT !.step = "row", !.of = d, !.seen = run[d]]
    <2>1. /\ u.kind = "cancel" /\ u.step = "row" /\ u.of = d /\ u.seen = run[d]
          /\ u.left = tool[p].left /\ u.open = tool[p].open
      BY <1>2, <1>3 DEF Tools
    <2>2. tool' = [tool EXCEPT ![p] = u]
      BY <1>1, <1>9
    <2> HIDE DEF u
    <2>3. tool'[p] = u /\ \A q \in Node \ {p} : tool'[q] = tool[q]
      BY <1>3, <2>2
    <2>4. run[d] \in RunStates \ (Ended \cup {"none"})
      BY <1>2, <1>3, <1>9 DEF TypeOK, Node, CancelOK, ReconInv, TasksInv, TaskOK
    <2>5. CancelOK(p)'
      BY <1>2, <1>3, <1>6, <2>1, <2>3, <2>4 DEF CancelOK, Past
    <2>6. ToolOK(p)'
      BY <2>1, <2>3, <2>5 DEF ToolOK, WriteOK
    <2>7. QED
      BY <1>2, <1>4, <2>1, <2>3, <2>6, ToolFrame
  <1>10. QED
    BY <1>7, <1>8, <1>9

(* The Run it moves was not running unless it was seen to run.             *)
LEMMA CancelRowInv ==
  ASSUME IInv, ReconInv, NEW p \in Node, CancelRow(p)
  PROVE  ReconInv'
  <1>1. PICK d \in Task : d = tool[p].of
    BY DEF CancelRow, CancelStep, In, IInv, ToolsOK
  <1>2. /\ UNCHANGED <<task, gen, owner, fresh, pc, snap, history, life, todo>>
        /\ tool[p].kind = "cancel" /\ tool[p].step = "row" /\ ToTaskRow(p, d)
        /\ CancelOK(p) /\ TypeOK /\ TaskOK(d) /\ LaunchedOK(d)
        /\ tool \in [Node -> Tools] /\ tool[p] \in Tools
    BY <1>1 DEF CancelRow, CancelStep, In, ReconInv, ToolsInv, ToolOK, TasksInv, IInv, TypeOK
  <1>3. /\ \A t \in Task \ {d} : run'[t] = run[t]
        /\ \/ run'[d] = run[d]
           \/ Accepts(run[d], "cancelled") /\ run'[d] = "cancelled"
    BY <1>1, <1>2 DEF CancelRow, MoveRun, TypeOK, Node
  <1>4. Accepts(tool[p].seen, "cancelled") =>
          run'[d] = "cancelled" \/ (~Accepts(run[d], "cancelled") /\ run'[d] = run[d])
    BY <1>1, <1>2 DEF CancelRow, MoveRun, TypeOK, Node
  <1>5. /\ d \in tool[p].left /\ task[d] # "none" /\ run[d] # "none" /\ run[d] \in RunStates
        /\ d \notin tool[p].open => task[d] \notin Open \/ d \in astray
    BY <1>1, <1>2 DEF CancelOK, TaskOK, TypeOK, Node
  <1>6. run'[d] \in Past
    <2>1. CASE tool[p].seen = "running"
      <3>1. run[d] \in Past
        BY <1>1, <1>2, <2>1 DEF CancelOK
      <3>2. QED
        BY <1>3, <3>1 DEF Past, Ended
    <2>2. CASE tool[p].seen # "running"
      <3>1. tool[p].seen \in RunStates \ (Ended \cup {"none"})
        BY <1>2 DEF CancelOK
      <3>2. Accepts(tool[p].seen, "cancelled")
        BY <2>2, <3>1 DEF Accepts, RunStates, Interruptible, Ended
      <3>3. CASE run'[d] = "cancelled"
        BY <3>3 DEF Past, Ended
      <3>4. CASE ~Accepts(run[d], "cancelled") /\ run'[d] = run[d]
        BY <1>5, <3>4 DEF Accepts, RunStates, Interruptible, Ended, Past
      <3>5. QED
        BY <1>4, <3>2, <3>3, <3>4
    <2>3. QED
      BY <2>1, <2>2
  <1>7. \A t \in Task \ {d} : Same(t)
    BY <1>2, <1>3 DEF Same, history
  <1>8. ASSUME run[d] \in Past PROVE OverKept(d)
    <2> SUFFICES ASSUME Over(d)' PROVE Over(d) /\ task'[d] = task[d]
      BY DEF OverKept
    <2>1. d \in launched \ astray /\ pc[d] \in {"releasing", "off"}
      BY <1>2 DEF Over, history
    <2>2. run[d] \in {"queued", "running"} \cup Ended
      BY <1>2, <2>1 DEF LaunchedOK
    <2>3. run[d] # "running" \/ run'[d] = "running"
      BY <1>3 DEF Accepts
    <2>4. run[d] \in Ended
      BY <1>8, <2>2, <2>3 DEF Past, Over, Ended
    <2>5. QED
      BY <1>2, <2>1, <2>4 DEF Over
  <1>9. TaskFrame(d)
    <2>1. TaskOK(d)' /\ LaunchedOK(d)'
      BY <1>2, <1>3, <1>5 DEF TaskOK, LaunchedOK, history, Dead, Ended
    <2>2. Kept(d)
      BY <1>2, <1>3, <1>5, <1>6, <1>8 DEF Kept, Dead, Ended, history
    <2>3. QED
      BY <2>1, <2>2 DEF TaskFrame
  <1>10. \A t \in Task : Kept(t)
    BY <1>7, <1>9, SameTask DEF ReconInv, TasksInv, TaskFrame
  <1>11. ASSUME NEW q \in Node \ {p}, tool[q].kind = "spawn", tool[q].of = d PROVE SpawnKept(d)
    <2>1. Unborn(d)
      BY <1>11 DEF ReconInv, ToolsInv, ToolOK, SpawnOK
    <2>2. QED
      BY <1>2, <1>3, <2>1 DEF SpawnKept, Unborn, history, Ended
  <1>12. Waiting(d)' => Waiting(d) /\ (Leased(d) => Leased(d)')
    BY <1>2, <1>3 DEF Waiting, Leased, history, Ended
  <1>13. CASE d \in tool[p].open
    <2>1. /\ \A q \in Node \ {p} : tool'[q] = tool[q]
          /\ tool'[p].kind = "cancel" /\ tool'[p].step = "read" /\ tool'[p].of = d
          /\ tool'[p].left = tool[p].left /\ tool'[p].open = tool[p].open
      BY <1>2, <1>13, ToTaskRowStep
    <2>2. ToolOK(p)'
      BY <1>2, <1>5, <1>6, <1>10, <2>1, WalkOK
    <2>3. Unspawned(d)' => Unspawned(d)
      BY <1>2, <2>1 DEF Unspawned
    <2>4. d \in tool'[p].left
      BY <1>5, <2>1
    <2>5. QED
      BY <1>2, <1>7, <1>9, <1>11, <1>12, <2>1, <2>2, <2>3, <2>4, RowFrame
  <1>14. CASE d \notin tool[p].open
    <2>1. NextTask(p, d)
      BY <1>2, <1>14 DEF ToTaskRow
    <2>2. /\ \A q \in Node \ {p} : tool'[q] = tool[q]
          /\ ToolOK(p)' /\ tool'[p].left = tool[p].left \ {d}
      BY <1>2, <1>10, <2>1, NextTaskInv
    <2>3. task'[d] \notin Open \/ ~Over(d)'
      BY <1>2, <1>5, <1>14 DEF Over, history
    <2>4. OverKept(d)
      BY <2>3 DEF OverKept
    <2>5. Unspawned(d)' => Unspawned(d)
      BY <1>2, <2>2 DEF Unspawned
    <2>6. \A t \in tool[p].left : t \in tool'[p].left \/ ~Over(t)' \/ task'[t] \notin Open
      BY <2>2, <2>3
    <2>7. QED
      BY <1>2, <1>7, <1>9, <1>11, <1>12, <2>2, <2>4, <2>5, <2>6, RowFrame
  <1>15. QED
    BY <1>13, <1>14

(* It leaves a Task only when that is not open.                            *)
LEMMA CancelReadInv ==
  ASSUME IInv, ReconInv, NEW p \in Node, CancelRead(p)
  PROVE  ReconInv'
  <1>1. PICK d \in Task : d = tool[p].of
    BY DEF CancelRead, CancelStep, In, IInv, ToolsOK
  <1>2. /\ UNCHANGED <<rows, pc, snap, history, life, todo>>
        /\ tool[p].kind = "cancel" /\ tool[p].step = "read"
        /\ CancelOK(p) /\ TypeOK /\ tool \in [Node -> Tools] /\ tool[p] \in Tools
    BY DEF CancelRead, CancelStep, In, ReconInv, ToolsInv, ToolOK, IInv, TypeOK
  <1>3. \A t \in Task : Same(t)
    BY <1>2 DEF Same, rows, history
  <1>4. \A t \in Task : Kept(t)
    BY <1>3, SameTask DEF ReconInv, TasksInv, TaskFrame
  <1>5. run' = run /\ task' = task /\ astray' = astray
    BY <1>2 DEF rows, history
  <1>6. CASE TaskAccepts(task[d], "cancelled")
    <2> DEFINE u == [tool[p] EXCEPT !.step = "write", !.seen = task[d]]
    <2>1. /\ u.kind = "cancel" /\ u.step = "write" /\ u.of = d /\ u.seen = task[d]
          /\ u.left = tool[p].left /\ u.open = tool[p].open
      BY <1>1, <1>2 DEF Tools
    <2>2. tool' = [tool EXCEPT ![p] = u]
      BY <1>1, <1>6 DEF CancelRead
    <2> HIDE DEF u
    <2>3. tool'[p] = u /\ \A q \in Node \ {p} : tool'[q] = tool[q]
      BY <1>2, <2>2
    <2>4. CancelOK(p)'
      BY <1>1, <1>2, <1>5, <2>1, <2>3 DEF CancelOK
    <2>5. WriteOK(p)'
      BY <1>5, <2>1, <2>3 DEF WriteOK
    <2>6. ToolOK(p)'
      BY <2>1, <2>3, <2>4, <2>5 DEF ToolOK
    <2>7. QED
      BY <1>2, <1>3, <2>1, <2>3, <2>6, ToolFrame
  <1>7. CASE ~TaskAccepts(task[d], "cancelled")
    <2>1. NextTask(p, d)
      BY <1>1, <1>7 DEF CancelRead
    <2>2. /\ \A q \in Node \ {p} : tool'[q] = tool[q]
          /\ ToolOK(p)' /\ tool'[p].left = tool[p].left \ {d}
      BY <1>2, <1>4, <2>1, NextTaskInv
    <2>3. task'[d] \notin Open
      BY <1>5, <1>7 DEF TaskAccepts, Open
    <2>4. QED
      BY <1>2, <1>3, <2>2, <2>3, ToolFrame
  <1>8. QED
    BY <1>6, <1>7

(* A miss of its compare-and-set is a Task that is not open.               *)
LEMMA CancelWriteInv ==
  ASSUME IInv, ReconInv, NEW p \in Node, CancelWrite(p)
  PROVE  ReconInv'
  <1>1. PICK d \in Task : d = tool[p].of
    BY DEF CancelWrite, CancelStep, In, IInv, ToolsOK
  <1>2. /\ UNCHANGED <<run, gen, fresh, pc, snap, history, life, todo>>
        /\ tool[p].kind = "cancel" /\ tool[p].step = "write" /\ NextTask(p, d)
        /\ CancelOK(p) /\ WriteOK(p) /\ TypeOK /\ TaskOK(d) /\ LaunchedOK(d)
    BY <1>1 DEF CancelWrite, CancelStep, In, ReconInv, ToolsInv, ToolOK, TasksInv, IInv
  <1>3. \/ /\ task[d] = tool[p].seen
           /\ task'[d] = "cancelled" /\ owner'[d] = 0
           /\ \A t \in Task \ {d} : task'[t] = task[t] /\ owner'[t] = owner[t]
        \/ task[d] # tool[p].seen /\ task' = task /\ owner' = owner
    BY <1>1, <1>2 DEF CancelWrite, Write, TypeOK, Open
  <1>4. \A t \in Task \ {d} : Same(t)
    BY <1>2, <1>3 DEF Same, history
  <1>5. TaskFrame(d) /\ OverKept(d)
    <2>1. task[d] # "none"
      BY <1>1, <1>2 DEF CancelOK
    <2>2. TaskOK(d)' /\ LaunchedOK(d)'
      BY <1>2, <1>3, <2>1 DEF TaskOK, LaunchedOK, history
    <2>3. OverKept(d) /\ Kept(d)
      BY <1>2, <1>3 DEF OverKept, Over, Kept, history, Open
    <2>4. QED
      BY <2>2, <2>3 DEF TaskFrame
  <1>6. \A t \in Task : Kept(t)
    BY <1>4, <1>5, SameTask DEF ReconInv, TasksInv, TaskFrame
  <1>7. /\ \A q \in Node \ {p} : tool'[q] = tool[q]
        /\ ToolOK(p)' /\ tool'[p].left = tool[p].left \ {d}
    BY <1>2, <1>6, NextTaskInv
  <1>8. ~Over(d)' \/ task'[d] \notin Open
    BY <1>1, <1>2, <1>3 DEF WriteOK, Over, history, Open
  <1>9. ASSUME NEW q \in Node \ {p}, tool[q].kind = "spawn", tool[q].of = d PROVE SpawnKept(d)
    <2>1. Unborn(d)
      BY <1>9 DEF ReconInv, ToolsInv, ToolOK, SpawnOK
    <2>2. task[d] # "none"
      BY <1>1, <1>2 DEF CancelOK
    <2>3. QED
      BY <1>2, <1>3, <2>1, <2>2 DEF SpawnKept, Unborn, history
  <1>10. Waiting(d)' => Waiting(d) /\ (Leased(d) => Leased(d)')
    BY <1>2, <1>3 DEF Waiting, Leased, history, Open
  <1>11. Unspawned(d)' => Unspawned(d)
    BY <1>2, <1>7 DEF Unspawned
  <1>12. QED
    BY <1>2, <1>4, <1>5, <1>7, <1>8, <1>9, <1>10, <1>11, RowFrame

-----------------------------------------------------------------------------
(* The end of an execution, the startup and the restart.                   *)

(* A step about a Task nobody is spawning, that leaves the tools alone.     *)
LEMMA ExecutorFrame ==
  ASSUME IInv, ReconInv, life' = life, tool' = tool, NEW u \in Task,
         \A t \in Task \ {u} : Same(t),
         TaskFrame(u), OverKept(u), ~Unborn(u),
         Waiting(u)' => Leased(u)' \/ (Waiting(u) /\ (Leased(u) => Leased(u)'))
  PROVE  ReconInv'
  <1>1. ASSUME NEW t \in Task, t # u
        PROVE  /\ TaskFrame(t) /\ OverKept(t)
               /\ Unborn(t) => SpawnKept(t)
               /\ Waiting(t)' => Waiting(t)
               /\ Leased(t) => Leased(t)'
    BY <1>1, SameTask DEF ReconInv, TasksInv
  <1>2. ASSUME NEW q \in Node, tool[q].kind = "spawn" PROVE SpawnKept(tool[q].of)
    <2>1. PICK t \in Task : t = tool[q].of
      BY <1>2 DEF IInv, ToolsOK
    <2>2. Unborn(t)
      BY <1>2, <2>1 DEF ReconInv, ToolsInv, ToolOK, SpawnOK
    <2>3. QED
      BY <1>1, <2>1, <2>2
  <1>3. \A t \in Task : TaskFrame(t)
    BY <1>1
  <1>4. \A t \in Task : OverKept(t)
    BY <1>1
  <1>5. \A t \in Task : Unspawned(t)' => Unspawned(t)
    BY DEF Unspawned
  <1>6. \A t \in Task : Waiting(t)' /\ Unspawned(t)' =>
          Leased(t)' \/ (Waiting(t) /\ Unspawned(t) /\ (Leased(t) => Leased(t)'))
    BY <1>1, <1>5
  <1>7. QED
    BY <1>2, <1>3, <1>4, <1>6, Frame

(* The Run of an executor that is over is queued, running or ended.        *)
LEMMA SettleInv ==
  ASSUME IInv, ReconInv, NEW t \in Task, Settle(t)
  PROVE  ReconInv'
  <1>1. /\ TaskOK(t) /\ LaunchedOK(t) /\ TypeOK
        /\ UNCHANGED <<task, owner, fresh, tool, history, life, todo>>
        /\ pc[t] = "ended"
    BY DEF Settle, ReconInv, TasksInv, IInv
  <1>2. t \in launched /\ run[t] \in RunStates \ {"none", "recovering", "deciding"}
    BY <1>1 DEF TaskOK, LaunchedOK, Settling, TypeOK, Node
  <1>3. pc'[t] = "writing" /\ snap'[t] = run'[t]
    BY <1>1 DEF Settle, TypeOK, Node
  <1>4. /\ run'[t] \in {"queued", "running"} \cup Ended
        /\ run[t] \in Dead => run'[t] \in Dead
        /\ run[t] \in Past => run'[t] \in Past
    <2>1. CASE run[t] \in Ended
      BY <2>1 DEF Settle, Dead, Past
    <2>2. CASE run[t] \notin Ended
      <3>1. PICK end \in {"cancelled", "failed"} :
              run' = IF Accepts(run[t], end) THEN [run EXCEPT ![t] = end] ELSE run
        BY <2>2 DEF Settle, MoveRun
      <3>2. run'[t] = IF Accepts(run[t], end) THEN end ELSE run[t]
        BY <1>1, <3>1 DEF TypeOK, Node
      <3>3. QED
        BY <1>2, <2>2, <3>2 DEF Accepts, RunStates, Interruptible, Ended, Dead, Past
    <2>3. QED
      BY <2>1, <2>2
  <1>5. \A d \in Task \ {t} : Same(d)
    <2>1. \A d \in Task \ {t} : run'[d] = run[d] /\ pc'[d] = pc[d] /\ snap'[d] = snap[d]
      BY <1>1 DEF Settle, MoveRun, TypeOK, Node
    <2>2. QED
      BY <1>1, <2>1 DEF Same, history
  <1>6. TaskOK(t)' /\ LaunchedOK(t)'
    BY <1>1, <1>2, <1>3, <1>4 DEF TaskOK, LaunchedOK, history, Dead, Ended
  <1>7. OverKept(t) /\ ~Unborn(t) /\ ~Waiting(t)'
    BY <1>1, <1>2, <1>3 DEF OverKept, Over, Unborn, Waiting, history
  <1>8. Kept(t)
    BY <1>1, <1>4, <1>7 DEF Kept, history, Ended
  <1>9. QED
    BY <1>1, <1>5, <1>6, <1>7, <1>8, ExecutorFrame DEF TaskFrame

(* The executor writes what it has read of its Run.                        *)
LEMMA WriteTaskInv ==
  ASSUME IInv, ReconInv, NEW t \in Task, WriteTask(t)
  PROVE  ReconInv'
  <1>1. /\ TaskOK(t) /\ LaunchedOK(t) /\ TypeOK /\ pc[t] = "writing"
        /\ UNCHANGED <<run, fresh, tool, dropped, launched, life, todo>>
        /\ snap[t] \in RunStates
    BY DEF WriteTask, ReconInv, TasksInv, IInv, TypeOK
  <1>2. /\ t \in launched /\ task[t] # "none" /\ snap[t] # "none"
        /\ snap[t] \in {"deciding", "interrupted"} => run[t] \in Dead
    BY <1>1 DEF TaskOK, Settling
  <1>3. /\ task'[t] # "none"
        /\ task'[t] = "needs_attention" => run[t] \in Dead
        /\ task'[t] \in Open /\ (run[t] \in Dead \/ task[t] \notin Open) => t \in astray'
        /\ task'[t] \in Open => owner'[t] = owner[t] /\ (t \in astray => t \in astray')
        /\ task'[t] \notin Open => owner'[t] = 0
        /\ \A d \in Task \ {t} : /\ task'[d] = task[d] /\ owner'[d] = owner[d]
                                 /\ (d \in astray') = (d \in astray)
    BY <1>1, <1>2, WriteDerivedStep DEF WriteTask
  <1>4. /\ pc'[t] = "releasing" /\ snap'[t] = "none"
        /\ \A d \in Task \ {t} : pc'[d] = pc[d] /\ snap'[d] = snap[d]
    BY <1>1 DEF WriteTask, TypeOK, Node
  <1>5. \A d \in Task \ {t} : Same(d)
    BY <1>1, <1>3, <1>4 DEF Same
  <1>6. TaskOK(t)' /\ LaunchedOK(t)'
    BY <1>1, <1>2, <1>3, <1>4 DEF TaskOK, LaunchedOK
  <1>7. OverKept(t) /\ ~Unborn(t) /\ ~Waiting(t)'
    BY <1>1, <1>2, <1>3 DEF OverKept, Over, Unborn, Waiting, Dead
  <1>8. Kept(t)
    BY <1>1, <1>3, <1>7 DEF Kept
  <1>9. QED
    BY <1>1, <1>5, <1>6, <1>7, <1>8, ExecutorFrame DEF TaskFrame

(* The release of the lease leaves the Task as written, or failed.         *)
LEMMA ReleaseInv ==
  ASSUME IInv, ReconInv, NEW t \in Task, Release(t)
  PROVE  ReconInv'
  <1>1. /\ TaskOK(t) /\ LaunchedOK(t) /\ TypeOK /\ pc[t] = "releasing"
        /\ UNCHANGED <<run, fresh, snap, tool, history, life, todo>>
    BY DEF Release, ReconInv, TasksInv, IInv
  <1>2. t \in launched /\ task[t] # "none"
    BY <1>1 DEF TaskOK, Settling
  <1>3. /\ pc'[t] = "off" /\ task'[t] \in {task[t], "failed"}
        /\ \A d \in Task \ {t} : pc'[d] = pc[d] /\ task'[d] = task[d] /\ owner'[d] = owner[d]
    BY <1>1 DEF Release, TypeOK, Node
  <1>4. \A d \in Task \ {t} : Same(d)
    BY <1>1, <1>3 DEF Same, history
  <1>5. TaskOK(t)' /\ LaunchedOK(t)'
    BY <1>1, <1>2, <1>3 DEF TaskOK, LaunchedOK, Executing, Settling, history
  <1>6. OverKept(t) /\ ~Unborn(t) /\ ~Waiting(t)'
    BY <1>1, <1>2, <1>3 DEF OverKept, Over, Unborn, Waiting, Open, history
  <1>7. Kept(t)
    BY <1>1, <1>2, <1>3, <1>6 DEF Kept, Open, history
  <1>8. QED
    BY <1>1, <1>4, <1>5, <1>6, <1>7, ExecutorFrame DEF TaskFrame

(* What the startup has still to inspect is not launched and not new.      *)
LEMMA TodoOK ==
  ASSUME ReconInv, NEW t \in todo, t \in Task
  PROVE  /\ TaskOK(t) /\ LaunchedOK(t) /\ ~Unborn(t)
         /\ task[t] # "none" /\ run[t] # "none" /\ t \notin launched
         /\ pc[t] \notin Executing \cup Settling
  BY DEF ReconInv, TasksInv, TaskOK, LaunchedOK, Unborn

(* An inspection that leaves no open Task behind.                          *)
LEMMA ClosesInv ==
  ASSUME IInv, ReconInv, NEW t \in Task, Inspect(t),
         UNCHANGED <<fresh, pc, launched>>,
         \A d \in Task \ {t} : run'[d] = run[d] /\ task'[d] = task[d] /\ owner'[d] = owner[d],
         run'[t] # "none", run[t] \in Dead => run'[t] \in Dead,
         run[t] \in Past => run'[t] \in Past,
         task'[t] \notin Open \cup {"none"},
         task'[t] = "needs_attention" => run'[t] \in Dead
  PROVE  ReconInv'
  <1>1. t \in todo /\ TypeOK
    BY DEF Inspect, IInv
  <1>2. /\ TaskOK(t) /\ LaunchedOK(t) /\ ~Unborn(t) /\ t \notin launched
        /\ pc[t] \notin Executing \cup Settling
    BY <1>1, TodoOK
  <1>3. UNCHANGED <<snap, tool, astray, dropped, life>> /\ todo' = todo \ {t}
    BY DEF Inspect
  <1>4. \A d \in Task \ {t} : Same(d)
    BY <1>3 DEF Same
  <1>5. TaskOK(t)' /\ LaunchedOK(t)'
    BY <1>2, <1>3 DEF TaskOK, LaunchedOK
  <1>6. OverKept(t) /\ ~Waiting(t)'
    BY DEF OverKept, Waiting
  <1>7. Kept(t)
    BY <1>6 DEF Kept
  <1>8. QED
    BY <1>2, <1>3, <1>4, <1>5, <1>6, <1>7, ExecutorFrame DEF TaskFrame

(* A move to an end closes a Task, or finds it closed.                     *)
LEMMA MoveTaskStep ==
  ASSUME TypeOK, NEW t \in Task, task[t] # "none", NEW to \in {"failed", "cancelled"},
         MoveTask(t, to)
  PROVE  /\ task'[t] \in Closed
         /\ \A d \in Task \ {t} : task'[d] = task[d] /\ owner'[d] = owner[d]
  BY DEF MoveTask, Write, TaskAccepts, TypeOK, TaskStates, Open, Closed

(* A move to an end keeps a Run that is dead or past.                      *)
LEMMA MoveRunStep ==
  ASSUME TypeOK, NEW t \in Task, run[t] # "none", NEW to \in {"failed", "cancelled"},
         MoveRun(t, to)
  PROVE  /\ run'[t] # "none"
         /\ run[t] \in Dead => run'[t] \in Dead
         /\ run[t] \in Past => run'[t] \in Past
         /\ \A d \in Task \ {t} : run'[d] = run[d]
  <1>1. /\ run'[t] \in {run[t], to}
        /\ \A d \in Task \ {t} : run'[d] = run[d]
    BY DEF MoveRun, TypeOK, Node
  <1>2. QED
    BY <1>1 DEF Dead, Past, Ended

(* A Task the startup cannot resume is closed.                             *)
LEMMA InspectCloses ==
  ASSUME IInv, ReconInv, NEW t \in Task,
         InspectCancelled(t) \/ InspectFails(t) \/ InspectUnprepared(t)
  PROVE  ReconInv'
  <1>1. /\ Inspect(t) /\ t \in todo /\ TypeOK
        /\ UNCHANGED <<fresh, pc, launched>>
    BY DEF InspectCancelled, InspectFails, InspectUnprepared, Inspect, IInv
  <1>2. task[t] # "none" /\ run[t] # "none"
    BY <1>1, TodoOK
  <1>3. /\ task'[t] \in Closed
        /\ \A d \in Task \ {t} : task'[d] = task[d] /\ owner'[d] = owner[d]
    BY <1>1, <1>2, MoveTaskStep DEF InspectCancelled, InspectFails, InspectUnprepared
  <1>4. /\ run'[t] # "none"
        /\ run[t] \in Dead => run'[t] \in Dead
        /\ run[t] \in Past => run'[t] \in Past
        /\ \A d \in Task \ {t} : run'[d] = run[d]
    <2>1. CASE InspectCancelled(t) \/ InspectFails(t)
      BY <1>1, <1>2, <2>1, MoveRunStep DEF InspectCancelled, InspectFails
    <2>2. CASE InspectUnprepared(t)
      BY <1>1, <2>2 DEF InspectUnprepared, TypeOK, Node, Dead, Past, Ended
    <2>3. QED
      BY <2>1, <2>2
  <1>5. task'[t] \notin Open \cup {"none", "needs_attention"}
    BY <1>3 DEF Open, Closed
  <1>6. QED
    BY <1>1, <1>3, <1>4, <1>5, ClosesInv

(* A Task whose Run has ended takes its status.                            *)
LEMMA InspectEndedInv ==
  ASSUME IInv, ReconInv, NEW t \in Task, InspectEnded(t)
  PROVE  ReconInv'
  <1>1. /\ Inspect(t) /\ TypeOK /\ run[t] \in Ended
        /\ UNCHANGED <<run, fresh, pc, launched>>
    BY DEF InspectEnded, IInv
  <1>2. /\ task'[t] = Derived(run[t])
        /\ \A d \in Task \ {t} : task'[d] = task[d] /\ owner'[d] = owner[d]
    BY <1>1 DEF InspectEnded, Write, TypeOK
  <1>3. /\ task'[t] \notin Open \cup {"none"}
        /\ task'[t] = "needs_attention" => run[t] \in Dead
    BY <1>1, <1>2 DEF Derived, Ended, Open, Dead
  <1>4. run[t] # "none"
    BY <1>1 DEF Ended
  <1>5. QED
    BY <1>1, <1>2, <1>3, <1>4, ClosesInv

(* A Task is launched, or an unexpired lease of another refuses it.        *)
LEMMA InspectResumesInv ==
  ASSUME IInv, ReconInv, NEW t \in Task, InspectResumes(t)
  PROVE  ReconInv'
  <1>1. /\ t \in todo /\ TypeOK /\ run[t] \in {"queued", "recovering"}
        /\ UNCHANGED <<snap, tool, astray, dropped, life>> /\ todo' = todo \ {t}
    BY DEF InspectResumes, Inspect, IInv
  <1>2. /\ TaskOK(t) /\ LaunchedOK(t) /\ ~Unborn(t) /\ t \notin launched
        /\ pc[t] \notin Executing \cup Settling /\ task[t] # "none"
    BY <1>1, TodoOK
  <1>3. run'[t] = "queued" /\ \A d \in Task \ {t} : run'[d] = run[d]
    BY <1>1 DEF InspectResumes, TypeOK, Node
  <1>4. run[t] \notin Dead \cup Past
    BY <1>1 DEF Dead, Past, Ended
  <1>5. CASE Claimable(t)
    <2>1. Launch(t)
      BY <1>5 DEF InspectResumes
    <2>2. /\ task'[t] = "running" /\ pc'[t] = "starting" /\ t \in launched'
          /\ \A d \in Task \ {t} : /\ task'[d] = task[d] /\ pc'[d] = pc[d]
                                   /\ owner'[d] = owner[d]
                                   /\ (d \in fresh') = (d \in fresh)
                                   /\ (d \in launched') = (d \in launched)
      BY <1>1, <2>1 DEF Launch, Claim, TypeOK, Node
    <2>3. \A d \in Task \ {t} : Same(d)
      BY <1>1, <1>3, <2>2 DEF Same
    <2>4. TaskOK(t)' /\ LaunchedOK(t)'
      BY <1>1, <1>2, <1>3, <1>4, <2>2 DEF TaskOK, LaunchedOK, Dead
    <2>5. OverKept(t) /\ ~Waiting(t)'
      BY <2>2 DEF OverKept, Over, Waiting
    <2>6. Kept(t)
      BY <1>1, <1>3, <1>4, <1>5, <2>2 DEF Kept, Claimable
    <2>7. QED
      BY <1>1, <1>2, <2>3, <2>4, <2>5, <2>6, ExecutorFrame DEF TaskFrame
  <1>6. CASE ~Claimable(t)
    <2>1. UNCHANGED <<task, owner, fresh, pc, launched>>
      BY <1>6 DEF InspectResumes
    <2>2. \A d \in Task \ {t} : Same(d)
      BY <1>1, <1>3, <2>1 DEF Same
    <2>3. TaskOK(t)' /\ LaunchedOK(t)'
      BY <1>1, <1>2, <1>3, <1>4, <2>1 DEF TaskOK, LaunchedOK, Dead
    <2>4. OverKept(t)
      BY <1>2, <2>1 DEF OverKept, Over
    <2>5. Kept(t)
      BY <1>1, <1>3, <1>4, <2>1 DEF Kept
    <2>6. ASSUME Waiting(t)' PROVE Leased(t)'
      <3>1. t \in fresh /\ owner[t] # 0 /\ t \notin dropped
        BY <1>1, <1>6, <2>1, <2>6 DEF Claimable, Waiting
      <3>2. owner[t] # life
        BY <1>2, <3>1 DEF IInv, LeaseAccounted
      <3>3. owner[t] \in Nat /\ life \in Nat /\ owner[t] <= life
        BY <1>1, TasksAssumption DEF TypeOK, IInv, OwnersPast
      <3>4. owner[t] \in 1..(life - 1)
        BY <3>1, <3>2, <3>3
      <3>5. QED
        BY <1>1, <2>1, <3>1, <3>4 DEF Leased
    <2>7. QED
      BY <1>1, <1>2, <2>2, <2>3, <2>4, <2>5, <2>6, ExecutorFrame DEF TaskFrame
  <1>7. QED
    BY <1>5, <1>6

(* What is resumed on its own is not launched.                             *)
LEMMA ResumeInv ==
  ASSUME IInv, ReconInv, NEW n \in Node, Resume(n)
  PROVE  ReconInv'
  <1>1. /\ TypeOK /\ run[n] = "recovering"
        /\ UNCHANGED <<task, owner, fresh, snap, tool, history, life, todo>>
    BY DEF Resume, IInv
  <1>2. /\ run'[n] = "running" /\ pc'[n] = "solo"
        /\ \A d \in Node \ {n} : run'[d] = run[d] /\ pc'[d] = pc[d]
    BY <1>1 DEF Resume, TypeOK
  <1>3. \A d \in Task \ {n} : Same(d)
    BY <1>1, <1>2 DEF Same, Node, history
  <1>4. CASE n \in Task
    <2>1. TaskOK(n) /\ LaunchedOK(n) /\ ~Unborn(n) /\ n \notin launched
      BY <1>1, <1>4 DEF ReconInv, TasksInv, LaunchedOK, Unborn, Ended
    <2>2. TaskOK(n)' /\ LaunchedOK(n)'
      BY <1>1, <1>2, <2>1 DEF TaskOK, LaunchedOK, Executing, Settling, Dead, Ended, history
    <2>3. OverKept(n) /\ Kept(n) /\ (Waiting(n)' => Waiting(n) /\ (Leased(n) => Leased(n)'))
      BY <1>1, <1>2 DEF OverKept, Over, Kept, Waiting, Leased, Dead, Past, Ended, history
    <2>4. QED
      BY <1>1, <1>3, <1>4, <2>1, <2>2, <2>3, ExecutorFrame DEF TaskFrame
  <1>5. CASE n \notin Task
    <2>1. ASSUME NEW t \in Task
          PROVE  /\ TaskFrame(t) /\ OverKept(t)
                 /\ Unborn(t) => SpawnKept(t)
                 /\ Waiting(t)' => Waiting(t)
                 /\ Leased(t) => Leased(t)'
      BY <1>1, <1>3, <1>5, SameTask DEF ReconInv, TasksInv
    <2>2. ASSUME NEW q \in Node, tool[q].kind = "spawn" PROVE SpawnKept(tool[q].of)
      <3>1. PICK t \in Task : t = tool[q].of
        BY <2>2 DEF IInv, ToolsOK
      <3>2. Unborn(t)
        BY <2>2, <3>1 DEF ReconInv, ToolsInv, ToolOK, SpawnOK
      <3>3. QED
        BY <2>1, <3>1, <3>2
    <2>3. \A t \in Task : Unspawned(t)' => Unspawned(t)
      BY <1>1 DEF Unspawned
    <2>4. QED
      BY <1>1, <2>1, <2>2, <2>3, Frame
  <1>6. QED
    BY <1>4, <1>5

(* What the process forgets, and the Tasks it inspects again.              *)
LEMMA RestartInv ==
  ASSUME IInv, ReconInv, Restart
  PROVE  ReconInv'
  <1>1. /\ launched' = {} /\ dropped' = {} /\ astray' = {}
        /\ todo' = {t \in Task : task[t] \notin Closed \cup {"none"}}
        /\ task' = task /\ owner' = owner /\ TypeOK
    BY DEF Restart, IInv
  <1>2. \A t \in Task : pc'[t] = "off" /\ snap'[t] = "none"
    BY DEF Restart, Node
  <1>3. \A p \in Node : tool'[p] = NoTool
    BY DEF Restart
  <1>4. ASSUME NEW t \in Task
        PROVE  /\ run[t] # "none" => run'[t] # "none"
               /\ run[t] \in Dead => run'[t] \in Dead
    <2>1. PICK eligible \in SUBSET {n \in Node : run[n] \in {"preparing", "running"}},
               enabled \in BOOLEAN :
            run' = [n \in Node |->
                     IF run[n] \in Interruptible
                       THEN IF ~enabled THEN "interrupted"
                            ELSE IF n \in eligible THEN "recovering" ELSE "deciding"
                       ELSE run[n]]
      BY DEF Restart
    <2>2. run'[t] \in {run[t], "interrupted", "recovering", "deciding"}
      BY <2>1 DEF Node
    <2>3. run[t] \in Dead => run'[t] = run[t]
      BY <2>1 DEF Node, Dead, Ended, Interruptible
    <2>4. QED
      BY <2>2, <2>3
  <1>5. TasksInv'
    <2> SUFFICES ASSUME NEW t \in Task PROVE TaskOK(t)' /\ LaunchedOK(t)'
      BY DEF TasksInv
    <2>1. TaskOK(t)
      BY DEF ReconInv, TasksInv
    <2>2. QED
      BY <1>1, <1>2, <1>4, <2>1 DEF TaskOK, LaunchedOK, Executing, Settling
  <1>6. ToolsInv'
    <2>1. ASSUME NEW p \in Node PROVE tool'[p].kind = "none" /\ tool'[p].left = {}
      BY <1>3 DEF NoTool
    <2>2. QED
      BY <2>1, NoToolOK DEF ToolsInv
  <1>7. AgreesInv'
    BY <1>1 DEF AgreesInv, Agrees, Over
  <1>8. AccountedInv'
    BY <1>1 DEF AccountedInv, Accounted, Waiting, Open, Closed
  <1>9. QED
    BY <1>5, <1>6, <1>7, <1>8 DEF ReconInv

(* Every step keeps the invariant.                                         *)
LEMMA ReconStep == IInv /\ ReconInv /\ [Next]_vars => ReconInv'
  <1> SUFFICES ASSUME IInv, ReconInv, [Next]_vars PROVE ReconInv'
    OBVIOUS
  <1>1. ASSUME NEW p \in Node, NEW t \in Task, Spawn(p, t) \/ Poll(p, t) \/ Cancel(p, t)
        PROVE  ReconInv'
    BY <1>1, SpawnInv, PollInv, CancelInv
  <1>2. ASSUME NEW p \in Node, ToolStep(p) \/ DropTool(p) PROVE ReconInv'
    BY <1>2, SpawnRowInv, SpawnClaimInv, PollWriteInv, CancelStopInv, CancelRowInv,
       CancelReadInv, CancelWriteInv, DropToolInv DEF ToolStep
  <1>3. CASE \/ \E n \in Node : Finish(n) \/ Watch(n) \/ StopRun(n) \/ Stopped(n)
             \/ \E t \in Task : \/ Register(t) \/ Enter(t) \/ Refuse(t) \/ Go(t) \/ Break(t)
                                \/ Deliver(t) \/ Heartbeat(t)
             \/ UserCancel
             \/ UNCHANGED vars
    BY <1>3, TurnMoves, TurnInv DEF IInv
  <1>4. ASSUME NEW t \in Task, ExecutorStep(t) PROVE ReconInv'
    BY <1>4, SettleInv, WriteTaskInv, ReleaseInv DEF ExecutorStep
  <1>5. ASSUME NEW t \in Task, InspectStep(t) PROVE ReconInv'
    BY <1>5, InspectCloses, InspectEndedInv, InspectResumesInv DEF InspectStep
  <1>6. ASSUME NEW n \in Node, Resume(n) PROVE ReconInv'
    BY <1>6, ResumeInv
  <1>7. CASE Restart
    BY <1>7, RestartInv
  <1>8. QED
    BY <1>1, <1>2, <1>3, <1>4, <1>5, <1>6, <1>7 DEF Next

(* The inductive invariant of what this process launched, what its tools   *)
(* are about, and what the startup has accounted for.                      *)
THEOREM ReconInvariance == Spec => []ReconInv
  <1>1. Init => ReconInv
    <2> SUFFICES ASSUME Init PROVE ReconInv
      OBVIOUS
    <2>1. /\ launched = {} /\ todo = {} /\ life = 1
          /\ \A t \in Task : /\ task[t] = "none" /\ owner[t] = 0 /\ snap[t] = "none"
                             /\ pc[t] = "off"
      BY TasksAssumption DEF Init, Node
    <2>2. \A p \in Node : tool[p].kind = "none" /\ tool[p].left = {}
      BY DEF Init, NoTool
    <2>3. TasksInv
      BY <2>1 DEF TasksInv, TaskOK, LaunchedOK, Executing, Settling
    <2>4. ToolsInv
      BY <2>2 DEF ToolsInv, ToolOK, WriteOK
    <2>5. AgreesInv /\ AccountedInv
      BY <2>1 DEF AgreesInv, Agrees, Over, AccountedInv, Accounted
    <2>6. QED
      BY <2>3, <2>4, <2>5 DEF ReconInv
  <1>2. QED
    BY <1>1, Invariance, ReconStep, PTL DEF Spec

(* EndedAgrees: an executor that is over has not left its Task open beside *)
(* its ended Run.  What can leave it open is an open status written from   *)
(* a read that was overtaken, or a cancellation under way or dropped half  *)
(* way (astray and tool.left): the theorem says that nothing else does, and *)
(* nothing of the Tasks so left.                                           *)
THEOREM EndedAgreement == Spec => []EndedAgrees
  <1>1. IInv /\ ReconInv => EndedAgrees
    <2> SUFFICES ASSUME IInv, ReconInv, NEW t \in Task, t \in launched, pc[t] = "off",
                        run[t] \in Ended, t \notin astray,
                        \A p \in Node : t \notin tool[p].left
                 PROVE  task[t] \in Closed \cup {"needs_attention"}
      BY DEF EndedAgrees
    <2>1. task[t] \notin Open
      BY DEF ReconInv, AgreesInv, Agrees, Over
    <2>2. task[t] # "none" /\ task[t] \in TaskStates
      BY DEF IInv, TypeOK, ReconInv, TasksInv, TaskOK
    <2>3. QED
      BY <2>1, <2>2 DEF TaskStates
  <1>2. QED
    BY <1>1, Invariance, ReconInvariance, PTL

(* StartupAccounted: after a restart no open Task is forgotten; what this  *)
(* process has not launched is held by an unexpired lease of an earlier    *)
(* one.                                                                    *)
THEOREM StartupAccounting == Spec => []StartupAccounted
  <1>1. IInv /\ ReconInv => StartupAccounted
    <2> SUFFICES ASSUME IInv, ReconInv, NEW t \in Task, todo = {}, life > 1,
                        task[t] \in Open, run[t] \notin Ended,
                        t \notin launched \cup dropped \cup astray,
                        \A p \in Node : tool[p].of # t
                 PROVE  t \in fresh /\ owner[t] \in 1..(life - 1)
      BY DEF StartupAccounted
    <2>1. Waiting(t) /\ Unspawned(t)
      BY DEF Waiting, Unspawned
    <2>2. QED
      BY <2>1 DEF ReconInv, AccountedInv, Accounted, Leased
  <1>2. QED
    BY <1>1, Invariance, ReconInvariance, PTL
=============================================================================
