----------------------- MODULE ExecutorRegistryProofs -----------------------
(***************************************************************************)
(* What holds of the Session lanes and of the executor registry for every   *)
(* number of executions, Sessions and slots: the exclusion of the lanes,    *)
(* the slots, the registry entries, the cancellation of children, and that  *)
(* the registry implements LaneLedger.                                      *)
(***************************************************************************)
EXTENDS ExecutorRegistry, FiniteSetTheorems, TLAPS

Entered == {"idle", "called", "slot", "enter"}
Gone == {"after", "over", "leaked"}
OnTheWay == Steps \ {"idle", "called", "over", "compacting"}

(* Which steps belong to an execution and which to a compaction.           *)
KindsOK ==
  \A e \in Exec :
    /\ pc[e] \in {"called", "slot", "entered", "turn", "turnOk", "turnErr", "after", "leaked"}
       => e \notin Compactors
    /\ pc[e] = "compacting" => e \in Compactors
    /\ pc[e] = "slot" => e \in Background
    /\ pc[e] \in {"idle", "called"} => e \notin slots

(* An execution on its way is the entry of its Run, and only those are.    *)
EntriesOK ==
  /\ \A e \in Exec \ Compactors : pc[e] \in OnTheWay => active[RunOf[e]] = e
  /\ EntriesLive

(* The gate names the one execution past it.                               *)
GatesOK ==
  /\ \A e \in Exec : pc[e] \in HoldsGate => gate[SessionOf[e]] = e
  /\ \A s \in Session : gate[s] # NoExec =>
        SessionOf[gate[s]] = s /\ pc[gate[s]] \in HoldsGate

(* Slots are counted in a finite set.                                      *)
SlotsOK == IsFiniteSet(slots) /\ SlotsAccounted

(* A fenced execution carries a marker older than its lane.                *)
FencesOK ==
  \A e \in Exec :
    /\ pc[e] \notin Gone => report[e] = "none"
    /\ e \in stopped => pc[e] \notin Entered
    /\ pc[e] \in InLane => marker[e] <= Lane(e)
    /\ e \in stopped /\ pc[e] \in InLane => marker[e] < Lane(e)

IInv == TypeOK /\ KindsOK /\ EntriesOK /\ GatesOK /\ SlotsOK /\ FencesOK /\ ChildrenFollow

LedgerStep == [Ledger!LedgerNext]_<<gate, stopped, report>>

-----------------------------------------------------------------------------

LEMMA Members ==
  ASSUME NEW e \in Exec
  PROVE  SessionOf[e] \in Session /\ (e \notin Compactors => RunOf[e] \in Run)
  BY RegistryAssumption

(* What dropping the permits does to the types.                            *)
LEMMA EndBlockType ==
  ASSUME TypeOK, NEW e \in Exec, NEW o \in {"ok", "err"}, EndBlock(e, o)
  PROVE  /\ slots' \subseteq Background
         /\ marker' \in [Exec -> Nat]
         /\ ahead' \in [Exec -> SUBSET Exec]
         /\ pc' \in [Exec -> Steps]
         /\ report' \in [Exec -> {"none", "ok", "err"}]
  BY DEF EndBlock, TypeOK, Goto, Steps

LEMMA ReleaseType ==
  ASSUME TypeOK, NEW e \in Exec, Release(e)
  PROVE  gate' \in [Session -> Exec \cup {NoExec}]
  BY DEF Release, TypeOK

(* The fields keep their types.                                            *)
LEMMA TypeStep == TypeOK /\ KindsOK /\ EntriesOK /\ [Next]_vars => TypeOK'
  <1> SUFFICES ASSUME TypeOK, KindsOK, EntriesOK, [Next]_vars PROVE TypeOK'
    OBVIOUS
  <1>1. ASSUME NEW e \in Exec, Call(e) PROVE TypeOK'
    BY <1>1, RegistryAssumption DEF Call, Goto, vars, laneVars, cancelVars, TypeOK, Steps,
       KindsOK, EntriesOK, EntriesLive
  <1>2. ASSUME NEW e \in Exec, CompactCall(e) PROVE TypeOK'
    BY <1>2, RegistryAssumption DEF CompactCall, Goto, vars, laneVars, cancelVars,
       ActiveSession, TypeOK, Steps, KindsOK, EntriesOK, EntriesLive
  <1>3. ASSUME NEW e \in Exec, Register(e) PROVE TypeOK'
    <2>1. active' \in [Run -> Exec \cup {NoExec}]
      BY <1>3 DEF Register, TypeOK
    <2>2. ahead' \in [Exec -> SUBSET Exec] /\ late' \subseteq Exec
      BY <1>3 DEF Register, TypeOK
    <2>3. pc' \in [Exec -> Steps]
      BY <1>3 DEF Register, Goto, TypeOK, Steps
    <2>4. QED
      BY <1>3, <2>1, <2>2, <2>3 DEF Register, TypeOK, cancelVars
  <1>4. ASSUME NEW e \in Exec, Refuse(e) PROVE TypeOK'
    BY <1>4, RegistryAssumption DEF Refuse, Goto, vars, laneVars, cancelVars, TypeOK, Steps,
       KindsOK, EntriesOK, EntriesLive
  <1>5. ASSUME NEW e \in Exec, TakeSlot(e) PROVE TypeOK'
    BY <1>5, RegistryAssumption DEF TakeSlot, Goto, vars, laneVars, cancelVars, TypeOK, Steps,
       KindsOK, EntriesOK, EntriesLive
  <1>6. ASSUME NEW e \in Exec, EnterLane(e) PROVE TypeOK'
    <2>1. marker' \in [Exec -> Nat]
      BY <1>6, Members DEF EnterLane, Lane, TypeOK
    <2>2. ahead' \in [Exec -> SUBSET Exec]
      BY <1>6 DEF EnterLane, TypeOK
    <2>3. pc' \in [Exec -> Steps]
      BY <1>6 DEF EnterLane, Goto, TypeOK, Steps
    <2>4. QED
      BY <1>6, <2>1, <2>2, <2>3 DEF EnterLane, TypeOK, cancelVars
  <1>7. ASSUME NEW e \in Exec, Acquire(e) PROVE TypeOK'
    <2>1. gate' \in [Session -> Exec \cup {NoExec}]
      BY <1>7 DEF Acquire, TypeOK
    <2>2. ahead' \in [Exec -> SUBSET Exec]
      BY <1>7 DEF Acquire, TypeOK
    <2>3. pc' \in [Exec -> Steps]
      BY <1>7 DEF Acquire, Goto, TypeOK, Steps
    <2>4. QED
      BY <1>7, <2>1, <2>2, <2>3 DEF Acquire, TypeOK, cancelVars
  <1>8. ASSUME NEW e \in Exec, Leave(e) PROVE TypeOK'
    BY <1>8, RegistryAssumption DEF Leave, Goto, vars, laneVars, cancelVars, EndBlock,
       IsCurrent, Lane, TypeOK, Steps, KindsOK, EntriesOK, EntriesLive
  <1>9. ASSUME NEW e \in Exec, Recheck(e) PROVE TypeOK'
    BY <1>9, RegistryAssumption DEF Recheck, Goto, vars, laneVars, cancelVars, EndBlock,
       Release, IsCurrent, Lane, TypeOK, Steps, KindsOK, EntriesOK, EntriesLive
  <1>10. ASSUME NEW e \in Exec, Begin(e) PROVE TypeOK'
    BY <1>10, RegistryAssumption DEF Begin, Goto, vars, laneVars, cancelVars, TypeOK, Steps,
       KindsOK, EntriesOK, EntriesLive
  <1>11. ASSUME NEW e \in Exec, BeginFails(e) PROVE TypeOK'
    BY <1>11, EndBlockType, ReleaseType DEF BeginFails, TypeOK, cancelVars
  <1>12. ASSUME NEW e \in Exec, Exit(e) PROVE TypeOK'
    BY <1>12, EndBlockType, ReleaseType DEF Exit, TypeOK, cancelVars
  <1>13. ASSUME NEW e \in Exec, Remove(e) PROVE TypeOK'
    <2>1. active' \in [Run -> Exec \cup {NoExec}]
      BY <1>13 DEF Remove, TypeOK
    <2>2. sweep' \subseteq Run
      BY <1>13, Members DEF Remove, Parents, TypeOK, KindsOK
    <2>3. pc' \in [Exec -> Steps]
      BY <1>13 DEF Remove, Goto, TypeOK, Steps
    <2>4. QED
      BY <1>13, <2>1, <2>2, <2>3 DEF Remove, TypeOK, laneVars
  <1>14. ASSUME NEW e \in Exec, Watch(e) PROVE TypeOK'
    BY <1>14, RegistryAssumption DEF Watch, Goto, vars, laneVars, cancelVars, IsCurrent, Lane,
       TypeOK, Steps, KindsOK, EntriesOK, EntriesLive
  <1>15. ASSUME NEW e \in Exec, TurnEnds(e) PROVE TypeOK'
    BY <1>15, RegistryAssumption DEF TurnEnds, Goto, vars, laneVars, cancelVars, TypeOK, Steps,
       KindsOK, EntriesOK, EntriesLive
  <1>16. ASSUME NEW e \in Exec, CompactEnds(e) PROVE TypeOK'
    BY <1>16, EndBlockType, ReleaseType DEF CompactEnds, TypeOK, cancelVars
  <1>17. ASSUME NEW e \in Exec, LeakEntry(e) PROVE TypeOK'
    BY <1>17, RegistryAssumption DEF LeakEntry, Goto, vars, laneVars, cancelVars, TypeOK, Steps,
       KindsOK, EntriesOK, EntriesLive
  <1>18. ASSUME NEW e \in Exec, Deliver(e) PROVE TypeOK'
    BY <1>18, RegistryAssumption DEF Deliver, Goto, vars, laneVars, cancelVars, CancelEntry,
       TypeOK, Steps, KindsOK, EntriesOK, EntriesLive
  <1>19. ASSUME NEW e \in Exec, Reset(e) PROVE TypeOK'
    BY <1>19, RegistryAssumption DEF Reset, Goto, vars, laneVars, cancelVars, Parents, TypeOK,
       Steps, KindsOK, EntriesOK, EntriesLive
  <1>20. ASSUME NEW r \in Run, Cancel(r) PROVE TypeOK'
    BY <1>20, RegistryAssumption DEF Cancel, Goto, vars, laneVars, cancelVars, CancelEntry,
       TypeOK, Steps, KindsOK, EntriesOK, EntriesLive
  <1>21. ASSUME NEW r \in Run, CloseRow(r) PROVE TypeOK'
    BY <1>21, RegistryAssumption DEF CloseRow, Goto, vars, laneVars, cancelVars, TypeOK, Steps,
       KindsOK, EntriesOK, EntriesLive
  <1>22. ASSUME NEW r \in Run, Sweep(r) PROVE TypeOK'
    BY <1>22, RegistryAssumption DEF Sweep, Goto, vars, laneVars, cancelVars, TypeOK, Steps,
       KindsOK, EntriesOK, EntriesLive
  <1>23. CASE UNCHANGED vars
    BY <1>23 DEF vars, laneVars, cancelVars, TypeOK, Steps, KindsOK, EntriesOK, EntriesLive
  <1>24. QED
    BY <1>1, <1>2, <1>3, <1>4, <1>5, <1>6, <1>7, <1>8, <1>9, <1>10, <1>11, <1>12, <1>13, <1>14,
       <1>15, <1>16, <1>17, <1>18, <1>19, <1>20, <1>21, <1>22, <1>23 DEF Next, ExecStep

LEMMA KindsStep == TypeOK /\ KindsOK /\ SlotsOK /\ [Next]_vars => KindsOK'
  <1> SUFFICES ASSUME TypeOK, KindsOK, SlotsOK, [Next]_vars PROVE KindsOK'
    OBVIOUS
  <1>1. ASSUME NEW e \in Exec, Call(e) PROVE KindsOK'
    BY <1>1, RegistryAssumption DEF Call, Goto, vars, laneVars, cancelVars, TypeOK, Steps,
       KindsOK, SlotsOK, SlotsAccounted, InLane
  <1>2. ASSUME NEW e \in Exec, CompactCall(e) PROVE KindsOK'
    BY <1>2, RegistryAssumption DEF CompactCall, Goto, vars, laneVars, cancelVars,
       ActiveSession, TypeOK, Steps, KindsOK, SlotsOK, SlotsAccounted, InLane
  <1>3. ASSUME NEW e \in Exec, Register(e) PROVE KindsOK'
    BY <1>3, RegistryAssumption DEF Register, Goto, vars, laneVars, cancelVars, TypeOK, Steps,
       KindsOK, SlotsOK, SlotsAccounted, InLane
  <1>4. ASSUME NEW e \in Exec, Refuse(e) PROVE KindsOK'
    BY <1>4, RegistryAssumption DEF Refuse, Goto, vars, laneVars, cancelVars, TypeOK, Steps,
       KindsOK, SlotsOK, SlotsAccounted, InLane
  <1>5. ASSUME NEW e \in Exec, TakeSlot(e) PROVE KindsOK'
    BY <1>5, RegistryAssumption DEF TakeSlot, Goto, vars, laneVars, cancelVars, TypeOK, Steps,
       KindsOK, SlotsOK, SlotsAccounted, InLane
  <1>6. ASSUME NEW e \in Exec, EnterLane(e) PROVE KindsOK'
    BY <1>6, RegistryAssumption DEF EnterLane, Goto, vars, laneVars, cancelVars, Lane, TypeOK,
       Steps, KindsOK, SlotsOK, SlotsAccounted, InLane
  <1>7. ASSUME NEW e \in Exec, Acquire(e) PROVE KindsOK'
    BY <1>7, RegistryAssumption DEF Acquire, Goto, vars, laneVars, cancelVars, TypeOK, Steps,
       KindsOK, SlotsOK, SlotsAccounted, InLane
  <1>8. ASSUME NEW e \in Exec, Leave(e) PROVE KindsOK'
    BY <1>8, RegistryAssumption DEF Leave, Goto, vars, laneVars, cancelVars, EndBlock,
       IsCurrent, Lane, TypeOK, Steps, KindsOK, SlotsOK, SlotsAccounted, InLane
  <1>9. ASSUME NEW e \in Exec, Recheck(e) PROVE KindsOK'
    BY <1>9, RegistryAssumption DEF Recheck, Goto, vars, laneVars, cancelVars, EndBlock,
       Release, IsCurrent, Lane, TypeOK, Steps, KindsOK, SlotsOK, SlotsAccounted, InLane
  <1>10. ASSUME NEW e \in Exec, Begin(e) PROVE KindsOK'
    BY <1>10, RegistryAssumption DEF Begin, Goto, vars, laneVars, cancelVars, TypeOK, Steps,
       KindsOK, SlotsOK, SlotsAccounted, InLane
  <1>11. ASSUME NEW e \in Exec, BeginFails(e) PROVE KindsOK'
    BY <1>11, RegistryAssumption DEF BeginFails, Goto, vars, laneVars, cancelVars, EndBlock,
       Release, TypeOK, Steps, KindsOK, SlotsOK, SlotsAccounted, InLane
  <1>12. ASSUME NEW e \in Exec, Exit(e) PROVE KindsOK'
    BY <1>12, RegistryAssumption DEF Exit, Goto, vars, laneVars, cancelVars, EndBlock, Release,
       IsCurrent, Lane, TypeOK, Steps, KindsOK, SlotsOK, SlotsAccounted, InLane
  <1>13. ASSUME NEW e \in Exec, Remove(e) PROVE KindsOK'
    BY <1>13, RegistryAssumption DEF Remove, Goto, vars, laneVars, cancelVars, Parents, TypeOK,
       Steps, KindsOK, SlotsOK, SlotsAccounted, InLane
  <1>14. ASSUME NEW e \in Exec, Watch(e) PROVE KindsOK'
    BY <1>14, RegistryAssumption DEF Watch, Goto, vars, laneVars, cancelVars, IsCurrent, Lane,
       TypeOK, Steps, KindsOK, SlotsOK, SlotsAccounted, InLane
  <1>15. ASSUME NEW e \in Exec, TurnEnds(e) PROVE KindsOK'
    BY <1>15, RegistryAssumption DEF TurnEnds, Goto, vars, laneVars, cancelVars, TypeOK, Steps,
       KindsOK, SlotsOK, SlotsAccounted, InLane
  <1>16. ASSUME NEW e \in Exec, CompactEnds(e) PROVE KindsOK'
    BY <1>16, RegistryAssumption DEF CompactEnds, Goto, vars, laneVars, cancelVars, EndBlock,
       Release, TypeOK, Steps, KindsOK, SlotsOK, SlotsAccounted, InLane
  <1>17. ASSUME NEW e \in Exec, LeakEntry(e) PROVE KindsOK'
    BY <1>17, RegistryAssumption DEF LeakEntry, Goto, vars, laneVars, cancelVars, TypeOK, Steps,
       KindsOK, SlotsOK, SlotsAccounted, InLane
  <1>18. ASSUME NEW e \in Exec, Deliver(e) PROVE KindsOK'
    BY <1>18, RegistryAssumption DEF Deliver, Goto, vars, laneVars, cancelVars, CancelEntry,
       TypeOK, Steps, KindsOK, SlotsOK, SlotsAccounted, InLane
  <1>19. ASSUME NEW e \in Exec, Reset(e) PROVE KindsOK'
    BY <1>19, RegistryAssumption DEF Reset, Goto, vars, laneVars, cancelVars, Parents, TypeOK,
       Steps, KindsOK, SlotsOK, SlotsAccounted, InLane
  <1>20. ASSUME NEW r \in Run, Cancel(r) PROVE KindsOK'
    BY <1>20, RegistryAssumption DEF Cancel, Goto, vars, laneVars, cancelVars, CancelEntry,
       TypeOK, Steps, KindsOK, SlotsOK, SlotsAccounted, InLane
  <1>21. ASSUME NEW r \in Run, CloseRow(r) PROVE KindsOK'
    BY <1>21, RegistryAssumption DEF CloseRow, Goto, vars, laneVars, cancelVars, TypeOK, Steps,
       KindsOK, SlotsOK, SlotsAccounted, InLane
  <1>22. ASSUME NEW r \in Run, Sweep(r) PROVE KindsOK'
    BY <1>22, RegistryAssumption DEF Sweep, Goto, vars, laneVars, cancelVars, TypeOK, Steps,
       KindsOK, SlotsOK, SlotsAccounted, InLane
  <1>23. CASE UNCHANGED vars
    BY <1>23 DEF vars, laneVars, cancelVars, TypeOK, Steps, KindsOK, SlotsOK, SlotsAccounted,
       InLane
  <1>24. QED
    BY <1>1, <1>2, <1>3, <1>4, <1>5, <1>6, <1>7, <1>8, <1>9, <1>10, <1>11, <1>12, <1>13, <1>14,
       <1>15, <1>16, <1>17, <1>18, <1>19, <1>20, <1>21, <1>22, <1>23 DEF Next, ExecStep

LEMMA EntriesStep == TypeOK /\ KindsOK /\ EntriesOK /\ [Next]_vars => EntriesOK'
  <1> SUFFICES ASSUME TypeOK, KindsOK, EntriesOK, [Next]_vars PROVE EntriesOK'
    OBVIOUS
  <1>1. ASSUME NEW e \in Exec, Call(e) PROVE EntriesOK'
    BY <1>1, RegistryAssumption DEF Call, Goto, vars, laneVars, cancelVars, TypeOK, Steps,
       KindsOK, EntriesOK, EntriesLive, OnTheWay
  <1>2. ASSUME NEW e \in Exec, CompactCall(e) PROVE EntriesOK'
    BY <1>2, RegistryAssumption DEF CompactCall, Goto, vars, laneVars, cancelVars,
       ActiveSession, TypeOK, Steps, KindsOK, EntriesOK, EntriesLive, OnTheWay
  <1>3. ASSUME NEW e \in Exec, Register(e) PROVE EntriesOK'
    <2>1. /\ e \notin Compactors /\ RunOf[e] \in Run
          /\ active' = [active EXCEPT ![RunOf[e]] = e]
          /\ pc' \in [Exec -> Steps] /\ pc'[e] \in {"slot", "enter"}
          /\ \A x \in Exec \ {e} : pc'[x] = pc[x]
      BY <1>3, Members DEF Register, Goto, TypeOK, Steps, KindsOK
    <2>2. \A x \in Exec \ Compactors : pc'[x] \in OnTheWay => active'[RunOf[x]] = x
      BY <1>3, <2>1, RegistryAssumption DEF Register, EntriesOK, OnTheWay, TypeOK
    <2>3. EntriesLive'
      BY <1>3, <2>1, RegistryAssumption DEF Register, EntriesOK, EntriesLive, TypeOK
    <2>4. QED
      BY <2>2, <2>3 DEF EntriesOK
  <1>4. ASSUME NEW e \in Exec, Refuse(e) PROVE EntriesOK'
    BY <1>4, RegistryAssumption DEF Refuse, Goto, vars, laneVars, cancelVars, TypeOK, Steps,
       KindsOK, EntriesOK, EntriesLive, OnTheWay
  <1>5. ASSUME NEW e \in Exec, TakeSlot(e) PROVE EntriesOK'
    BY <1>5, RegistryAssumption DEF TakeSlot, Goto, vars, laneVars, cancelVars, TypeOK, Steps,
       KindsOK, EntriesOK, EntriesLive, OnTheWay
  <1>6. ASSUME NEW e \in Exec, EnterLane(e) PROVE EntriesOK'
    BY <1>6, RegistryAssumption DEF EnterLane, Goto, vars, laneVars, cancelVars, Lane, TypeOK,
       Steps, KindsOK, EntriesOK, EntriesLive, OnTheWay
  <1>7. ASSUME NEW e \in Exec, Acquire(e) PROVE EntriesOK'
    BY <1>7, RegistryAssumption DEF Acquire, Goto, vars, laneVars, cancelVars, TypeOK, Steps,
       KindsOK, EntriesOK, EntriesLive, OnTheWay
  <1>8. ASSUME NEW e \in Exec, Leave(e) PROVE EntriesOK'
    BY <1>8, RegistryAssumption DEF Leave, Goto, vars, laneVars, cancelVars, EndBlock,
       IsCurrent, Lane, TypeOK, Steps, KindsOK, EntriesOK, EntriesLive, OnTheWay
  <1>9. ASSUME NEW e \in Exec, Recheck(e) PROVE EntriesOK'
    BY <1>9, RegistryAssumption DEF Recheck, Goto, vars, laneVars, cancelVars, EndBlock,
       Release, IsCurrent, Lane, TypeOK, Steps, KindsOK, EntriesOK, EntriesLive, OnTheWay
  <1>10. ASSUME NEW e \in Exec, Begin(e) PROVE EntriesOK'
    BY <1>10, RegistryAssumption DEF Begin, Goto, vars, laneVars, cancelVars, TypeOK, Steps,
       KindsOK, EntriesOK, EntriesLive, OnTheWay
  <1>11. ASSUME NEW e \in Exec, BeginFails(e) PROVE EntriesOK'
    BY <1>11, RegistryAssumption DEF BeginFails, Goto, vars, laneVars, cancelVars, EndBlock,
       Release, TypeOK, Steps, KindsOK, EntriesOK, EntriesLive, OnTheWay
  <1>12. ASSUME NEW e \in Exec, Exit(e) PROVE EntriesOK'
    BY <1>12, RegistryAssumption DEF Exit, Goto, vars, laneVars, cancelVars, EndBlock, Release,
       IsCurrent, Lane, TypeOK, Steps, KindsOK, EntriesOK, EntriesLive, OnTheWay
  <1>13. ASSUME NEW e \in Exec, Remove(e) PROVE EntriesOK'
    BY <1>13, RegistryAssumption DEF Remove, Goto, vars, laneVars, cancelVars, Parents, TypeOK,
       Steps, KindsOK, EntriesOK, EntriesLive, OnTheWay
  <1>14. ASSUME NEW e \in Exec, Watch(e) PROVE EntriesOK'
    BY <1>14, RegistryAssumption DEF Watch, Goto, vars, laneVars, cancelVars, IsCurrent, Lane,
       TypeOK, Steps, KindsOK, EntriesOK, EntriesLive, OnTheWay
  <1>15. ASSUME NEW e \in Exec, TurnEnds(e) PROVE EntriesOK'
    BY <1>15, RegistryAssumption DEF TurnEnds, Goto, vars, laneVars, cancelVars, TypeOK, Steps,
       KindsOK, EntriesOK, EntriesLive, OnTheWay
  <1>16. ASSUME NEW e \in Exec, CompactEnds(e) PROVE EntriesOK'
    BY <1>16, RegistryAssumption DEF CompactEnds, Goto, vars, laneVars, cancelVars, EndBlock,
       Release, TypeOK, Steps, KindsOK, EntriesOK, EntriesLive, OnTheWay
  <1>17. ASSUME NEW e \in Exec, LeakEntry(e) PROVE EntriesOK'
    BY <1>17, RegistryAssumption DEF LeakEntry, Goto, vars, laneVars, cancelVars, TypeOK, Steps,
       KindsOK, EntriesOK, EntriesLive, OnTheWay
  <1>18. ASSUME NEW e \in Exec, Deliver(e) PROVE EntriesOK'
    BY <1>18, RegistryAssumption DEF Deliver, Goto, vars, laneVars, cancelVars, CancelEntry,
       TypeOK, Steps, KindsOK, EntriesOK, EntriesLive, OnTheWay
  <1>19. ASSUME NEW e \in Exec, Reset(e) PROVE EntriesOK'
    BY <1>19, RegistryAssumption DEF Reset, Goto, vars, laneVars, cancelVars, Parents, TypeOK,
       Steps, KindsOK, EntriesOK, EntriesLive, OnTheWay
  <1>20. ASSUME NEW r \in Run, Cancel(r) PROVE EntriesOK'
    BY <1>20, RegistryAssumption DEF Cancel, Goto, vars, laneVars, cancelVars, CancelEntry,
       TypeOK, Steps, KindsOK, EntriesOK, EntriesLive, OnTheWay
  <1>21. ASSUME NEW r \in Run, CloseRow(r) PROVE EntriesOK'
    BY <1>21, RegistryAssumption DEF CloseRow, Goto, vars, laneVars, cancelVars, TypeOK, Steps,
       KindsOK, EntriesOK, EntriesLive, OnTheWay
  <1>22. ASSUME NEW r \in Run, Sweep(r) PROVE EntriesOK'
    BY <1>22, RegistryAssumption DEF Sweep, Goto, vars, laneVars, cancelVars, TypeOK, Steps,
       KindsOK, EntriesOK, EntriesLive, OnTheWay
  <1>23. CASE UNCHANGED vars
    BY <1>23 DEF vars, laneVars, cancelVars, TypeOK, Steps, KindsOK, EntriesOK, EntriesLive,
       OnTheWay
  <1>24. QED
    BY <1>1, <1>2, <1>3, <1>4, <1>5, <1>6, <1>7, <1>8, <1>9, <1>10, <1>11, <1>12, <1>13, <1>14,
       <1>15, <1>16, <1>17, <1>18, <1>19, <1>20, <1>21, <1>22, <1>23 DEF Next, ExecStep

LEMMA GatesStep == TypeOK /\ KindsOK /\ GatesOK /\ [Next]_vars => GatesOK'
  <1> SUFFICES ASSUME TypeOK, KindsOK, GatesOK, [Next]_vars PROVE GatesOK'
    OBVIOUS
  <1>1. ASSUME NEW e \in Exec, Call(e) PROVE GatesOK'
    BY <1>1, RegistryAssumption DEF Call, Goto, vars, laneVars, cancelVars, TypeOK, Steps,
       KindsOK, GatesOK, HoldsGate
  <1>2. ASSUME NEW e \in Exec, CompactCall(e) PROVE GatesOK'
    BY <1>2, RegistryAssumption DEF CompactCall, Goto, vars, laneVars, cancelVars,
       ActiveSession, TypeOK, Steps, KindsOK, GatesOK, HoldsGate
  <1>3. ASSUME NEW e \in Exec, Register(e) PROVE GatesOK'
    BY <1>3, RegistryAssumption DEF Register, Goto, vars, laneVars, cancelVars, TypeOK, Steps,
       KindsOK, GatesOK, HoldsGate
  <1>4. ASSUME NEW e \in Exec, Refuse(e) PROVE GatesOK'
    BY <1>4, RegistryAssumption DEF Refuse, Goto, vars, laneVars, cancelVars, TypeOK, Steps,
       KindsOK, GatesOK, HoldsGate
  <1>5. ASSUME NEW e \in Exec, TakeSlot(e) PROVE GatesOK'
    BY <1>5, RegistryAssumption DEF TakeSlot, Goto, vars, laneVars, cancelVars, TypeOK, Steps,
       KindsOK, GatesOK, HoldsGate
  <1>6. ASSUME NEW e \in Exec, EnterLane(e) PROVE GatesOK'
    BY <1>6, RegistryAssumption DEF EnterLane, Goto, vars, laneVars, cancelVars, Lane, TypeOK,
       Steps, KindsOK, GatesOK, HoldsGate
  <1>7. ASSUME NEW e \in Exec, Acquire(e) PROVE GatesOK'
    <2>1. /\ gate' = [gate EXCEPT ![SessionOf[e]] = e] /\ SessionOf[e] \in Session
          /\ gate[SessionOf[e]] = NoExec
          /\ pc'[e] = "gated" /\ \A x \in Exec \ {e} : pc'[x] = pc[x]
      BY <1>7, Members DEF Acquire, Goto, TypeOK
    <2>2. \A x \in Exec : pc'[x] \in HoldsGate => gate'[SessionOf[x]] = x
      BY <2>1, Members, RegistryAssumption DEF GatesOK, HoldsGate, TypeOK
    <2>3. \A s \in Session : gate'[s] # NoExec =>
            SessionOf[gate'[s]] = s /\ pc'[gate'[s]] \in HoldsGate
      BY <2>1, RegistryAssumption DEF GatesOK, HoldsGate, TypeOK
    <2>4. QED
      BY <2>2, <2>3 DEF GatesOK
  <1>8. ASSUME NEW e \in Exec, Leave(e) PROVE GatesOK'
    BY <1>8, RegistryAssumption DEF Leave, Goto, vars, laneVars, cancelVars, EndBlock,
       IsCurrent, Lane, TypeOK, Steps, KindsOK, GatesOK, HoldsGate
  <1>9. ASSUME NEW e \in Exec, Recheck(e) PROVE GatesOK'
    BY <1>9, RegistryAssumption DEF Recheck, Goto, vars, laneVars, cancelVars, EndBlock,
       Release, IsCurrent, Lane, TypeOK, Steps, KindsOK, GatesOK, HoldsGate
  <1>10. ASSUME NEW e \in Exec, Begin(e) PROVE GatesOK'
    BY <1>10, RegistryAssumption DEF Begin, Goto, vars, laneVars, cancelVars, TypeOK, Steps,
       KindsOK, GatesOK, HoldsGate
  <1>11. ASSUME NEW e \in Exec, BeginFails(e) PROVE GatesOK'
    BY <1>11, RegistryAssumption DEF BeginFails, Goto, vars, laneVars, cancelVars, EndBlock,
       Release, TypeOK, Steps, KindsOK, GatesOK, HoldsGate
  <1>12. ASSUME NEW e \in Exec, Exit(e) PROVE GatesOK'
    BY <1>12, RegistryAssumption DEF Exit, Goto, vars, laneVars, cancelVars, EndBlock, Release,
       IsCurrent, Lane, TypeOK, Steps, KindsOK, GatesOK, HoldsGate
  <1>13. ASSUME NEW e \in Exec, Remove(e) PROVE GatesOK'
    BY <1>13, RegistryAssumption DEF Remove, Goto, vars, laneVars, cancelVars, Parents, TypeOK,
       Steps, KindsOK, GatesOK, HoldsGate
  <1>14. ASSUME NEW e \in Exec, Watch(e) PROVE GatesOK'
    BY <1>14, RegistryAssumption DEF Watch, Goto, vars, laneVars, cancelVars, IsCurrent, Lane,
       TypeOK, Steps, KindsOK, GatesOK, HoldsGate
  <1>15. ASSUME NEW e \in Exec, TurnEnds(e) PROVE GatesOK'
    BY <1>15, RegistryAssumption DEF TurnEnds, Goto, vars, laneVars, cancelVars, TypeOK, Steps,
       KindsOK, GatesOK, HoldsGate
  <1>16. ASSUME NEW e \in Exec, CompactEnds(e) PROVE GatesOK'
    BY <1>16, RegistryAssumption DEF CompactEnds, Goto, vars, laneVars, cancelVars, EndBlock,
       Release, TypeOK, Steps, KindsOK, GatesOK, HoldsGate
  <1>17. ASSUME NEW e \in Exec, LeakEntry(e) PROVE GatesOK'
    BY <1>17, RegistryAssumption DEF LeakEntry, Goto, vars, laneVars, cancelVars, TypeOK, Steps,
       KindsOK, GatesOK, HoldsGate
  <1>18. ASSUME NEW e \in Exec, Deliver(e) PROVE GatesOK'
    BY <1>18, RegistryAssumption DEF Deliver, Goto, vars, laneVars, cancelVars, CancelEntry,
       TypeOK, Steps, KindsOK, GatesOK, HoldsGate
  <1>19. ASSUME NEW e \in Exec, Reset(e) PROVE GatesOK'
    BY <1>19, RegistryAssumption DEF Reset, Goto, vars, laneVars, cancelVars, Parents, TypeOK,
       Steps, KindsOK, GatesOK, HoldsGate
  <1>20. ASSUME NEW r \in Run, Cancel(r) PROVE GatesOK'
    BY <1>20, RegistryAssumption DEF Cancel, Goto, vars, laneVars, cancelVars, CancelEntry,
       TypeOK, Steps, KindsOK, GatesOK, HoldsGate
  <1>21. ASSUME NEW r \in Run, CloseRow(r) PROVE GatesOK'
    BY <1>21, RegistryAssumption DEF CloseRow, Goto, vars, laneVars, cancelVars, TypeOK, Steps,
       KindsOK, GatesOK, HoldsGate
  <1>22. ASSUME NEW r \in Run, Sweep(r) PROVE GatesOK'
    BY <1>22, RegistryAssumption DEF Sweep, Goto, vars, laneVars, cancelVars, TypeOK, Steps,
       KindsOK, GatesOK, HoldsGate
  <1>23. CASE UNCHANGED vars
    BY <1>23 DEF vars, laneVars, cancelVars, TypeOK, Steps, KindsOK, GatesOK, HoldsGate
  <1>24. QED
    BY <1>1, <1>2, <1>3, <1>4, <1>5, <1>6, <1>7, <1>8, <1>9, <1>10, <1>11, <1>12, <1>13, <1>14,
       <1>15, <1>16, <1>17, <1>18, <1>19, <1>20, <1>21, <1>22, <1>23 DEF Next, ExecStep

LEMMA FencesStep == TypeOK /\ KindsOK /\ FencesOK /\ [Next]_vars => FencesOK'
  <1> SUFFICES ASSUME TypeOK, KindsOK, FencesOK, [Next]_vars PROVE FencesOK'
    OBVIOUS
  <1>1. ASSUME NEW e \in Exec, Call(e) PROVE FencesOK'
    BY <1>1, RegistryAssumption DEF Call, Goto, vars, laneVars, cancelVars, TypeOK, Steps,
       KindsOK, FencesOK, Entered, Gone, InLane, Lane
  <1>2. ASSUME NEW e \in Exec, CompactCall(e) PROVE FencesOK'
    BY <1>2, RegistryAssumption DEF CompactCall, Goto, vars, laneVars, cancelVars,
       ActiveSession, TypeOK, Steps, KindsOK, FencesOK, Entered, Gone, InLane, Lane
  <1>3. ASSUME NEW e \in Exec, Register(e) PROVE FencesOK'
    BY <1>3, RegistryAssumption DEF Register, Goto, vars, laneVars, cancelVars, TypeOK, Steps,
       KindsOK, FencesOK, Entered, Gone, InLane, Lane
  <1>4. ASSUME NEW e \in Exec, Refuse(e) PROVE FencesOK'
    BY <1>4, RegistryAssumption DEF Refuse, Goto, vars, laneVars, cancelVars, TypeOK, Steps,
       KindsOK, FencesOK, Entered, Gone, InLane, Lane
  <1>5. ASSUME NEW e \in Exec, TakeSlot(e) PROVE FencesOK'
    BY <1>5, RegistryAssumption DEF TakeSlot, Goto, vars, laneVars, cancelVars, TypeOK, Steps,
       KindsOK, FencesOK, Entered, Gone, InLane, Lane
  <1>6. ASSUME NEW e \in Exec, EnterLane(e) PROVE FencesOK'
    <2>1. /\ marker'[e] = Lane(e) /\ \A x \in Exec \ {e} : marker'[x] = marker[x]
          /\ pc[e] = "enter" /\ pc'[e] = "waiting" /\ \A x \in Exec \ {e} : pc'[x] = pc[x]
          /\ Lane(e) \in Nat /\ UNCHANGED <<epoch, report, stopped>>
      BY <1>6, Members DEF EnterLane, Goto, Lane, TypeOK
    <2>2. QED
      BY <2>1 DEF FencesOK, Entered, Gone, InLane, Lane
  <1>7. ASSUME NEW e \in Exec, Acquire(e) PROVE FencesOK'
    BY <1>7, RegistryAssumption DEF Acquire, Goto, vars, laneVars, cancelVars, TypeOK, Steps,
       KindsOK, FencesOK, Entered, Gone, InLane, Lane
  <1>8. ASSUME NEW e \in Exec, Leave(e) PROVE FencesOK'
    BY <1>8, RegistryAssumption DEF Leave, Goto, vars, laneVars, cancelVars, EndBlock,
       IsCurrent, Lane, TypeOK, Steps, KindsOK, FencesOK, Entered, Gone, InLane, Lane
  <1>9. ASSUME NEW e \in Exec, Recheck(e) PROVE FencesOK'
    BY <1>9, RegistryAssumption DEF Recheck, Goto, vars, laneVars, cancelVars, EndBlock,
       Release, IsCurrent, Lane, TypeOK, Steps, KindsOK, FencesOK, Entered, Gone, InLane, Lane
  <1>10. ASSUME NEW e \in Exec, Begin(e) PROVE FencesOK'
    BY <1>10, RegistryAssumption DEF Begin, Goto, vars, laneVars, cancelVars, TypeOK, Steps,
       KindsOK, FencesOK, Entered, Gone, InLane, Lane
  <1>11. ASSUME NEW e \in Exec, BeginFails(e) PROVE FencesOK'
    BY <1>11, RegistryAssumption DEF BeginFails, Goto, vars, laneVars, cancelVars, EndBlock,
       Release, TypeOK, Steps, KindsOK, FencesOK, Entered, Gone, InLane, Lane
  <1>12. ASSUME NEW e \in Exec, Exit(e) PROVE FencesOK'
    BY <1>12, RegistryAssumption DEF Exit, Goto, vars, laneVars, cancelVars, EndBlock, Release,
       IsCurrent, Lane, TypeOK, Steps, KindsOK, FencesOK, Entered, Gone, InLane, Lane
  <1>13. ASSUME NEW e \in Exec, Remove(e) PROVE FencesOK'
    BY <1>13, RegistryAssumption DEF Remove, Goto, vars, laneVars, cancelVars, Parents, TypeOK,
       Steps, KindsOK, FencesOK, Entered, Gone, InLane, Lane
  <1>14. ASSUME NEW e \in Exec, Watch(e) PROVE FencesOK'
    BY <1>14, RegistryAssumption DEF Watch, Goto, vars, laneVars, cancelVars, IsCurrent, Lane,
       TypeOK, Steps, KindsOK, FencesOK, Entered, Gone, InLane, Lane
  <1>15. ASSUME NEW e \in Exec, TurnEnds(e) PROVE FencesOK'
    BY <1>15, RegistryAssumption DEF TurnEnds, Goto, vars, laneVars, cancelVars, TypeOK, Steps,
       KindsOK, FencesOK, Entered, Gone, InLane, Lane
  <1>16. ASSUME NEW e \in Exec, CompactEnds(e) PROVE FencesOK'
    BY <1>16, RegistryAssumption DEF CompactEnds, Goto, vars, laneVars, cancelVars, EndBlock,
       Release, TypeOK, Steps, KindsOK, FencesOK, Entered, Gone, InLane, Lane
  <1>17. ASSUME NEW e \in Exec, LeakEntry(e) PROVE FencesOK'
    BY <1>17, RegistryAssumption DEF LeakEntry, Goto, vars, laneVars, cancelVars, TypeOK, Steps,
       KindsOK, FencesOK, Entered, Gone, InLane, Lane
  <1>18. ASSUME NEW e \in Exec, Deliver(e) PROVE FencesOK'
    BY <1>18, RegistryAssumption DEF Deliver, Goto, vars, laneVars, cancelVars, CancelEntry,
       TypeOK, Steps, KindsOK, FencesOK, Entered, Gone, InLane, Lane
  <1>19. ASSUME NEW e \in Exec, Reset(e) PROVE FencesOK'
    BY <1>19, RegistryAssumption DEF Reset, Goto, vars, laneVars, cancelVars, Parents, TypeOK,
       Steps, KindsOK, FencesOK, Entered, Gone, InLane, Lane
  <1>20. ASSUME NEW r \in Run, Cancel(r) PROVE FencesOK'
    BY <1>20, RegistryAssumption DEF Cancel, Goto, vars, laneVars, cancelVars, CancelEntry,
       TypeOK, Steps, KindsOK, FencesOK, Entered, Gone, InLane, Lane
  <1>21. ASSUME NEW r \in Run, CloseRow(r) PROVE FencesOK'
    BY <1>21, RegistryAssumption DEF CloseRow, Goto, vars, laneVars, cancelVars, TypeOK, Steps,
       KindsOK, FencesOK, Entered, Gone, InLane, Lane
  <1>22. ASSUME NEW r \in Run, Sweep(r) PROVE FencesOK'
    BY <1>22, RegistryAssumption DEF Sweep, Goto, vars, laneVars, cancelVars, TypeOK, Steps,
       KindsOK, FencesOK, Entered, Gone, InLane, Lane
  <1>23. CASE UNCHANGED vars
    BY <1>23 DEF vars, laneVars, cancelVars, TypeOK, Steps, KindsOK, FencesOK, Entered, Gone,
       InLane, Lane
  <1>24. QED
    BY <1>1, <1>2, <1>3, <1>4, <1>5, <1>6, <1>7, <1>8, <1>9, <1>10, <1>11, <1>12, <1>13, <1>14,
       <1>15, <1>16, <1>17, <1>18, <1>19, <1>20, <1>21, <1>22, <1>23 DEF Next, ExecStep

LEMMA ChildrenStep == TypeOK /\ KindsOK /\ EntriesOK /\ ChildrenFollow /\ [Next]_vars => ChildrenFollow'
  <1> SUFFICES ASSUME TypeOK, KindsOK, EntriesOK, ChildrenFollow, [Next]_vars PROVE ChildrenFollow'
    OBVIOUS
  <1>1. ASSUME NEW e \in Exec, Call(e) PROVE ChildrenFollow'
    BY <1>1, RegistryAssumption DEF Call, Goto, vars, laneVars, cancelVars, TypeOK, Steps,
       KindsOK, EntriesOK, EntriesLive, OnTheWay, ChildrenFollow
  <1>2. ASSUME NEW e \in Exec, CompactCall(e) PROVE ChildrenFollow'
    BY <1>2, RegistryAssumption DEF CompactCall, Goto, vars, laneVars, cancelVars,
       ActiveSession, TypeOK, Steps, KindsOK, EntriesOK, EntriesLive, OnTheWay, ChildrenFollow
  <1>3. ASSUME NEW e \in Exec, Register(e) PROVE ChildrenFollow'
    BY <1>3, RegistryAssumption DEF Register, Goto, vars, laneVars, cancelVars, TypeOK, Steps,
       KindsOK, EntriesOK, EntriesLive, OnTheWay, ChildrenFollow
  <1>4. ASSUME NEW e \in Exec, Refuse(e) PROVE ChildrenFollow'
    BY <1>4, RegistryAssumption DEF Refuse, Goto, vars, laneVars, cancelVars, TypeOK, Steps,
       KindsOK, EntriesOK, EntriesLive, OnTheWay, ChildrenFollow
  <1>5. ASSUME NEW e \in Exec, TakeSlot(e) PROVE ChildrenFollow'
    BY <1>5, RegistryAssumption DEF TakeSlot, Goto, vars, laneVars, cancelVars, TypeOK, Steps,
       KindsOK, EntriesOK, EntriesLive, OnTheWay, ChildrenFollow
  <1>6. ASSUME NEW e \in Exec, EnterLane(e) PROVE ChildrenFollow'
    BY <1>6, RegistryAssumption DEF EnterLane, Goto, vars, laneVars, cancelVars, Lane, TypeOK,
       Steps, KindsOK, EntriesOK, EntriesLive, OnTheWay, ChildrenFollow
  <1>7. ASSUME NEW e \in Exec, Acquire(e) PROVE ChildrenFollow'
    BY <1>7, RegistryAssumption DEF Acquire, Goto, vars, laneVars, cancelVars, TypeOK, Steps,
       KindsOK, EntriesOK, EntriesLive, OnTheWay, ChildrenFollow
  <1>8. ASSUME NEW e \in Exec, Leave(e) PROVE ChildrenFollow'
    BY <1>8, RegistryAssumption DEF Leave, Goto, vars, laneVars, cancelVars, EndBlock,
       IsCurrent, Lane, TypeOK, Steps, KindsOK, EntriesOK, EntriesLive, OnTheWay, ChildrenFollow
  <1>9. ASSUME NEW e \in Exec, Recheck(e) PROVE ChildrenFollow'
    BY <1>9, RegistryAssumption DEF Recheck, Goto, vars, laneVars, cancelVars, EndBlock,
       Release, IsCurrent, Lane, TypeOK, Steps, KindsOK, EntriesOK, EntriesLive, OnTheWay,
       ChildrenFollow
  <1>10. ASSUME NEW e \in Exec, Begin(e) PROVE ChildrenFollow'
    BY <1>10, RegistryAssumption DEF Begin, Goto, vars, laneVars, cancelVars, TypeOK, Steps,
       KindsOK, EntriesOK, EntriesLive, OnTheWay, ChildrenFollow
  <1>11. ASSUME NEW e \in Exec, BeginFails(e) PROVE ChildrenFollow'
    BY <1>11, RegistryAssumption DEF BeginFails, Goto, vars, laneVars, cancelVars, EndBlock,
       Release, TypeOK, Steps, KindsOK, EntriesOK, EntriesLive, OnTheWay, ChildrenFollow
  <1>12. ASSUME NEW e \in Exec, Exit(e) PROVE ChildrenFollow'
    BY <1>12, RegistryAssumption DEF Exit, Goto, vars, laneVars, cancelVars, EndBlock, Release,
       IsCurrent, Lane, TypeOK, Steps, KindsOK, EntriesOK, EntriesLive, OnTheWay, ChildrenFollow
  <1>13. ASSUME NEW e \in Exec, Remove(e) PROVE ChildrenFollow'
    BY <1>13, RegistryAssumption DEF Remove, Goto, vars, laneVars, cancelVars, Parents, TypeOK,
       Steps, KindsOK, EntriesOK, EntriesLive, OnTheWay, ChildrenFollow
  <1>14. ASSUME NEW e \in Exec, Watch(e) PROVE ChildrenFollow'
    BY <1>14, RegistryAssumption DEF Watch, Goto, vars, laneVars, cancelVars, IsCurrent, Lane,
       TypeOK, Steps, KindsOK, EntriesOK, EntriesLive, OnTheWay, ChildrenFollow
  <1>15. ASSUME NEW e \in Exec, TurnEnds(e) PROVE ChildrenFollow'
    BY <1>15, RegistryAssumption DEF TurnEnds, Goto, vars, laneVars, cancelVars, TypeOK, Steps,
       KindsOK, EntriesOK, EntriesLive, OnTheWay, ChildrenFollow
  <1>16. ASSUME NEW e \in Exec, CompactEnds(e) PROVE ChildrenFollow'
    BY <1>16, RegistryAssumption DEF CompactEnds, Goto, vars, laneVars, cancelVars, EndBlock,
       Release, TypeOK, Steps, KindsOK, EntriesOK, EntriesLive, OnTheWay, ChildrenFollow
  <1>17. ASSUME NEW e \in Exec, LeakEntry(e) PROVE ChildrenFollow'
    BY <1>17, RegistryAssumption DEF LeakEntry, Goto, vars, laneVars, cancelVars, TypeOK, Steps,
       KindsOK, EntriesOK, EntriesLive, OnTheWay, ChildrenFollow
  <1>18. ASSUME NEW e \in Exec, Deliver(e) PROVE ChildrenFollow'
    BY <1>18, RegistryAssumption DEF Deliver, Goto, vars, laneVars, cancelVars, CancelEntry,
       TypeOK, Steps, KindsOK, EntriesOK, EntriesLive, OnTheWay, ChildrenFollow
  <1>19. ASSUME NEW e \in Exec, Reset(e) PROVE ChildrenFollow'
    BY <1>19, RegistryAssumption DEF Reset, Goto, vars, laneVars, cancelVars, Parents, TypeOK,
       Steps, KindsOK, EntriesOK, EntriesLive, OnTheWay, ChildrenFollow
  <1>20. ASSUME NEW r \in Run, Cancel(r) PROVE ChildrenFollow'
    BY <1>20, RegistryAssumption DEF Cancel, Goto, vars, laneVars, cancelVars, CancelEntry,
       TypeOK, Steps, KindsOK, EntriesOK, EntriesLive, OnTheWay, ChildrenFollow
  <1>21. ASSUME NEW r \in Run, CloseRow(r) PROVE ChildrenFollow'
    BY <1>21, RegistryAssumption DEF CloseRow, Goto, vars, laneVars, cancelVars, TypeOK, Steps,
       KindsOK, EntriesOK, EntriesLive, OnTheWay, ChildrenFollow
  <1>22. ASSUME NEW r \in Run, Sweep(r) PROVE ChildrenFollow'
    BY <1>22, RegistryAssumption DEF Sweep, Goto, vars, laneVars, cancelVars, TypeOK, Steps,
       KindsOK, EntriesOK, EntriesLive, OnTheWay, ChildrenFollow
  <1>23. CASE UNCHANGED vars
    BY <1>23 DEF vars, laneVars, cancelVars, TypeOK, Steps, KindsOK, EntriesOK, EntriesLive,
       OnTheWay, ChildrenFollow
  <1>24. QED
    BY <1>1, <1>2, <1>3, <1>4, <1>5, <1>6, <1>7, <1>8, <1>9, <1>10, <1>11, <1>12, <1>13, <1>14,
       <1>15, <1>16, <1>17, <1>18, <1>19, <1>20, <1>21, <1>22, <1>23 DEF Next, ExecStep

(* A slot taken below the limit, given back or left alone.                 *)
LEMMA SlotsChange ==
  ASSUME IsFiniteSet(slots), Cardinality(slots) <= Slots, NEW e,
         \/ slots' \in {slots, slots \ {e}}
         \/ slots' = slots \cup {e} /\ Cardinality(slots) < Slots
  PROVE  IsFiniteSet(slots') /\ Cardinality(slots') <= Slots
  <1>1. Cardinality(slots) \in Nat /\ Slots \in Nat
    BY FS_CardinalityType, RegistryAssumption
  <1>2. /\ IsFiniteSet(slots \ {e})
        /\ Cardinality(slots \ {e}) \in {Cardinality(slots), Cardinality(slots) - 1}
    BY FS_RemoveElement
  <1>3. /\ IsFiniteSet(slots \cup {e})
        /\ Cardinality(slots \cup {e}) \in {Cardinality(slots), Cardinality(slots) + 1}
    BY FS_AddElement
  <1>4. CASE slots' \in {slots, slots \ {e}}
    <2>1. Cardinality(slots) - 1 <= Slots
      BY <1>1
    <2>2. QED
      BY <1>2, <1>4, <2>1
  <1>5. CASE slots' = slots \cup {e} /\ Cardinality(slots) < Slots
    <2>1. Cardinality(slots) <= Slots /\ Cardinality(slots) + 1 <= Slots
      BY <1>1, <1>5
    <2>2. QED
      BY <1>3, <1>5, <2>1
  <1>6. QED
    BY <1>4, <1>5

LEMMA SlotsStep == TypeOK /\ KindsOK /\ SlotsOK /\ [Next]_vars => SlotsOK'
  <1> SUFFICES ASSUME TypeOK, KindsOK, SlotsOK, [Next]_vars PROVE SlotsOK'
    OBVIOUS
  <1>1. ASSUME NEW e \in Exec, Call(e) PROVE SlotsOK'
    BY <1>1, RegistryAssumption DEF Call, Goto, vars, laneVars, cancelVars, TypeOK, Steps,
       KindsOK, SlotsOK, SlotsAccounted, InLane
  <1>2. ASSUME NEW e \in Exec, CompactCall(e) PROVE SlotsOK'
    BY <1>2, RegistryAssumption DEF CompactCall, Goto, vars, laneVars, cancelVars,
       ActiveSession, TypeOK, Steps, KindsOK, SlotsOK, SlotsAccounted, InLane
  <1>3. ASSUME NEW e \in Exec, Register(e) PROVE SlotsOK'
    BY <1>3, RegistryAssumption DEF Register, Goto, vars, laneVars, cancelVars, TypeOK, Steps,
       KindsOK, SlotsOK, SlotsAccounted, InLane
  <1>4. ASSUME NEW e \in Exec, Refuse(e) PROVE SlotsOK'
    BY <1>4, RegistryAssumption DEF Refuse, Goto, vars, laneVars, cancelVars, TypeOK, Steps,
       KindsOK, SlotsOK, SlotsAccounted, InLane
  <1>5. ASSUME NEW e \in Exec, TakeSlot(e) PROVE SlotsOK'
    <2>1. IsFiniteSet(slots') /\ Cardinality(slots') <= Slots
      BY <1>5, SlotsChange DEF TakeSlot, SlotsOK, SlotsAccounted
    <2>2. slots' = {x \in Background : pc'[x] \in {"enter"} \cup InLane}
      BY <1>5, RegistryAssumption DEF TakeSlot, Goto, TypeOK, Steps, KindsOK, SlotsOK,
         SlotsAccounted, InLane
    <2>3. QED
      BY <2>1, <2>2 DEF SlotsOK, SlotsAccounted
  <1>6. ASSUME NEW e \in Exec, EnterLane(e) PROVE SlotsOK'
    BY <1>6, RegistryAssumption DEF EnterLane, Goto, vars, laneVars, cancelVars, Lane, TypeOK,
       Steps, KindsOK, SlotsOK, SlotsAccounted, InLane
  <1>7. ASSUME NEW e \in Exec, Acquire(e) PROVE SlotsOK'
    BY <1>7, RegistryAssumption DEF Acquire, Goto, vars, laneVars, cancelVars, TypeOK, Steps,
       KindsOK, SlotsOK, SlotsAccounted, InLane
  <1>8. ASSUME NEW e \in Exec, Leave(e) PROVE SlotsOK'
    <2>1. IsFiniteSet(slots') /\ Cardinality(slots') <= Slots
      BY <1>8, SlotsChange DEF Leave, EndBlock, IsCurrent, Lane, SlotsOK, SlotsAccounted
    <2>2. slots' = {x \in Background : pc'[x] \in {"enter"} \cup InLane}
      BY <1>8, RegistryAssumption DEF Leave, Goto, EndBlock, IsCurrent, Lane, TypeOK, Steps,
         KindsOK, SlotsOK, SlotsAccounted, InLane
    <2>3. QED
      BY <2>1, <2>2 DEF SlotsOK, SlotsAccounted
  <1>9. ASSUME NEW e \in Exec, Recheck(e) PROVE SlotsOK'
    <2>1. IsFiniteSet(slots') /\ Cardinality(slots') <= Slots
      BY <1>9, SlotsChange DEF Recheck, EndBlock, Release, IsCurrent, Lane, SlotsOK,
         SlotsAccounted
    <2>2. slots' = {x \in Background : pc'[x] \in {"enter"} \cup InLane}
      BY <1>9, RegistryAssumption DEF Recheck, Goto, EndBlock, Release, IsCurrent, Lane, TypeOK,
         Steps, KindsOK, SlotsOK, SlotsAccounted, InLane
    <2>3. QED
      BY <2>1, <2>2 DEF SlotsOK, SlotsAccounted
  <1>10. ASSUME NEW e \in Exec, Begin(e) PROVE SlotsOK'
    BY <1>10, RegistryAssumption DEF Begin, Goto, vars, laneVars, cancelVars, TypeOK, Steps,
       KindsOK, SlotsOK, SlotsAccounted, InLane
  <1>11. ASSUME NEW e \in Exec, BeginFails(e) PROVE SlotsOK'
    <2>1. IsFiniteSet(slots') /\ Cardinality(slots') <= Slots
      BY <1>11, SlotsChange DEF BeginFails, EndBlock, Release, SlotsOK, SlotsAccounted
    <2>2. slots' = {x \in Background : pc'[x] \in {"enter"} \cup InLane}
      BY <1>11, RegistryAssumption DEF BeginFails, Goto, EndBlock, Release, TypeOK, Steps,
         KindsOK, SlotsOK, SlotsAccounted, InLane
    <2>3. QED
      BY <2>1, <2>2 DEF SlotsOK, SlotsAccounted
  <1>12. ASSUME NEW e \in Exec, Exit(e) PROVE SlotsOK'
    <2>1. IsFiniteSet(slots') /\ Cardinality(slots') <= Slots
      BY <1>12, SlotsChange DEF Exit, EndBlock, Release, IsCurrent, Lane, SlotsOK,
         SlotsAccounted
    <2>2. slots' = {x \in Background : pc'[x] \in {"enter"} \cup InLane}
      BY <1>12, RegistryAssumption DEF Exit, Goto, EndBlock, Release, IsCurrent, Lane, TypeOK,
         Steps, KindsOK, SlotsOK, SlotsAccounted, InLane
    <2>3. QED
      BY <2>1, <2>2 DEF SlotsOK, SlotsAccounted
  <1>13. ASSUME NEW e \in Exec, Remove(e) PROVE SlotsOK'
    BY <1>13, RegistryAssumption DEF Remove, Goto, vars, laneVars, cancelVars, Parents, TypeOK,
       Steps, KindsOK, SlotsOK, SlotsAccounted, InLane
  <1>14. ASSUME NEW e \in Exec, Watch(e) PROVE SlotsOK'
    BY <1>14, RegistryAssumption DEF Watch, Goto, vars, laneVars, cancelVars, IsCurrent, Lane,
       TypeOK, Steps, KindsOK, SlotsOK, SlotsAccounted, InLane
  <1>15. ASSUME NEW e \in Exec, TurnEnds(e) PROVE SlotsOK'
    BY <1>15, RegistryAssumption DEF TurnEnds, Goto, vars, laneVars, cancelVars, TypeOK, Steps,
       KindsOK, SlotsOK, SlotsAccounted, InLane
  <1>16. ASSUME NEW e \in Exec, CompactEnds(e) PROVE SlotsOK'
    <2>1. IsFiniteSet(slots') /\ Cardinality(slots') <= Slots
      BY <1>16, SlotsChange DEF CompactEnds, EndBlock, Release, SlotsOK, SlotsAccounted
    <2>2. slots' = {x \in Background : pc'[x] \in {"enter"} \cup InLane}
      BY <1>16, RegistryAssumption DEF CompactEnds, Goto, EndBlock, Release, TypeOK, Steps,
         KindsOK, SlotsOK, SlotsAccounted, InLane
    <2>3. QED
      BY <2>1, <2>2 DEF SlotsOK, SlotsAccounted
  <1>17. ASSUME NEW e \in Exec, LeakEntry(e) PROVE SlotsOK'
    BY <1>17, RegistryAssumption DEF LeakEntry, Goto, vars, laneVars, cancelVars, TypeOK, Steps,
       KindsOK, SlotsOK, SlotsAccounted, InLane
  <1>18. ASSUME NEW e \in Exec, Deliver(e) PROVE SlotsOK'
    BY <1>18, RegistryAssumption DEF Deliver, Goto, vars, laneVars, cancelVars, CancelEntry,
       TypeOK, Steps, KindsOK, SlotsOK, SlotsAccounted, InLane
  <1>19. ASSUME NEW e \in Exec, Reset(e) PROVE SlotsOK'
    BY <1>19, RegistryAssumption DEF Reset, Goto, vars, laneVars, cancelVars, Parents, TypeOK,
       Steps, KindsOK, SlotsOK, SlotsAccounted, InLane
  <1>20. ASSUME NEW r \in Run, Cancel(r) PROVE SlotsOK'
    BY <1>20, RegistryAssumption DEF Cancel, Goto, vars, laneVars, cancelVars, CancelEntry,
       TypeOK, Steps, KindsOK, SlotsOK, SlotsAccounted, InLane
  <1>21. ASSUME NEW r \in Run, CloseRow(r) PROVE SlotsOK'
    BY <1>21, RegistryAssumption DEF CloseRow, Goto, vars, laneVars, cancelVars, TypeOK, Steps,
       KindsOK, SlotsOK, SlotsAccounted, InLane
  <1>22. ASSUME NEW r \in Run, Sweep(r) PROVE SlotsOK'
    BY <1>22, RegistryAssumption DEF Sweep, Goto, vars, laneVars, cancelVars, TypeOK, Steps,
       KindsOK, SlotsOK, SlotsAccounted, InLane
  <1>23. CASE UNCHANGED vars
    BY <1>23 DEF vars, laneVars, cancelVars, TypeOK, Steps, KindsOK, SlotsOK, SlotsAccounted,
       InLane
  <1>24. QED
    BY <1>1, <1>2, <1>3, <1>4, <1>5, <1>6, <1>7, <1>8, <1>9, <1>10, <1>11, <1>12, <1>13, <1>14,
       <1>15, <1>16, <1>17, <1>18, <1>19, <1>20, <1>21, <1>22, <1>23 DEF Next, ExecStep

-----------------------------------------------------------------------------
(* Every step is one of the ledger or changes nothing it sees.             *)
LEMMA RefineStep ==
  TypeOK /\ KindsOK /\ GatesOK /\ FencesOK /\ [Next]_vars => LedgerStep
  <1> SUFFICES ASSUME TypeOK, KindsOK, GatesOK, FencesOK, [Next]_vars PROVE LedgerStep
    OBVIOUS
  <1>1. ASSUME NEW e \in Exec, Call(e) PROVE LedgerStep
    BY <1>1 DEF Call, laneVars, LedgerStep
  <1>2. ASSUME NEW e \in Exec, CompactCall(e) PROVE LedgerStep
    BY <1>2 DEF CompactCall, laneVars, LedgerStep
  <1>3. ASSUME NEW e \in Exec, Register(e) PROVE LedgerStep
    BY <1>3 DEF Register, laneVars, LedgerStep
  <1>4. ASSUME NEW e \in Exec, Refuse(e) PROVE LedgerStep
    <2>1. gate[SessionOf[e]] # e /\ report[e] = "none"
      BY <1>4, Members, RegistryAssumption DEF Refuse, KindsOK, GatesOK, FencesOK, HoldsGate,
         Gone
    <2>2. Ledger!Decline(e) \/ UNCHANGED <<gate, stopped, report>>
      BY <1>4, <2>1 DEF Refuse, laneVars, EndBlock, Goto, Ledger!Decline
    <2>3. QED
      BY <2>2 DEF LedgerStep, Ledger!LedgerNext
  <1>5. ASSUME NEW e \in Exec, TakeSlot(e) PROVE LedgerStep
    BY <1>5 DEF TakeSlot, laneVars, LedgerStep
  <1>6. ASSUME NEW e \in Exec, EnterLane(e) PROVE LedgerStep
    BY <1>6 DEF EnterLane, laneVars, LedgerStep
  <1>7. ASSUME NEW e \in Exec, Acquire(e) PROVE LedgerStep
    <2>1. Ledger!Take(e)
      BY <1>7, Members DEF Acquire, TypeOK, KindsOK, GatesOK, FencesOK, HoldsGate, Gone, InLane,
         Ledger!Take, Ledger!Yield, Ledger!ReportAndYield, Ledger!Decline
    <2>2. QED
      BY <2>1 DEF LedgerStep, Ledger!LedgerNext
  <1>8. ASSUME NEW e \in Exec, Leave(e) PROVE LedgerStep
    <2>1. gate[SessionOf[e]] # e /\ report[e] = "none"
      BY <1>8, Members, RegistryAssumption DEF Leave, KindsOK, GatesOK, FencesOK, HoldsGate,
         Gone
    <2>2. Ledger!Decline(e) \/ UNCHANGED <<gate, stopped, report>>
      BY <1>8, <2>1 DEF Leave, laneVars, EndBlock, Goto, Ledger!Decline
    <2>3. QED
      BY <2>2 DEF LedgerStep, Ledger!LedgerNext
  <1>9. ASSUME NEW e \in Exec, Recheck(e) PROVE LedgerStep
    <2>1. Ledger!Yield(e) \/ Ledger!ReportAndYield(e, "err") \/ UNCHANGED <<gate, stopped, report>>
      BY <1>9, Members DEF Recheck, EndBlock, Release, Goto, TypeOK, KindsOK, GatesOK, FencesOK,
         HoldsGate, Gone, InLane,
         Ledger!Take, Ledger!Yield, Ledger!ReportAndYield, Ledger!Decline
    <2>2. QED
      BY <2>1 DEF LedgerStep, Ledger!LedgerNext
  <1>10. ASSUME NEW e \in Exec, Begin(e) PROVE LedgerStep
    BY <1>10 DEF Begin, laneVars, LedgerStep
  <1>11. ASSUME NEW e \in Exec, BeginFails(e) PROVE LedgerStep
    <2>1. Ledger!Yield(e) \/ Ledger!ReportAndYield(e, "err")
      BY <1>11, Members DEF BeginFails, EndBlock, Release, Goto, TypeOK, KindsOK, GatesOK,
         FencesOK, HoldsGate, Gone, InLane,
         Ledger!Take, Ledger!Yield, Ledger!ReportAndYield, Ledger!Decline
    <2>2. QED
      BY <2>1 DEF LedgerStep, Ledger!LedgerNext
  <1>12. ASSUME NEW e \in Exec, Exit(e) PROVE LedgerStep
    <2>1. Ledger!ReportAndYield(e, "ok") \/ Ledger!ReportAndYield(e, "err")
      BY <1>12, Members DEF Exit, EndBlock, Release, Goto, IsCurrent, Lane, TypeOK, KindsOK,
         GatesOK, FencesOK, HoldsGate, Gone, InLane,
         Ledger!Take, Ledger!Yield, Ledger!ReportAndYield, Ledger!Decline
    <2>2. QED
      BY <2>1 DEF LedgerStep, Ledger!LedgerNext
  <1>13. ASSUME NEW e \in Exec, Remove(e) PROVE LedgerStep
    BY <1>13 DEF Remove, laneVars, LedgerStep
  <1>14. ASSUME NEW e \in Exec, Watch(e) PROVE LedgerStep
    BY <1>14 DEF Watch, laneVars, LedgerStep
  <1>15. ASSUME NEW e \in Exec, TurnEnds(e) PROVE LedgerStep
    BY <1>15 DEF TurnEnds, laneVars, LedgerStep
  <1>16. ASSUME NEW e \in Exec, CompactEnds(e) PROVE LedgerStep
    <2>1. Ledger!Yield(e)
      BY <1>16, Members DEF CompactEnds, EndBlock, Release, Goto, TypeOK, KindsOK, GatesOK,
         FencesOK, HoldsGate, Gone, InLane,
         Ledger!Take, Ledger!Yield, Ledger!ReportAndYield, Ledger!Decline
    <2>2. QED
      BY <2>1 DEF LedgerStep, Ledger!LedgerNext
  <1>17. ASSUME NEW e \in Exec, LeakEntry(e) PROVE LedgerStep
    BY <1>17 DEF LeakEntry, laneVars, LedgerStep
  <1>18. ASSUME NEW e \in Exec, Deliver(e) PROVE LedgerStep
    BY <1>18 DEF Deliver, laneVars, LedgerStep
  <1>19. ASSUME NEW e \in Exec, Reset(e) PROVE LedgerStep
    <2> DEFINE fenced == {x \in Exec : SessionOf[x] = SessionOf[e] /\ pc[x] \in InLane}
    <2>1. stopped' = stopped \cup fenced /\ UNCHANGED <<gate, report>>
      BY <1>19 DEF Reset
    <2>2. CASE fenced = {}
      BY <2>1, <2>2 DEF LedgerStep
    <2>3. CASE fenced # {}
      <3>1. \A x \in fenced : report[x] = "none"
        BY DEF FencesOK, InLane, Gone
      <3>2. Ledger!Fence(fenced)
        BY <2>1, <2>3, <3>1 DEF Ledger!Fence
      <3>3. fenced \in SUBSET Exec
        OBVIOUS
      <3>4. QED
        BY <3>2, <3>3 DEF LedgerStep, Ledger!LedgerNext
    <2>4. QED
      BY <2>2, <2>3
  <1>20. ASSUME NEW r \in Run, Cancel(r) PROVE LedgerStep
    BY <1>20 DEF Cancel, laneVars, LedgerStep
  <1>21. ASSUME NEW r \in Run, CloseRow(r) PROVE LedgerStep
    BY <1>21 DEF CloseRow, laneVars, LedgerStep
  <1>22. ASSUME NEW r \in Run, Sweep(r) PROVE LedgerStep
    BY <1>22 DEF Sweep, laneVars, LedgerStep
  <1>23. CASE UNCHANGED vars
    BY <1>23 DEF vars, laneVars, LedgerStep
  <1>24. QED
    BY <1>1, <1>2, <1>3, <1>4, <1>5, <1>6, <1>7, <1>8, <1>9, <1>10, <1>11, <1>12, <1>13, <1>14,
       <1>15, <1>16, <1>17, <1>18, <1>19, <1>20, <1>21, <1>22, <1>23 DEF Next, ExecStep

-----------------------------------------------------------------------------
(* The invariant all the others follow from: an execution's position, the   *)
(* gate, the slots and the registry name each other, and a fenced           *)
(* execution's marker is behind its lane.                                   *)
THEOREM Invariance == Spec => []IInv
  <1>1. Init => IInv
    <2> SUFFICES ASSUME Init PROVE IInv
      OBVIOUS
    <2>1. TypeOK
      BY RegistryAssumption DEF Init, TypeOK, Steps
    <2>2. KindsOK /\ EntriesOK /\ GatesOK /\ ChildrenFollow
      BY DEF Init, KindsOK, EntriesOK, EntriesLive, OnTheWay, GatesOK, HoldsGate, ChildrenFollow
    <2>3. SlotsOK
      <3>1. slots = {} /\ slots = {x \in Background : pc[x] \in {"enter"} \cup InLane}
        BY RegistryAssumption DEF Init, InLane
      <3>2. QED
        BY <3>1, FS_EmptySet, RegistryAssumption DEF SlotsOK, SlotsAccounted
    <2>4. FencesOK
      BY DEF Init, FencesOK, Entered, InLane
    <2>5. QED
      BY <2>1, <2>2, <2>3, <2>4 DEF IInv
  <1>2. IInv /\ [Next]_vars => IInv'
    BY TypeStep, KindsStep, EntriesStep, GatesStep, SlotsStep, FencesStep, ChildrenStep DEF IInv
  <1>3. QED
    BY <1>1, <1>2, PTL DEF Spec

(* Every field keeps its type, whatever the order of cancellations.        *)
THEOREM TypeCorrect == Spec => []TypeOK
  BY Invariance, PTL DEF IInv

(* session_lane.rs: one execution of a Session past the gate at a time.    *)
THEOREM Exclusion == Spec => []LaneExclusive
  <1>1. IInv => LaneExclusive
    BY Members DEF IInv, GatesOK, LaneExclusive
  <1>2. QED
    BY <1>1, Invariance, PTL

(* run_runtime.rs, background_permit: no slot is lost or held twice.       *)
THEOREM SlotBound == Spec => []SlotsAccounted
  <1>1. IInv => SlotsAccounted
    BY DEF IInv, SlotsOK
  <1>2. QED
    BY <1>1, Invariance, PTL

(* The registry holds no entry of an execution that has ended.             *)
THEOREM NoDeadEntry == Spec => []EntriesLive
  <1>1. IInv => EntriesLive
    BY DEF IInv, EntriesOK
  <1>2. QED
    BY <1>1, Invariance, PTL

(* The end of a parent cancels every child registered before it.           *)
THEOREM CancellationGoesDown == Spec => []ChildrenFollow
  <1>1. IInv => ChildrenFollow
    BY DEF IInv
  <1>2. QED
    BY <1>1, Invariance, PTL

(* Fenced executions never report success: the registry implements          *)
(* LaneLedger.                                                              *)
THEOREM Refinement == Spec => ImplementsLedger
  <1>1. Init => Ledger!LedgerInit
    BY DEF Init, Ledger!LedgerInit
  <1>2. IInv /\ [Next]_vars => LedgerStep
    BY RefineStep DEF IInv
  <1>3. QED
    BY <1>1, <1>2, Invariance, PTL
       DEF Spec, ImplementsLedger, Ledger!LedgerSpec, LedgerStep, Ledger!ledgerVars
=============================================================================
