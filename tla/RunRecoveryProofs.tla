-------------------------- MODULE RunRecoveryProofs --------------------------
(***************************************************************************)
(* What holds of a Run and its recovery for every number of calls and of   *)
(* restarts: the types and foreign keys of the rows, that a waiting Run    *)
(* can be decided, that an ended Run stays as it ended, that the rows of   *)
(* the side effects implement EffectLedger, that a Run is resumed without  *)
(* asking only when its effects are settled, and that a decision about an  *)
(* interrupted call fences every later call of the same operation.         *)
(***************************************************************************)
EXTENDS RunRecovery, TLAPS

(* Every generation but the first took a restart.                          *)
GenerationOK == /\ gen <= crashes + 1
                /\ status \in AwaitingResume => gen <= crashes

(* What the executor knows about the row of its call.                      *)
PositionOK ==
  /\ pc \in ToolPcs => calls # 0
  /\ pc \in {"called", "fenced", "approving", "claiming"} => effect[calls].status = "none"
  /\ pc = "claimed" => effect[calls].status = "claimed"
  /\ pc = "dispatched" => effect[calls].status = "dispatched"
  /\ pc = "closing" => outcome # "none"
  /\ \A c \in Calls : c > calls => effect[c].status = "none"

IInv == TypeOK /\ WaitingRunDecidable /\ GenerationOK /\ PositionOK

EndedStays == status \in Ended => UNCHANGED runVars
LedgerStep == [Ledger!Next]_[c \in Calls |-> effect[c].status]
StepOK == EndedStays /\ LedgerStep

-----------------------------------------------------------------------------
(* What the tables of the store say of one transition.                     *)
LEMMA AcceptsStep ==
  ASSUME status \in RunStates, NEW to, Accepts(to)
  PROVE  /\ to \in RunStates
         /\ status \in Ended => to = status
         /\ to \in AwaitingResume => status \in AwaitingResume
  BY DEF Accepts, Successors, RunStates, Interruptible, AwaitingResume, Ended

LEMMA SamplingRow ==
  Sampling \in Checkpoints /\ ~Sampling.linked /\ Sampling.kind # "tool"
  BY RecoveryAssumption DEF Sampling, Checkpoints

(* A step that leaves the rows alone.                                      *)
LEMMA RowsFrame ==
  ASSUME RowsOK, UNCHANGED rowVars
  PROVE  RowsOK' /\ LedgerStep
  BY DEF RowsOK, rowVars, Linked, Named, LedgerStep

(* Checkpoints and recoveries stay linked while the ledger only grows.     *)
LEMMA RowsStep ==
  ASSUME RowsOK, effect' \in [Calls -> Effects],
         \A c \in Calls : effect[c].status # "none" => effect'[c].status # "none",
         checkpoint' \in Checkpoints, Linked(checkpoint)',
         recovery' \in [Generations -> Recoveries],
         \A g \in Generations :
           /\ recovery'[g].checkpoint \in {recovery[g].checkpoint, checkpoint}
           /\ recovery'[g].effect = recovery[g].effect \/ Named(recovery'[g].effect)
  PROVE  RowsOK'
<1>1. \A c : Named(c) => (c = 0 \/ (c \in Calls /\ effect'[c].status # "none"))
  BY DEF Named
<1>2. ASSUME NEW g \in Generations
      PROVE  Linked(recovery[g].checkpoint)' /\ Named(recovery[g].effect)'
  <2>1. Linked(recovery[g].checkpoint) /\ Linked(checkpoint) /\ Named(recovery[g].effect)
    BY DEF RowsOK
  <2>2. \/ recovery'[g].checkpoint = recovery[g].checkpoint
        \/ recovery'[g].checkpoint = checkpoint
    OBVIOUS
  <2>3. recovery'[g].effect = recovery[g].effect \/ Named(recovery'[g].effect)
    OBVIOUS
  <2> QED BY <1>1, <2>1, <2>2, <2>3 DEF Linked, Named
<1> QED BY <1>2 DEF RowsOK

-----------------------------------------------------------------------------
(* The executor.                                                           *)
LEMMA LaunchInv ==
  ASSUME IInv, LaunchStep
  PROVE  IInv' /\ StepOK
<1>1. RowsOK' /\ LedgerStep /\ UNCHANGED <<rowVars, gen, calls, tool, cancelled, cancel,
                                          autoResume, crashes>>
  BY RowsFrame DEF IInv, TypeOK, LaunchStep, LaunchRecovered, Register, Prepare, Start,
     runVars, loopVars, rowVars
<1>2. /\ status' \in RunStates /\ pc' \in Pcs /\ EndedStays
      /\ status' \in AwaitingResume => status \in AwaitingResume
      /\ outcome' \in {outcome, "failed"}
      /\ pc # "idle" /\ pc' \notin ToolPcs /\ pc' # "closing"
  <2>1. CASE LaunchRecovered
    BY <2>1 DEF IInv, TypeOK, ControlOK, LaunchRecovered, runVars, loopVars, EndedStays,
       Pcs, RegisteredPcs, ToolPcs
  <2>2. CASE Register
    BY <2>2 DEF IInv, TypeOK, ControlOK, Register, Stop, runVars, EndedStays,
       Pcs, RegisteredPcs, ToolPcs
  <2>3. CASE Prepare
    BY <2>3, AcceptsStep DEF IInv, TypeOK, ControlOK, Prepare, Stop, runVars, EndedStays,
       Pcs, RegisteredPcs, ToolPcs
  <2>4. CASE Start
    BY <2>4, AcceptsStep DEF IInv, TypeOK, ControlOK, Start, Stop, runVars, EndedStays,
       Pcs, RegisteredPcs, ToolPcs
  <2> QED BY <2>1, <2>2, <2>3, <2>4 DEF LaunchStep
<1>3. ControlOK'
  BY <1>1, <1>2 DEF IInv, TypeOK, ControlOK
<1>4. WaitingRunDecidable' /\ GenerationOK'
  BY <1>1, <1>2 DEF IInv, WaitingRunDecidable, GenerationOK
<1>5. PositionOK'
  BY <1>1, <1>2 DEF IInv, PositionOK, ToolPcs, rowVars
<1> QED BY <1>1, <1>2, <1>3, <1>4, <1>5 DEF IInv, TypeOK, StepOK

(* What a step of the executor that leaves the ledger alone has to show.   *)
LEMMA ExecutorFrame ==
  ASSUME IInv, UNCHANGED <<effect, gen, calls, crashes>>, pc # "idle",
         RowsOK', ControlOK', EndedStays,
         status' \in AwaitingResume => status \in AwaitingResume,
         pc' \in ToolPcs => pc' = "completing" \/ (pc \in ToolPcs /\ PositionOK'),
         pc' = "completing" => calls # 0,
         pc' = "closing" => outcome' # "none"
  PROVE  IInv' /\ StepOK
<1>1. WaitingRunDecidable' /\ GenerationOK'
  BY DEF IInv, WaitingRunDecidable, GenerationOK
<1>2. PositionOK'
  BY DEF IInv, PositionOK, ToolPcs
<1>3. LedgerStep
  BY DEF LedgerStep
<1> QED BY <1>1, <1>2, <1>3 DEF IInv, TypeOK, StepOK

LEMMA LoopInv ==
  ASSUME IInv, LoopStep
  PROVE  IInv' /\ StepOK
<1> USE DEF IInv, TypeOK
<1>1. CASE Sample
  <2>1. checkpoint' \in Checkpoints /\ Linked(checkpoint)'
    BY <1>1, SamplingRow DEF Sample, Linked
  <2>2. effect' = effect /\ recovery' = recovery /\ RowsOK
    BY <1>1 DEF Sample
  <2>3. /\ effect' \in [Calls -> Effects] /\ recovery' \in [Generations -> Recoveries]
        /\ \A c \in Calls : effect[c].status # "none" => effect'[c].status # "none"
        /\ \A g \in Generations :
             /\ recovery'[g].checkpoint \in {recovery[g].checkpoint, checkpoint}
             /\ recovery'[g].effect = recovery[g].effect \/ Named(recovery'[g].effect)
    BY <2>2 DEF RowsOK
  <2>4. RowsOK'
    BY <2>1, <2>2, <2>3, RowsStep
  <2>5. ControlOK' /\ EndedStays
    BY <1>1 DEF Sample, ControlOK, runVars, loopVars, Pcs, RegisteredPcs, EndedStays
  <2> QED BY <1>1, <2>4, <2>5, ExecutorFrame DEF Sample, runVars, ToolPcs
<1>2. CASE EndLoop
  <2>1. RowsOK'
    BY <1>2, RowsFrame DEF EndLoop
  <2>2. ControlOK' /\ EndedStays
    BY <1>2 DEF EndLoop, ControlOK, runVars, Pcs, RegisteredPcs, EndedStays
  <2> QED BY <1>2, <2>1, <2>2, ExecutorFrame DEF EndLoop, runVars, rowVars, ToolPcs
<1>3. CASE Close
  <2>1. RowsOK'
    BY <1>3, RowsFrame DEF Close
  <2>2. \/ status' = status
        \/ /\ status' = outcome /\ status \notin Ended
           /\ outcome \in {"succeeded", "failed", "cancelled"}
    BY <1>3, AcceptsStep DEF Close, ControlOK, PositionOK, Ended, RunStates
  <2>3. ControlOK' /\ EndedStays /\ (status' \in AwaitingResume => status \in AwaitingResume)
    BY <1>3, <2>2 DEF Close, Stop, ControlOK, runVars, Pcs, RegisteredPcs, EndedStays,
       RunStates, Ended, AwaitingResume, PositionOK
  <2> QED BY <1>3, <2>1, <2>3, ExecutorFrame DEF Close, Stop, runVars, rowVars, ToolPcs
<1>4. CASE Leave
  <2>1. recovery' \in [Generations -> Recoveries]
    BY <1>4 DEF Leave, RowsOK, Recoveries
  <2>2. \A g \in Generations : /\ recovery'[g].checkpoint = recovery[g].checkpoint
                              /\ recovery'[g].effect = recovery[g].effect
    BY <1>4 DEF Leave, RowsOK, Recoveries
  <2>3. RowsOK'
    BY <1>4, <2>1, <2>2, RowsStep DEF Leave, RowsOK, Linked, Named
  <2>4. ControlOK' /\ EndedStays
    BY <1>4 DEF Leave, ControlOK, runVars, Pcs, EndedStays
  <2> QED BY <1>4, <2>3, <2>4, ExecutorFrame DEF Leave, runVars, ToolPcs
<1>5. CASE FailQueued
  <2>1. RowsOK'
    BY <1>5, RowsFrame DEF FailQueued
  <2>2. ControlOK' /\ EndedStays /\ (status' \in AwaitingResume => status \in AwaitingResume)
    BY <1>5 DEF FailQueued, ControlOK, runVars, loopVars, Pcs, EndedStays, RunStates, Ended,
       AwaitingResume
  <2> QED BY <1>5, <2>1, <2>2, ExecutorFrame DEF FailQueued, rowVars, ToolPcs
<1> QED BY <1>1, <1>2, <1>3, <1>4, <1>5 DEF LoopStep
-----------------------------------------------------------------------------
(* One tool call.                                                          *)

(* One row of the ledger moves as the ledger allows.                       *)
LEMMA LedgerMove ==
  ASSUME NEW c \in Calls, NEW s,
         effect' \in [Calls -> Effects],
         effect'[c].status = s,
         \A d \in Calls : d # c => effect'[d].status = effect[d].status,
         \/ effect[c].status = "none" /\ s = "claimed"
         \/ effect[c].status = "claimed" /\ s \in {"dispatched", "cancelled"}
         \/ effect[c].status = "dispatched"
              /\ s \in {"cancelled", "indeterminate", "succeeded", "failed"}
         \/ effect[c].status = "indeterminate" /\ s \in {"succeeded", "failed"}
  PROVE  LedgerStep
<1> DEFINE fate == [d \in Calls |-> effect[d].status]
<1>1. fate' = [fate EXCEPT ![c] = s]
  OBVIOUS
<1>2. fate[c] = effect[c].status
  OBVIOUS
<1> HIDE DEF fate
<1>3. \/ fate[c] \in {"none"} /\ s = "claimed"
      \/ fate[c] \in {"claimed"} /\ s = "dispatched"
      \/ fate[c] \in {"claimed", "dispatched"} /\ s = "cancelled"
      \/ fate[c] \in {"dispatched"} /\ s = "indeterminate"
      \/ fate[c] \in {"dispatched", "indeterminate"} /\ s \in {"succeeded", "failed"}
  BY <1>2
<1> USE DEF fate, Ledger!Move
<1>4. CASE fate[c] \in {"none"} /\ s = "claimed"
  BY <1>1, <1>4 DEF LedgerStep, Ledger!Next, Ledger!Claim
<1>5. CASE fate[c] \in {"claimed"} /\ s = "dispatched"
  BY <1>1, <1>5 DEF LedgerStep, Ledger!Next, Ledger!Send
<1>6. CASE fate[c] \in {"claimed", "dispatched"} /\ s = "cancelled"
  BY <1>1, <1>6 DEF LedgerStep, Ledger!Next, Ledger!Cancel
<1>7. CASE fate[c] \in {"dispatched"} /\ s = "indeterminate"
  BY <1>1, <1>7 DEF LedgerStep, Ledger!Next, Ledger!Lose
<1>8. CASE fate[c] \in {"dispatched", "indeterminate"} /\ s \in {"succeeded", "failed"}
  BY <1>1, <1>8 DEF LedgerStep, Ledger!Next, Ledger!Learn
<1> QED BY <1>3, <1>4, <1>5, <1>6, <1>7, <1>8

LEMMA RowStatus ==
  ASSUME NEW e \in Effects, NEW s \in EffectStates
  PROVE  /\ [e EXCEPT !.status = s] \in Effects
         /\ [e EXCEPT !.status = s].status = s
  BY DEF Effects

(* A step of the executor that writes the row of its call.                 *)
LEMMA EffectFrame ==
  ASSUME IInv, UNCHANGED <<status, gen, recovery, calls, crashes>>, pc \in ToolPcs,
         NEW row \in Effects, effect' = [effect EXCEPT ![calls] = row],
         \/ effect[calls].status = "none" /\ row.status = "claimed"
         \/ effect[calls].status = "claimed" /\ row.status \in {"dispatched", "cancelled"}
         \/ effect[calls].status = "dispatched"
              /\ row.status \in {"cancelled", "indeterminate", "succeeded", "failed"},
         checkpoint' \in Checkpoints, Linked(checkpoint)', ControlOK',
         \/ pc' = "completing"
         \/ pc' \in {"claimed", "dispatched"} /\ row.status = pc'
  PROVE  IInv' /\ StepOK
<1>1. calls \in Calls
  BY DEF IInv, TypeOK, ControlOK, PositionOK, Calls
<1>2. /\ effect' \in [Calls -> Effects] /\ effect'[calls] = row
      /\ \A c \in Calls : c # calls => effect'[c] = effect[c]
  BY <1>1 DEF IInv, TypeOK, RowsOK
<1>3. row.status # "none"
  OBVIOUS
<1>4. RowsOK'
  <2>1. \A c \in Calls : effect[c].status # "none" => effect'[c].status # "none"
    BY <1>2, <1>3
  <2>2. recovery' \in [Generations -> Recoveries] /\ RowsOK
    BY DEF IInv, TypeOK, RowsOK
  <2>3. \A g \in Generations : /\ recovery'[g].checkpoint = recovery[g].checkpoint
                              /\ recovery'[g].effect = recovery[g].effect
    OBVIOUS
  <2> QED BY <1>2, <2>1, <2>2, <2>3, RowsStep
<1>5. LedgerStep
  BY <1>1, <1>2, LedgerMove
<1>6. WaitingRunDecidable' /\ GenerationOK' /\ EndedStays
  BY DEF IInv, WaitingRunDecidable, GenerationOK, EndedStays, runVars, ToolPcs
<1>7. PositionOK'
  BY <1>1, <1>2 DEF IInv, PositionOK, ToolPcs, TypeOK, ControlOK, Calls
<1> QED BY <1>4, <1>5, <1>6, <1>7 DEF IInv, TypeOK, StepOK

LEMMA CheckpointRow ==
  ASSUME NEW o \in Operations \cup {NoOperation}, NEW c \in Calls, NEW linked \in BOOLEAN
  PROVE  LET k == ToolCheckpoint(o, c, linked)
         IN k \in Checkpoints /\ k.call = c /\ k.linked = linked /\ c # 0
  BY RecoveryAssumption DEF ToolCheckpoint, Checkpoints, Calls

LEMMA CallInv ==
  ASSUME IInv, NEW o \in Operations, CallTool(o)
  PROVE  IInv' /\ StepOK
<1>1. calls + 1 \in Calls /\ calls' = calls + 1 /\ effect' = effect /\ recovery' = recovery
  BY RecoveryAssumption DEF IInv, TypeOK, ControlOK, CallTool, Calls
<1>2. checkpoint' \in Checkpoints /\ Linked(checkpoint)'
  BY <1>1, CheckpointRow DEF CallTool, Linked
<1>3. RowsOK'
  <2>1. RowsOK /\ recovery' \in [Generations -> Recoveries] /\ effect' \in [Calls -> Effects]
    BY <1>1 DEF IInv, TypeOK, RowsOK
  <2> QED BY <1>1, <1>2, <2>1, RowsStep
<1>4. tool' \in [op : Operations \cup {NoOperation}, key : Nat \X Nat, cancelled : BOOLEAN]
  BY RecoveryAssumption DEF IInv, TypeOK, ControlOK, CallTool, Generations
<1>5. ControlOK'
  BY <1>1, <1>4 DEF IInv, TypeOK, ControlOK, CallTool, runVars, Pcs, RegisteredPcs, ToolPcs,
     Calls
<1>6. WaitingRunDecidable' /\ GenerationOK' /\ EndedStays /\ LedgerStep
  BY <1>1 DEF IInv, WaitingRunDecidable, GenerationOK, EndedStays, LedgerStep, CallTool,
     runVars
<1>7. PositionOK'
  BY <1>1 DEF IInv, TypeOK, ControlOK, PositionOK, CallTool, ToolPcs, Calls
<1> QED BY <1>3, <1>5, <1>6, <1>7 DEF IInv, TypeOK, StepOK

LEMMA FenceInv ==
  ASSUME IInv, Fence
  PROVE  IInv' /\ StepOK
<1>1. RowsOK' /\ UNCHANGED <<runVars, rowVars, calls, outcome, cancelled, cancel, autoResume,
                            crashes>>
  BY RowsFrame DEF IInv, TypeOK, Fence, runVars, rowVars
<1>2. pc = "called" /\ pc' \in {"completing", "fenced"}
  BY DEF Fence
<1>3. tool' \in [op : Operations \cup {NoOperation}, key : Nat \X Nat, cancelled : BOOLEAN]
  <2>1. ASSUME Covers(gen - 1, tool.op), FencedEffect(gen - 1) # 0
        PROVE  effect[FencedEffect(gen - 1)].key \in Nat \X Nat
    <3>1. recovery[gen - 1].effect \in 0..MaxCalls
          /\ recovery[gen - 1].checkpoint.call \in 0..MaxCalls
          /\ recovery[gen - 1].checkpoint.kind = "tool"
          /\ Linked(recovery[gen - 1].checkpoint)
      BY <2>1 DEF Covers, IInv, TypeOK, RowsOK, Recoveries, Checkpoints
    <3>2. FencedEffect(gen - 1) \in Calls
      BY <2>1, <3>1, RecoveryAssumption DEF FencedEffect, Calls, Linked
    <3> QED BY <3>2 DEF IInv, TypeOK, RowsOK, Effects
  <2> QED BY <2>1 DEF Fence, IInv, TypeOK, ControlOK
<1>4. ControlOK'
  BY <1>1, <1>2, <1>3 DEF IInv, TypeOK, ControlOK, runVars, Pcs, RegisteredPcs, ToolPcs
<1>5. PositionOK' /\ calls # 0
  BY <1>1, <1>2 DEF IInv, PositionOK, rowVars, ToolPcs
<1>6. EndedStays /\ pc # "idle" /\ status' = status /\ pc \in ToolPcs
  BY <1>1, <1>2 DEF EndedStays, runVars, ToolPcs
<1> QED BY <1>1, <1>2, <1>4, <1>5, <1>6, ExecutorFrame DEF runVars, rowVars

LEMMA AuthorizeInv ==
  ASSUME IInv, Authorize \/ Approve
  PROVE  IInv' /\ StepOK
<1>1. RowsOK' /\ UNCHANGED <<gen, rowVars, calls, loopVars, cancelled, cancel, autoResume,
                            crashes>>
  BY RowsFrame DEF IInv, TypeOK, Authorize, Approve, rowVars
<1>2. /\ pc \in {"fenced", "approving"} /\ pc' \in {"claiming", "completing", "approving"}
      /\ \/ status' = status
         \/ status = "running" /\ status' = "waiting_approval"
         \/ status = "waiting_approval" /\ status' = "running"
  BY DEF Authorize, Approve
<1>3. ControlOK' /\ EndedStays /\ (status' \in AwaitingResume => status \in AwaitingResume)
  BY <1>1, <1>2 DEF IInv, TypeOK, ControlOK, loopVars, runVars, Pcs, RegisteredPcs, ToolPcs,
     EndedStays, Ended, RunStates, Interruptible, AwaitingResume
<1>4. PositionOK' /\ calls # 0
  BY <1>1, <1>2 DEF IInv, PositionOK, rowVars, ToolPcs
<1>5. pc # "idle" /\ pc \in ToolPcs /\ pc' # "closing"
  BY <1>2 DEF ToolPcs
<1> QED BY <1>1, <1>3, <1>4, <1>5, ExecutorFrame DEF rowVars

LEMMA ClaimInv ==
  ASSUME IInv, Claim
  PROVE  IInv' /\ StepOK
<1>1. calls \in Calls /\ pc \in ToolPcs /\ effect[calls].status = "none"
  BY DEF IInv, TypeOK, ControlOK, PositionOK, Claim, ToolPcs, Calls
<1>2. CASE pc' = "completing" /\ UNCHANGED <<effect, checkpoint>>
  <2>1. RowsOK' /\ ControlOK' /\ EndedStays
    BY <1>2, RowsFrame DEF IInv, TypeOK, ControlOK, Claim, EndedStays, runVars, loopVars,
       rowVars, Pcs, RegisteredPcs, ToolPcs
  <2> QED BY <1>1, <1>2, <2>1, ExecutorFrame DEF Claim, runVars, Calls, ToolPcs
<1>3. CASE pc' = "claimed"
  <2> DEFINE row == [status |-> "claimed", op |-> tool.op, gen |-> gen, key |-> tool.key]
  <2>1. effect' = [effect EXCEPT ![calls] = row]
        /\ checkpoint' = ToolCheckpoint(tool.op, calls, TRUE)
    BY <1>3 DEF Claim
  <2>2. row \in Effects /\ row.status = "claimed"
    BY RecoveryAssumption DEF IInv, TypeOK, ControlOK, Effects, EffectStates, Generations
  <2>3. checkpoint' \in Checkpoints /\ Linked(checkpoint)'
    <3>1. effect'[calls] = row
      BY <1>1, <2>1 DEF IInv, TypeOK, RowsOK
    <3>2. Named(calls)'
      BY <1>1, <3>1, <2>2 DEF Named, Claim
    <3>3. tool.op \in Operations \cup {NoOperation}
      BY DEF IInv, TypeOK, ControlOK
    <3>4. /\ checkpoint' \in Checkpoints /\ checkpoint'.call = calls /\ calls # 0
          /\ checkpoint'.linked = TRUE
      BY <1>1, <2>1, <3>3, CheckpointRow
    <3> QED BY <3>2, <3>4 DEF Linked, Named, Claim
  <2>4. ControlOK'
    BY <1>3 DEF Claim, IInv, TypeOK, ControlOK, runVars, loopVars, Pcs, RegisteredPcs, ToolPcs
  <2>5. UNCHANGED <<status, gen, recovery, calls, crashes>>
    BY DEF Claim, runVars
  <2> HIDE DEF row
  <2> QED BY <1>1, <1>3, <2>1, <2>2, <2>3, <2>4, <2>5, EffectFrame
<1> QED BY <1>2, <1>3 DEF Claim

(* A new status for the row of the current call.                           *)
LEMMA StatusFrame ==
  ASSUME IInv, UNCHANGED <<status, gen, recovery, checkpoint, calls, crashes>>,
         pc \in ToolPcs, NEW s \in EffectStates, s # "none",
         effect' = [effect EXCEPT ![calls].status = s],
         \/ effect[calls].status = "claimed" /\ s \in {"dispatched", "cancelled"}
         \/ effect[calls].status = "dispatched"
              /\ s \in {"cancelled", "indeterminate", "succeeded", "failed"},
         ControlOK', pc' = "completing" \/ (pc' = "dispatched" /\ s = "dispatched")
  PROVE  IInv' /\ StepOK
<1> DEFINE row == [effect[calls] EXCEPT !.status = s]
<1>1. calls \in Calls /\ effect[calls] \in Effects
  BY DEF IInv, TypeOK, ControlOK, RowsOK, PositionOK, Calls
<1>2. effect' = [effect EXCEPT ![calls] = row]
  OBVIOUS
<1>3. row \in Effects /\ row.status = s
  BY <1>1, RowStatus
<1>4. effect'[calls] = row /\ \A c \in Calls : c # calls => effect'[c] = effect[c]
  BY <1>1, <1>2 DEF IInv, TypeOK, RowsOK
<1>5. checkpoint' \in Checkpoints /\ Linked(checkpoint)'
  BY <1>3, <1>4 DEF IInv, TypeOK, RowsOK, Linked, Named
<1> HIDE DEF row
<1> QED BY <1>2, <1>3, <1>5, EffectFrame

LEMMA DispatchInv ==
  ASSUME IInv, Dispatch \/ Return
  PROVE  IInv' /\ StepOK
<1>1. UNCHANGED <<status, gen, recovery, checkpoint, calls, crashes>>
  BY DEF Dispatch, Return, runVars
<1>2. /\ pc \in ToolPcs /\ pc' \in {"completing", "dispatched"}
      /\ pc = "claimed" => effect[calls].status = "claimed"
      /\ pc = "dispatched" => effect[calls].status = "dispatched"
  BY DEF Dispatch, Return, ToolPcs, IInv, PositionOK
<1>3. ControlOK'
  BY <1>1, <1>2 DEF Dispatch, Return, IInv, TypeOK, ControlOK, runVars, loopVars, Pcs,
     RegisteredPcs, ToolPcs
<1>4. CASE Dispatch
  BY <1>1, <1>2, <1>3, <1>4, StatusFrame DEF Dispatch, EffectStates, Settled
<1>5. CASE Return
  <2>1. PICK s \in {"succeeded", "failed", "cancelled", "indeterminate"} :
          effect' = [effect EXCEPT ![calls].status = s]
    BY <1>5 DEF Return
  <2> QED BY <1>1, <1>2, <1>3, <1>5, <2>1, StatusFrame DEF Return, EffectStates, Settled
<1> QED BY <1>4, <1>5

LEMMA DropInv ==
  ASSUME IInv, Timeout \/ Drop
  PROVE  IInv' /\ StepOK
<1>1. RowsOK' /\ UNCHANGED <<runVars, rowVars, calls, outcome, crashes>>
  BY RowsFrame DEF IInv, TypeOK, Timeout, Drop, rowVars, loopVars
<1>2. pc \in ToolPcs /\ pc' \in {pc, "completing"}
  BY DEF Timeout, Drop, ToolPcs
<1>3. ControlOK'
  <2>1. tool' \in [op : Operations \cup {NoOperation}, key : Nat \X Nat, cancelled : BOOLEAN]
    BY DEF Timeout, Drop, IInv, TypeOK, ControlOK, loopVars
  <2>2. pc' \in Pcs
    BY <1>2 DEF Pcs, RegisteredPcs, ToolPcs
  <2> QED BY <1>1, <2>1, <2>2 DEF Timeout, Drop, IInv, TypeOK, ControlOK, runVars
<1>4. PositionOK' /\ calls # 0 /\ EndedStays /\ pc # "idle" /\ pc' # "closing"
  BY <1>1, <1>2 DEF IInv, PositionOK, rowVars, runVars, ToolPcs, EndedStays
<1> QED BY <1>1, <1>2, <1>3, <1>4, ExecutorFrame DEF runVars, rowVars

LEMMA NoToolType ==
  NoTool \in [op : Operations \cup {NoOperation}, key : Nat \X Nat, cancelled : BOOLEAN]
  BY DEF NoTool

LEMMA CompleteInv ==
  ASSUME IInv, Complete
  PROVE  IInv' /\ StepOK
<1>1. calls \in Calls /\ UNCHANGED <<runVars, effect, recovery, calls, outcome, crashes>>
  BY DEF Complete, IInv, TypeOK, ControlOK, PositionOK, ToolPcs, Calls
<1>2. checkpoint' \in Checkpoints /\ Linked(checkpoint)'
  <2>1. tool.op \in Operations \cup {NoOperation}
    BY DEF IInv, TypeOK, ControlOK
  <2>2. /\ checkpoint' \in Checkpoints /\ checkpoint'.call = calls /\ calls # 0
        /\ checkpoint'.linked = (effect[calls].status # "none")
    BY <1>1, <2>1, CheckpointRow DEF Complete
  <2> QED BY <1>1, <2>2 DEF Linked, Named
<1>3. RowsOK'
  <2>1. RowsOK /\ recovery' \in [Generations -> Recoveries] /\ effect' \in [Calls -> Effects]
    BY <1>1 DEF IInv, TypeOK, RowsOK
  <2> QED BY <1>1, <1>2, <2>1, RowsStep
<1>4. ControlOK' /\ EndedStays
  BY <1>1, NoToolType DEF Complete, IInv, TypeOK, ControlOK, runVars, Pcs, RegisteredPcs,
     EndedStays
<1> QED BY <1>1, <1>3, <1>4, ExecutorFrame DEF Complete, runVars, ToolPcs
-----------------------------------------------------------------------------
(* Cancellations, decisions and restarts.                                  *)

LEMMA CancelInv ==
  ASSUME IInv, NEW who \in {"user", "owner"}, CancelToken(who) \/ CancelRow
  PROVE  IInv' /\ StepOK
<1>1. RowsOK' /\ LedgerStep /\ UNCHANGED <<gen, rowVars, calls, pc, loopVars, autoResume, crashes>>
  BY RowsFrame DEF IInv, TypeOK, CancelToken, CancelRow, runVars, rowVars
<1>2. /\ ControlOK' /\ EndedStays
      /\ status' \in AwaitingResume => status \in AwaitingResume
  <2>1. CASE CancelToken(who)
    BY <1>1, <2>1 DEF IInv, TypeOK, ControlOK, CancelToken, runVars, loopVars, EndedStays
  <2>2. CASE CancelRow
    <3>1. \/ status' = status
          \/ status \notin Ended /\ status' \in {"cancelled", "cancelling"}
      BY <2>2 DEF CancelRow, Ended, AwaitingResume
    <3> QED BY <1>1, <2>2, <3>1 DEF IInv, TypeOK, ControlOK, CancelRow, runVars, loopVars,
            EndedStays, RunStates, Interruptible, Ended, AwaitingResume
  <2> QED BY <2>1, <2>2
<1>3. WaitingRunDecidable' /\ GenerationOK' /\ PositionOK'
  BY <1>1, <1>2 DEF IInv, WaitingRunDecidable, GenerationOK, PositionOK, rowVars, loopVars
<1> QED BY <1>1, <1>2, <1>3 DEF IInv, TypeOK, StepOK

(* The row a decision settles was unknown.                                 *)
LEMMA SettleEffect ==
  ASSUME RowsOK, NEW c, Unknown(c), c \in 0..MaxCalls, NEW s \in {"succeeded", "failed"},
         effect' = [effect EXCEPT ![c].status = s]
  PROVE  /\ effect' \in [Calls -> Effects] /\ LedgerStep
         /\ \A d \in Calls : (effect[d].status = "none") = (effect'[d].status = "none")
<1> DEFINE row == [effect[c] EXCEPT !.status = s]
<1>1. c \in Calls /\ effect[c] \in Effects /\ effect[c].status = "indeterminate"
  BY RecoveryAssumption DEF Unknown, Calls, RowsOK
<1>2. effect' = [effect EXCEPT ![c] = row]
  OBVIOUS
<1>3. row \in Effects /\ row.status = s
  BY <1>1, RowStatus DEF EffectStates, Settled
<1> HIDE DEF row
<1>4. /\ effect' \in [Calls -> Effects] /\ effect'[c] = row
      /\ \A d \in Calls : d # c => effect'[d] = effect[d]
  BY <1>1, <1>2, <1>3 DEF RowsOK
<1>5. LedgerStep
  BY <1>1, <1>3, <1>4, LedgerMove
<1> QED BY <1>1, <1>3, <1>4, <1>5

LEMMA ResolveInv ==
  ASSUME IInv, NEW g \in Generations, NEW a \in Actions, Resolve(g, a),
         UNCHANGED <<calls, loopVars, cancelled, cancel, crashes>>, autoResume' \in BOOLEAN
  PROVE  IInv' /\ StepOK
<1> DEFINE r == recovery[g]
<1>1. /\ gen = g /\ status \in AwaitingResume /\ pc = "idle" /\ gen <= crashes
      /\ Permitted(r, a) /\ r \in Recoveries
  BY DEF Resolve, IInv, TypeOK, RowsOK, WaitingRunDecidable, GenerationOK
<1>2. gen + 1 \in Generations /\ crashes \in Nat
  BY <1>1, RecoveryAssumption DEF IInv, TypeOK, ControlOK, Generations
<1>3. /\ effect' \in [Calls -> Effects] /\ LedgerStep
      /\ \A d \in Calls : (effect[d].status = "none") = (effect'[d].status = "none")
  <2>1. r.effect \in 0..MaxCalls /\ RowsOK
    BY <1>1 DEF Recoveries, IInv, TypeOK
  <2>2. CASE a = "confirm"
    <3>1. Unknown(r.effect) /\ effect' = [effect EXCEPT ![r.effect].status = "succeeded"]
      BY <1>1, <2>2 DEF Permitted, Resolve
    <3> QED BY <2>1, <3>1, SettleEffect
  <2>3. CASE a = "retry"
    <3>1. Unknown(r.effect) /\ effect' = [effect EXCEPT ![r.effect].status = "failed"]
      BY <1>1, <2>3 DEF Permitted, Resolve
    <3> QED BY <2>1, <3>1, SettleEffect
  <2>4. CASE a \notin {"confirm", "retry"}
    BY <2>1, <2>4 DEF Resolve, RowsOK, LedgerStep
  <2> QED BY <2>2, <2>3, <2>4
<1>4. /\ recovery' \in [Generations -> Recoveries]
      /\ \A h \in Generations : /\ recovery'[h].checkpoint = recovery[h].checkpoint
                                /\ recovery'[h].effect = recovery[h].effect
  BY DEF Resolve, IInv, TypeOK, RowsOK, Recoveries
<1>5. RowsOK'
  <2>1. checkpoint' \in Checkpoints /\ Linked(checkpoint)'
    <3>1. CASE checkpoint' = checkpoint
      BY <1>3, <3>1 DEF IInv, TypeOK, RowsOK, Linked, Named
    <3>2. CASE checkpoint' = NoCheckpoint
      BY <3>2, RecoveryAssumption DEF NoCheckpoint, Checkpoints, Linked
    <3> QED BY <3>1, <3>2 DEF Resolve
  <2>2. RowsOK
    BY DEF IInv, TypeOK
  <2> QED BY <1>3, <1>4, <2>1, <2>2, RowsStep
<1>6. \/ a = "abandon" /\ status' = "cancelled" /\ gen' = gen /\ pc' = "idle"
      \/ a # "abandon" /\ status' = "queued" /\ gen' = gen + 1 /\ pc' = "resolved"
  BY <1>1 DEF Resolve
<1>7. ControlOK'
  BY <1>2, <1>6 DEF IInv, TypeOK, ControlOK, loopVars, RunStates, Ended, Pcs
<1>8. WaitingRunDecidable' /\ GenerationOK' /\ EndedStays
  BY <1>1, <1>2, <1>6 DEF WaitingRunDecidable, GenerationOK, EndedStays, AwaitingResume, Ended,
     IInv, TypeOK, ControlOK, Generations
<1>9. PositionOK'
  BY <1>3, <1>6 DEF IInv, PositionOK, ToolPcs
<1> QED BY <1>3, <1>5, <1>7, <1>8, <1>9 DEF IInv, TypeOK, StepOK

LEMMA AfterRestartType ==
  ASSUME NEW s \in EffectStates
  PROVE  AfterRestart(s) \in EffectStates /\ ((s = "none") = (AfterRestart(s) = "none"))
  BY DEF AfterRestart, EffectStates, Settled

LEMMA LatestType ==
  ASSUME RowsOK, NEW u \in LatestUnknown
  PROVE  u \in 0..MaxCalls /\ Named(u)
  BY RecoveryAssumption, AfterRestartType DEF LatestUnknown, Named, Calls, RowsOK, Effects,
     AfterRestart

LEMMA RestartInv ==
  ASSUME IInv, Restart
  PROVE  IInv' /\ StepOK
<1>1. RowsOK /\ ControlOK
  BY DEF IInv, TypeOK
<1>2. /\ effect' \in [Calls -> Effects]
      /\ \A c \in Calls : effect'[c].status = AfterRestart(effect[c].status)
      /\ \A c \in Calls : (effect[c].status = "none") = (effect'[c].status = "none")
  <2>1. ASSUME NEW c \in Calls
        PROVE  /\ effect'[c] \in Effects
               /\ effect'[c].status = AfterRestart(effect[c].status)
               /\ (effect[c].status = "none") = (effect'[c].status = "none")
    <3>1. effect[c] \in Effects /\ effect[c].status \in EffectStates
      BY <1>1 DEF RowsOK, Effects
    <3>2. effect'[c] = [effect[c] EXCEPT !.status = AfterRestart(effect[c].status)]
      BY DEF Restart
    <3> QED BY <3>1, <3>2, AfterRestartType, RowStatus
  <2>2. effect' = [c \in Calls |-> effect'[c]]
    BY DEF Restart
  <2> QED BY <2>1, <2>2
<1>3. LedgerStep
  <2>1. [c \in Calls |-> effect[c].status]' =
          [c \in Calls |-> AfterRestart(effect[c].status)]
    BY <1>2
  <2>2. Ledger!Restart
    BY <2>1 DEF Ledger!Restart, AfterRestart
  <2> QED BY <2>2 DEF LedgerStep, Ledger!Next
<1>4. /\ recovery' \in [Generations -> Recoveries]
      /\ \A g \in Generations :
           /\ recovery'[g].checkpoint \in {recovery[g].checkpoint, checkpoint}
           /\ recovery'[g].effect = recovery[g].effect \/ Named(recovery'[g].effect)
      /\ \/ /\ status \notin Interruptible /\ status' = status /\ recovery' = recovery
            /\ autoResume' = FALSE
         \/ /\ status \in Interruptible
            /\ status' \in AwaitingResume /\ autoResume' \in BOOLEAN
            /\ recovery'[gen].state \in {"eligible_auto", "awaiting_user"}
  <2>1. CASE status \notin Interruptible
    BY <1>1, <2>1 DEF Restart, RowsOK
  <2>2. CASE status \in Interruptible
    <3>1. PICK u \in LatestUnknown :
            LET eligible == EligibleAuto(status, u) IN
            /\ status' = IF eligible THEN "recovering" ELSE "waiting_recovery_decision"
            /\ autoResume' = eligible
            /\ recovery' = [recovery EXCEPT ![gen] =
                 [state |-> IF eligible THEN "eligible_auto" ELSE "awaiting_user",
                  checkpoint |-> checkpoint,
                  effect |-> IF u # 0 THEN u
                             ELSE IF checkpoint.linked THEN checkpoint.call ELSE 0,
                  action |-> "none"]]
      BY <2>2 DEF Restart
    <3>2. autoResume' \in BOOLEAN /\ status' \in AwaitingResume
      BY <3>1 DEF EligibleAuto, AwaitingResume
    <3> DEFINE e == IF u # 0 THEN u ELSE IF checkpoint.linked THEN checkpoint.call ELSE 0
               st == IF EligibleAuto(status, u) THEN "eligible_auto" ELSE "awaiting_user"
               row == [state |-> st, checkpoint |-> checkpoint, effect |-> e,
                       action |-> "none"]
    <3>3. e \in 0..MaxCalls /\ Named(e)
      BY <1>1, LatestType, RecoveryAssumption DEF RowsOK, Linked, Checkpoints, Named
    <3>4. st \in {"eligible_auto", "awaiting_user"} /\ recovery' = [recovery EXCEPT ![gen] = row]
      BY <3>1
    <3> HIDE DEF e, st
    <3>5. row \in Recoveries /\ row.state = st /\ row.checkpoint = checkpoint /\ row.effect = e
      BY <1>1, <3>3, <3>4 DEF RowsOK, Recoveries
    <3> HIDE DEF row
    <3> QED BY <1>1, <2>2, <3>2, <3>3, <3>4, <3>5 DEF RowsOK, ControlOK
  <2> QED BY <2>1, <2>2
<1>5. checkpoint' \in Checkpoints /\ Linked(checkpoint)'
  BY <1>1, <1>2 DEF Restart, RowsOK, Linked, Named
<1>6. RowsOK'
  BY <1>1, <1>2, <1>4, <1>5, RowsStep
<1>7. /\ crashes' = crashes + 1 /\ crashes' \in 0..MaxCrashes /\ pc' = "idle"
      /\ UNCHANGED <<gen, checkpoint, calls>>
  BY <1>1, RecoveryAssumption DEF Restart, ControlOK
<1>8. ControlOK'
  BY <1>1, <1>4, <1>7, NoToolType DEF Restart, ControlOK, RunStates, AwaitingResume, Pcs
<1>9. WaitingRunDecidable' /\ GenerationOK' /\ EndedStays
  <2>1. status' \in AwaitingResume => recovery'[gen].state \in {"eligible_auto", "awaiting_user"}
    BY <1>4 DEF IInv, WaitingRunDecidable
  <2>2. gen <= crashes + 1 /\ gen \in Nat /\ crashes \in Nat
    BY <1>1, RecoveryAssumption DEF IInv, GenerationOK, ControlOK, Generations
  <2>3. EndedStays
    BY <1>4, <1>7 DEF EndedStays, Ended, Interruptible, runVars
  <2> QED BY <1>7, <2>1, <2>2, <2>3 DEF WaitingRunDecidable, GenerationOK
<1>10. PositionOK'
  BY <1>2, <1>7 DEF IInv, PositionOK, ToolPcs
<1> QED BY <1>3, <1>6, <1>8, <1>9, <1>10 DEF IInv, TypeOK, StepOK

-----------------------------------------------------------------------------
(* The theorems.                                                           *)

LEMMA Initially == Init => IInv
<1> SUFFICES ASSUME Init PROVE IInv
  OBVIOUS
<1>1. 0 \in 0..MaxCalls /\ 0 \in 0..MaxCrashes /\ 0 \in 0..(MaxCrashes + 1) /\ 1 \in Generations
  BY RecoveryAssumption DEF Generations
<1>2. NoEffect \in Effects /\ NoEffect.status = "none"
  BY <1>1 DEF NoEffect, Effects, EffectStates
<1>3. NoCheckpoint \in Checkpoints /\ ~NoCheckpoint.linked /\ NoCheckpoint.kind # "tool"
  BY <1>1 DEF NoCheckpoint, Checkpoints
<1>4. NoRecovery \in Recoveries /\ NoRecovery.checkpoint = NoCheckpoint /\ NoRecovery.effect = 0
  BY <1>1, <1>3 DEF NoRecovery, Recoveries
<1>5. RowsOK
  BY <1>2, <1>3, <1>4 DEF Init, RowsOK, Linked, Named
<1>6. ControlOK
  BY <1>1, NoToolType DEF Init, ControlOK, RunStates, Pcs
<1>7. WaitingRunDecidable /\ GenerationOK
  BY <1>1 DEF Init, WaitingRunDecidable, GenerationOK, AwaitingResume
<1>8. PositionOK
  BY <1>2 DEF Init, PositionOK, ToolPcs
<1> QED BY <1>5, <1>6, <1>7, <1>8 DEF IInv, TypeOK

LEMMA Step == IInv /\ [Next]_vars => IInv' /\ StepOK
<1> SUFFICES ASSUME IInv, [Next]_vars PROVE IInv' /\ StepOK
  OBVIOUS
<1>1. CASE LaunchStep
  BY <1>1, LaunchInv
<1>2. CASE LoopStep
  BY <1>2, LoopInv
<1>3. CASE ToolStep \/ Approve \/ Timeout
  BY <1>3, CallInv, FenceInv, AuthorizeInv, ClaimInv, DispatchInv, DropInv, CompleteInv
     DEF ToolStep
<1>4. CASE CancelRow \/ \E who \in {"user", "owner"} : CancelToken(who)
  BY <1>4, CancelInv
<1>5. CASE \E g \in Generations, a \in Actions : Decide(g, a)
  <2>1. PICK g \in Generations, a \in Actions : Decide(g, a)
    BY <1>5
  <2>2. autoResume' \in BOOLEAN
    BY <2>1 DEF Decide, IInv, TypeOK, ControlOK
  <2> QED BY <2>1, <2>2, ResolveInv DEF Decide
<1>6. CASE AutoResume
  <2>1. CASE Resolve(gen, "resume")
    BY <1>6, <2>1, ResolveInv DEF AutoResume, Actions, IInv, TypeOK, ControlOK
  <2>2. CASE UNCHANGED <<runVars, rowVars, pc>>
    <3>1. RowsOK' /\ LedgerStep
      BY <2>2, RowsFrame DEF IInv, TypeOK
    <3>2. ControlOK' /\ EndedStays
      BY <1>6, <2>2 DEF AutoResume, IInv, TypeOK, ControlOK, runVars, loopVars, EndedStays
    <3>3. WaitingRunDecidable' /\ GenerationOK' /\ PositionOK'
      BY <1>6, <2>2 DEF AutoResume, IInv, WaitingRunDecidable, GenerationOK, PositionOK,
         runVars, rowVars, loopVars
    <3> QED BY <3>1, <3>2, <3>3 DEF IInv, TypeOK, StepOK
  <2> QED BY <1>6, <2>1, <2>2 DEF AutoResume
<1>7. CASE Restart
  BY <1>7, RestartInv
<1>8. CASE UNCHANGED vars
  <2>1. RowsOK' /\ LedgerStep
    BY <1>8, RowsFrame DEF IInv, TypeOK, vars, rowVars
  <2> QED BY <1>8, <2>1 DEF vars, IInv, TypeOK, ControlOK, WaitingRunDecidable, GenerationOK,
          PositionOK, StepOK, EndedStays, runVars
<1> QED BY <1>1, <1>2, <1>3, <1>4, <1>5, <1>6, <1>7, <1>8 DEF Next, Idle

(* The inductive invariant.                                                *)
THEOREM Invariance == Spec => []IInv
  BY Initially, Step, PTL DEF Spec

(* The rows have their types and name rows that exist.                     *)
THEOREM TypeCorrect == Spec => []TypeOK
<1>1. IInv => TypeOK
  BY DEF IInv
<1> QED BY <1>1, Invariance, PTL

(* A Run that waits for a decision has an open recovery for its generation *)
(* and no executor (recover_interrupted, resolve_run_recovery).            *)
THEOREM Decidable == Spec => []WaitingRunDecidable
<1>1. IInv => WaitingRunDecidable
  BY DEF IInv
<1> QED BY <1>1, Invariance, PTL

(* No step moves a Run that ended (transition_run, resolve_run_recovery).  *)
THEOREM Final == Spec => EndedIsFinal
<1>1. IInv /\ [Next]_vars => [(status \in Ended) => UNCHANGED runVars]_vars
  BY Step DEF StepOK, EndedStays
<1> QED BY <1>1, Invariance, PTL DEF Spec, EndedIsFinal

(* Through crashes, cancellations, retries and decisions the rows of the   *)
(* side effects move as the ledger promises.                               *)
THEOREM Refinement == Spec => ImplementsLedger
<1>1. Init => Ledger!Init
  BY DEF Init, Ledger!Init, NoEffect
<1>2. IInv /\ [Next]_vars => [Ledger!Next]_[c \in Calls |-> effect[c].status]
  BY Step DEF StepOK, LedgerStep
<1> QED BY <1>1, <1>2, Invariance, PTL DEF Spec, ImplementsLedger, Ledger!Spec
-----------------------------------------------------------------------------
(* Decisions about a recovery.  An executor works under the decision about *)
(* the generation before its own, from the fence of a call to its claim;   *)
(* in between the user may cancel, calls may time out and the process may  *)
(* stop.  What the decision rests on has to outlive all of that.           *)

(* The decision about a generation that was interrupted in a tool call.    *)
Decided(r) == /\ r.action \in {"resume", "confirm", "retry"}
              /\ r.checkpoint.kind = "tool"
              /\ r.effect = r.checkpoint.call

(* Nothing of a generation that is still to come is recorded.              *)
GenerationsOK ==
  /\ \A g \in Generations : g > gen => recovery[g] = NoRecovery
  /\ \A c \in Calls : IF effect[c].status = "none" THEN effect[c].gen = 0
                      ELSE effect[c].gen \in 1..gen

(* No executor runs beside an open recovery, and the executor of a resumed *)
(* generation runs under the decision about the one before.                *)
ExecutorOK ==
  /\ recovery[gen].state \in OpenStates => pc = "idle"
  /\ gen # 1 /\ pc \notin {"idle", "left"} => recovery[gen - 1].state = "resuming"

(* What a decision rests on stays as it was.                               *)
DecisionsOK ==
  \A g \in Generations : LET r == recovery[g] IN
    /\ Decided(r) /\ r.action = "resume" => effect[r.effect].status \in ProvenSafe
    /\ Decided(r) /\ r.action = "confirm" => effect[r.effect].status = "succeeded"

(* Past the fence a call of a decided operation is a retry under its key.  *)
TokenOK ==
  pc \in {"fenced", "approving", "claiming"} /\ gen # 1 =>
    LET r == recovery[gen - 1] IN
    Decided(r) /\ r.checkpoint.op = tool.op =>
      RetriesWithKey(r, effect[r.effect]) /\ tool.key = effect[r.effect].key

DecisionInv == /\ GenerationsOK /\ ExecutorOK /\ DecisionsOK /\ TokenOK
               /\ EligibleIsSettled /\ FencedOperation

(* The row a decision is about is there.                                   *)
LEMMA DecidedRow ==
  ASSUME RowsOK, NEW g \in Generations, Decided(recovery[g])
  PROVE  recovery[g].effect \in Calls /\ effect[recovery[g].effect].status # "none"
  BY DEF RowsOK, Linked, Named, Decided

(* The operation of a row, its generation and its key are never rewritten, *)
(* and a settled row stays settled.                                        *)
RowsKept ==
  \A c \in Calls :
    /\ effect'[c].op = effect[c].op /\ effect'[c].gen = effect[c].gen
    /\ effect'[c].key = effect[c].key
    /\ (effect[c].status = "none") = (effect'[c].status = "none")
    /\ effect[c].status \in Settled => effect'[c].status = effect[c].status

SameDecision(g) == /\ recovery'[g].checkpoint = recovery[g].checkpoint
                   /\ recovery'[g].effect = recovery[g].effect
                   /\ recovery'[g].action = recovery[g].action

(* A decision of the current generation, as it is committed.               *)
Justified(r, e) == /\ Decided(r) /\ r.action = "resume" => e.status \in ProvenSafe
                   /\ Decided(r) /\ r.action = "confirm" => e.status = "succeeded"

-----------------------------------------------------------------------------
(* A step that claims no row.                                              *)
LEMMA KeptInv ==
  ASSUME IInv, DecisionInv, gen' \in {gen, gen + 1}, RowsKept,
         \A g \in Generations :
           \/ recovery'[g].action \in {"none", "abandon"}
           \/ SameDecision(g)
           \/ g = gen /\ Justified(recovery'[g], effect'[recovery'[g].effect]),
         \A g \in Generations : recovery'[g].state = "eligible_auto" =>
           \/ recovery[g].state = "eligible_auto"
           \/ \A c \in Calls : effect'[c].gen = g => effect'[c].status \in Settled,
         \A g \in Generations : g > gen' => recovery'[g] = recovery[g]
  PROVE  GenerationsOK' /\ DecisionsOK' /\ EligibleIsSettled' /\ FencedOperation'
<1>1. RowsOK /\ gen \in Nat /\ gen >= 1
  BY DEF IInv, TypeOK, ControlOK, Generations
<1>2. GenerationsOK'
  <2>1. \A g \in Generations : g > gen' => recovery'[g] = NoRecovery
    BY <1>1 DEF DecisionInv, GenerationsOK, Generations
  <2>2. \A c \in Calls : IF effect'[c].status = "none" THEN effect'[c].gen = 0
                         ELSE effect'[c].gen \in 1..gen'
    <3> TAKE c \in Calls
    <3>1. IF effect[c].status = "none" THEN effect[c].gen = 0 ELSE effect[c].gen \in 1..gen
      BY DEF DecisionInv, GenerationsOK
    <3> QED BY <1>1, <3>1 DEF RowsKept
  <2> QED BY <2>1, <2>2 DEF GenerationsOK
<1>3. ASSUME NEW g \in Generations, SameDecision(g), Decided(recovery[g])'
      PROVE  /\ Decided(recovery[g])
             /\ recovery'[g].effect = recovery[g].effect /\ recovery[g].effect \in Calls
             /\ recovery[g].action # "retry" =>
                  effect'[recovery[g].effect].status = effect[recovery[g].effect].status
             /\ RetriesWithKey(recovery[g], effect[recovery[g].effect]) =>
                  RetriesWithKey(recovery'[g], effect'[recovery'[g].effect])
  <2>1. Decided(recovery[g])
    BY <1>3 DEF SameDecision, Decided
  <2>2. recovery[g].effect \in Calls
    BY <1>1, <2>1, DecidedRow
  <2>3. recovery[g].action # "retry" => effect[recovery[g].effect].status \in Settled
    BY <2>1 DEF DecisionInv, DecisionsOK, Decided, ProvenSafe, Settled
  <2>4. recovery[g].action # "retry" =>
          effect'[recovery[g].effect].status = effect[recovery[g].effect].status
    BY <2>2, <2>3 DEF RowsKept
  <2> QED BY <1>3, <2>1, <2>2, <2>4 DEF SameDecision, RetriesWithKey
<1>4. DecisionsOK'
  <2> SUFFICES ASSUME NEW g \in Generations
               PROVE  Justified(recovery'[g], effect'[recovery'[g].effect])
    BY DEF DecisionsOK, Justified, Decided
  <2>1. CASE recovery'[g].action \in {"none", "abandon"}
    BY <2>1 DEF Justified, Decided
  <2>2. CASE SameDecision(g)
    <3>1. Justified(recovery[g], effect[recovery[g].effect])
      BY DEF DecisionInv, DecisionsOK, Justified
    <3> QED BY <1>3, <2>2, <3>1 DEF Justified, Decided, SameDecision
  <2> QED BY <2>1, <2>2
<1>5. EligibleIsSettled'
  BY DEF EligibleIsSettled, DecisionInv, RowsKept
<1>6. FencedOperation'
  <2> SUFFICES ASSUME NEW g \in Generations, Decided(recovery[g])'
               PROVE  LET r == recovery'[g]
                          again == {c \in Calls : effect'[c].gen = g + 1
                                                  /\ effect'[c].op = r.checkpoint.op}
                      IN /\ \A c \in again : /\ RetriesWithKey(r, effect'[r.effect])
                                             /\ effect'[c].key = effect'[r.effect].key
                         /\ \A c, d \in again : c = d
    BY DEF FencedOperation, Decided, RowsOf, RetriesWithKey
  <2>1. CASE SameDecision(g)
    <3>1. Decided(recovery[g]) /\ recovery[g].effect \in Calls
      BY <1>3, <2>1
    <3>2. LET r == recovery[g]
              again == RowsOf(r.checkpoint.op, g + 1)
          IN /\ \A c \in again : /\ RetriesWithKey(r, effect[r.effect])
                                 /\ effect[c].key = effect[r.effect].key
             /\ \A c, d \in again : c = d
      BY <3>1 DEF DecisionInv, FencedOperation, Decided
    <3>3. \A c \in Calls : /\ effect'[c].op = effect[c].op
                           /\ effect'[c].gen = effect[c].gen
                           /\ effect'[c].key = effect[c].key
      BY DEF RowsKept
    <3> QED BY <1>3, <2>1, <3>1, <3>2, <3>3 DEF RowsOf, SameDecision
  <2>2. CASE g = gen
    <3>1. \A c \in Calls : effect[c].gen # g + 1
      BY <1>1, <2>2 DEF DecisionInv, GenerationsOK
    <3> QED BY <3>1 DEF RowsKept
  <2> QED BY <2>1, <2>2 DEF Decided
<1> QED BY <1>2, <1>4, <1>5, <1>6

(* A step that leaves the ledger and the recoveries alone, behind or       *)
(* before the fence.                                                       *)
LEMMA QuietInv ==
  ASSUME IInv, DecisionInv, UNCHANGED <<effect, recovery, gen>>,
         pc' = "idle" \/ pc # "idle",
         pc' \in {"idle", "left"} \/ pc \notin {"idle", "left"},
         pc' \in {"fenced", "approving", "claiming"} =>
           /\ pc \in {"fenced", "approving", "claiming"}
           /\ tool'.op = tool.op /\ tool'.key = tool.key
  PROVE  DecisionInv'
<1>1. GenerationsOK' /\ DecisionsOK' /\ EligibleIsSettled' /\ FencedOperation'
  BY KeptInv DEF RowsKept, SameDecision
<1>2. ExecutorOK'
  BY DEF DecisionInv, ExecutorOK
<1>3. TokenOK'
  BY DEF DecisionInv, TokenOK, Decided, RetriesWithKey
<1> QED BY <1>1, <1>2, <1>3 DEF DecisionInv

LEMMA FenceDecision ==
  ASSUME IInv, DecisionInv, Fence
  PROVE  DecisionInv'
<1>1. UNCHANGED <<effect, recovery, gen>> /\ pc = "called" /\ pc' \in {"completing", "fenced"}
  BY DEF Fence, runVars, rowVars
<1>2. GenerationsOK' /\ DecisionsOK' /\ EligibleIsSettled' /\ FencedOperation'
  BY <1>1, KeptInv DEF RowsKept, SameDecision
<1>3. ExecutorOK'
  BY <1>1 DEF DecisionInv, ExecutorOK
<1>4. TokenOK'
  <2> SUFFICES ASSUME pc' = "fenced", gen # 1, Decided(recovery[gen - 1]),
                      recovery[gen - 1].checkpoint.op = tool'.op
               PROVE  /\ RetriesWithKey(recovery[gen - 1], effect[recovery[gen - 1].effect])
                      /\ tool'.key = effect[recovery[gen - 1].effect].key
    BY <1>1 DEF TokenOK, Decided, RetriesWithKey
  <2> DEFINE g == gen - 1
             r == recovery[g]
  <2>1. g \in Generations /\ RowsOK
    BY RecoveryAssumption DEF IInv, TypeOK, ControlOK, Generations
  <2>2. r.effect \in Calls /\ r.effect # 0
    BY <2>1, DecidedRow DEF Calls
  <2>3. tool'.op = tool.op
    BY DEF Fence, IInv, TypeOK, ControlOK
  <2>4. Covers(g, tool.op)
    BY <1>1, <2>1, <2>3 DEF Covers, DecisionInv, ExecutorOK, Decided
  <2>5. FencedEffect(g) = r.effect
    BY <2>2 DEF FencedEffect
  <2>6. CASE RetriesWithKey(r, effect[r.effect])
    BY <1>1, <2>2, <2>4, <2>5, <2>6 DEF Fence, IInv, TypeOK, ControlOK
  <2>7. CASE ~RetriesWithKey(r, effect[r.effect])
    <3>1. effect[r.effect].status \in {"succeeded", "failed"}
      BY <2>1, <2>7 DEF DecisionInv, DecisionsOK, RetriesWithKey, Decided, ProvenSafe
    <3> QED BY <1>1, <2>2, <2>4, <2>5, <2>7, <3>1 DEF Fence
  <2> QED BY <2>6, <2>7
<1> QED BY <1>2, <1>3, <1>4 DEF DecisionInv

LEMMA LeaveDecision ==
  ASSUME IInv, DecisionInv, Leave
  PROVE  DecisionInv'
<1>1. /\ UNCHANGED <<effect, gen>> /\ pc = "leaving" /\ pc' \in {"idle", "left"}
      /\ recovery \in [Generations -> Recoveries]
      /\ gen \in Generations
  BY DEF Leave, runVars, IInv, TypeOK, RowsOK, ControlOK
<1>2. \A g \in Generations :
        /\ SameDecision(g)
        /\ \/ recovery'[g] = recovery[g]
           \/ g + 1 = gen /\ recovery'[g].state \in {"resumed", "failed"}
  BY <1>1 DEF Leave, SameDecision, Recoveries
<1>3. GenerationsOK' /\ DecisionsOK' /\ EligibleIsSettled' /\ FencedOperation'
  <2>1. \A g \in Generations : g > gen' => recovery'[g] = recovery[g]
    BY <1>1, <1>2 DEF Generations
  <2>2. \A g \in Generations : recovery'[g].state = "eligible_auto" =>
                                 recovery[g].state = "eligible_auto"
    BY <1>2
  <2> QED BY <1>1, <1>2, <2>1, <2>2, KeptInv DEF RowsKept
<1>4. ExecutorOK'
  BY <1>1, <1>2 DEF DecisionInv, ExecutorOK, OpenStates, Generations
<1>5. TokenOK'
  BY <1>1 DEF TokenOK
<1> QED BY <1>3, <1>4, <1>5 DEF DecisionInv

(* The claim: the fence left only a retry, and its key is free.            *)
LEMMA ClaimDecision ==
  ASSUME IInv, DecisionInv, Claim
  PROVE  DecisionInv'
<1>1. /\ calls \in Calls /\ effect[calls].status = "none" /\ pc = "claiming"
      /\ UNCHANGED <<gen, recovery, tool>> /\ gen \in Nat /\ gen >= 1
  BY DEF IInv, TypeOK, ControlOK, PositionOK, Claim, ToolPcs, Calls, runVars, loopVars,
     Generations
<1>2. CASE pc' = "completing" /\ UNCHANGED <<effect, checkpoint>>
  BY <1>1, <1>2, QuietInv
<1>3. CASE pc' = "claimed"
  <2> DEFINE row == [status |-> "claimed", op |-> tool.op, gen |-> gen, key |-> tool.key]
  <2>1. effect' = [effect EXCEPT ![calls] = row] /\ ~KeyTaken
    BY <1>3 DEF Claim
  <2>2. row.status = "claimed" /\ row.op = tool.op /\ row.gen = gen /\ row.key = tool.key
    OBVIOUS
  <2> HIDE DEF row
  <2>3. effect'[calls] = row /\ \A c \in Calls : c # calls => effect'[c] = effect[c]
    BY <1>1, <2>1 DEF IInv, TypeOK, RowsOK
  <2>4. \A g \in Generations : Decided(recovery[g]) =>
          /\ recovery[g].effect \in Calls
          /\ effect'[recovery[g].effect] = effect[recovery[g].effect]
    BY <1>1, <2>3, DecidedRow DEF IInv, TypeOK
  <2>5. GenerationsOK'
    BY <1>1, <2>2, <2>3 DEF DecisionInv, GenerationsOK
  <2>6. ExecutorOK' /\ TokenOK'
    BY <1>1, <1>3 DEF DecisionInv, ExecutorOK, TokenOK
  <2>7. DecisionsOK'
    BY <1>1, <2>4 DEF DecisionInv, DecisionsOK, Decided
  <2>8. EligibleIsSettled'
    <3>1. recovery[gen].state # "eligible_auto"
      BY <1>1 DEF DecisionInv, ExecutorOK, OpenStates
    <3> QED BY <1>1, <2>2, <2>3, <3>1 DEF DecisionInv, EligibleIsSettled
  <2>9. FencedOperation'
    <3> SUFFICES ASSUME NEW g \in Generations, Decided(recovery[g])
                 PROVE  LET r == recovery[g]
                            again == {c \in Calls : effect'[c].gen = g + 1
                                                    /\ effect'[c].op = r.checkpoint.op}
                        IN /\ \A c \in again : /\ RetriesWithKey(r, effect'[r.effect])
                                               /\ effect'[c].key = effect'[r.effect].key
                           /\ \A c, d \in again : c = d
      BY <1>1 DEF FencedOperation, Decided, RowsOf, RetriesWithKey
    <3> DEFINE r == recovery[g]
    <3>1. LET again == RowsOf(r.checkpoint.op, g + 1)
          IN /\ \A c \in again : /\ RetriesWithKey(r, effect[r.effect])
                                 /\ effect[c].key = effect[r.effect].key
             /\ \A c, d \in again : c = d
      BY DEF DecisionInv, FencedOperation, Decided
    <3>2. effect'[r.effect] = effect[r.effect]
      BY <2>4
    <3>3. CASE g + 1 # gen \/ r.checkpoint.op # tool.op
      BY <2>2, <2>3, <3>1, <3>2, <3>3 DEF RowsOf
    <3>4. CASE g + 1 = gen /\ r.checkpoint.op = tool.op
      <4>1. gen # 1 /\ gen - 1 = g
        BY <3>4 DEF Generations
      <4>2. RetriesWithKey(r, effect[r.effect]) /\ tool.key = effect[r.effect].key
        BY <1>1, <3>4, <4>1 DEF DecisionInv, TokenOK
      <4>3. ASSUME NEW c \in Calls, effect[c].gen = gen, effect[c].op = tool.op
            PROVE  FALSE
        <5>1. effect[c].status # "none"
          BY <1>1, <4>3 DEF DecisionInv, GenerationsOK
        <5>2. effect[c].key = tool.key
          BY <3>1, <3>4, <4>2, <4>3 DEF RowsOf
        <5> QED BY <2>1, <4>3, <5>1, <5>2 DEF KeyTaken
      <4> QED BY <2>2, <2>3, <3>2, <3>4, <4>2, <4>3
    <3> QED BY <3>3, <3>4
  <2> QED BY <2>5, <2>6, <2>7, <2>8, <2>9 DEF DecisionInv
<1> QED BY <1>2, <1>3 DEF Claim

(* One row takes another status, and was not settled.                      *)
LEMMA MovedRow ==
  ASSUME RowsOK, NEW c \in Calls, NEW s, s # "none",
         effect[c].status \notin Settled, effect[c].status # "none",
         effect' = [effect EXCEPT ![c].status = s]
  PROVE  RowsKept /\ effect'[c].status = s
<1>1. effect[c] \in Effects /\ effect \in [Calls -> Effects]
  BY DEF RowsOK
<1>2. /\ effect'[c] = [effect[c] EXCEPT !.status = s]
      /\ \A d \in Calls : d # c => effect'[d] = effect[d]
  BY <1>1
<1>3. /\ effect'[c].op = effect[c].op /\ effect'[c].gen = effect[c].gen
      /\ effect'[c].key = effect[c].key /\ effect'[c].status = s
  BY <1>1, <1>2 DEF Effects
<1> QED BY <1>2, <1>3 DEF RowsKept

LEMMA DispatchDecision ==
  ASSUME IInv, DecisionInv, Dispatch \/ Return
  PROVE  DecisionInv'
<1>1. /\ calls \in Calls /\ effect[calls].status \in {"claimed", "dispatched"}
      /\ UNCHANGED <<gen, recovery>> /\ RowsOK
      /\ pc \in {"claimed", "dispatched"} /\ pc' \in {"completing", "dispatched"}
  BY DEF Dispatch, Return, IInv, TypeOK, ControlOK, PositionOK, ToolPcs, Calls, runVars
<1>2. PICK s \in EffectStates \ {"none"} : effect' = [effect EXCEPT ![calls].status = s]
  BY DEF Dispatch, Return, EffectStates, Settled
<1>3. RowsKept
  BY <1>1, <1>2, MovedRow DEF Settled
<1>4. GenerationsOK' /\ DecisionsOK' /\ EligibleIsSettled' /\ FencedOperation'
  BY <1>1, <1>3, KeptInv DEF SameDecision
<1>5. ExecutorOK' /\ TokenOK'
  BY <1>1 DEF DecisionInv, ExecutorOK, TokenOK
<1> QED BY <1>4, <1>5 DEF DecisionInv

LEMMA ResolveDecision ==
  ASSUME IInv, DecisionInv, NEW g \in Generations, NEW a \in Actions, Resolve(g, a)
  PROVE  DecisionInv'
<1> DEFINE r == recovery[g]
<1>1. /\ gen = g /\ Permitted(r, a) /\ r.state \in OpenStates /\ pc = "idle"
      /\ recovery \in [Generations -> Recoveries] /\ RowsOK /\ gen \in Nat /\ gen >= 1
      /\ gen <= crashes /\ crashes \in 0..MaxCrashes /\ MaxCrashes \in Nat
  BY RecoveryAssumption DEF Resolve, IInv, TypeOK, RowsOK, ControlOK, WaitingRunDecidable,
     GenerationOK, Generations
<1>2. /\ \A h \in Generations : h # g => recovery'[h] = recovery[h]
      /\ recovery'[g].checkpoint = r.checkpoint /\ recovery'[g].effect = r.effect
      /\ recovery'[g].action = a
      /\ recovery'[g].state = IF a = "abandon" THEN "abandoned" ELSE "resuming"
  BY <1>1 DEF Resolve, Recoveries
<1>3. \/ a = "abandon" /\ gen' = gen /\ pc' = "idle"
      \/ a # "abandon" /\ gen' = gen + 1 /\ pc' = "resolved"
  BY <1>1 DEF Resolve
<1>4. /\ RowsKept
      /\ a = "confirm" => effect'[r.effect].status = "succeeded"
      /\ a = "resume" => effect' = effect
  <2>1. r.effect \in 0..MaxCalls
    BY <1>1 DEF Recoveries
  <2>2. CASE a \in {"confirm", "retry"}
    <3>1. Unknown(r.effect)
      BY <1>1, <2>2 DEF Permitted
    <3>2. r.effect \in Calls /\ effect[r.effect].status = "indeterminate"
      BY <2>1, <3>1, RecoveryAssumption DEF Unknown, Calls
    <3>3. PICK s \in {"succeeded", "failed"} :
            /\ effect' = [effect EXCEPT ![r.effect].status = s]
            /\ a = "confirm" => s = "succeeded"
      BY <2>2 DEF Resolve
    <3> QED BY <1>1, <2>2, <3>2, <3>3, MovedRow DEF Settled
  <2>3. CASE a \notin {"confirm", "retry"}
    BY <2>3 DEF Resolve, RowsKept
  <2> QED BY <2>2, <2>3
<1>5. Justified(recovery'[g], effect'[r.effect])
  <2> SUFFICES ASSUME Decided(recovery'[g]), a \in {"resume", "confirm"}
               PROVE  /\ a = "resume" => effect'[r.effect].status \in ProvenSafe
                      /\ a = "confirm" => effect'[r.effect].status = "succeeded"
    BY <1>2 DEF Justified
  <2>1. r.effect # 0
    BY <1>1, <1>2 DEF Decided, RowsOK, Linked
  <2> QED BY <1>1, <1>4, <2>1 DEF Permitted
<1>6. GenerationsOK' /\ DecisionsOK' /\ EligibleIsSettled' /\ FencedOperation'
  <2>1. \A h \in Generations :
           \/ recovery'[h].action \in {"none", "abandon"}
           \/ SameDecision(h)
           \/ h = gen /\ Justified(recovery'[h], effect'[recovery'[h].effect])
    BY <1>1, <1>2, <1>5 DEF SameDecision
  <2>2. \A h \in Generations : recovery'[h].state = "eligible_auto" =>
                                 recovery[h].state = "eligible_auto"
    BY <1>2
  <2>3. \A h \in Generations : h > gen' => recovery'[h] = recovery[h]
    BY <1>1, <1>2, <1>3
  <2>4. gen' \in {gen, gen + 1}
    BY <1>3
  <2> QED BY <1>4, <2>1, <2>2, <2>3, <2>4, KeptInv
<1>7. ExecutorOK'
  <2>1. CASE a = "abandon"
    BY <1>1, <1>2, <1>3, <2>1 DEF ExecutorOK, OpenStates
  <2>2. CASE a # "abandon"
    <3>1. gen + 1 \in Generations /\ gen + 1 > gen
      BY <1>1 DEF Generations
    <3>2. recovery'[gen'] = NoRecovery
      BY <1>1, <1>2, <1>3, <2>2, <3>1 DEF DecisionInv, GenerationsOK
    <3>3. gen' - 1 = g /\ recovery'[g].state = "resuming"
      BY <1>1, <1>2, <1>3, <2>2
    <3> QED BY <3>2, <3>3 DEF ExecutorOK, OpenStates, NoRecovery
  <2> QED BY <2>1, <2>2
<1>8. TokenOK'
  BY <1>3 DEF TokenOK
<1> QED BY <1>6, <1>7, <1>8 DEF DecisionInv

LEMMA RestartDecision ==
  ASSUME IInv, DecisionInv, Restart
  PROVE  DecisionInv'
<1>1. /\ RowsOK /\ gen \in Generations /\ gen' = gen /\ pc' = "idle"
      /\ effect \in [Calls -> Effects] /\ recovery \in [Generations -> Recoveries]
  BY DEF Restart, IInv, TypeOK, RowsOK, ControlOK
<1>2. RowsKept /\ \A c \in Calls : effect'[c].status = AfterRestart(effect[c].status)
  <2> SUFFICES ASSUME NEW c \in Calls
               PROVE  /\ effect'[c].op = effect[c].op /\ effect'[c].gen = effect[c].gen
                      /\ effect'[c].key = effect[c].key
                      /\ (effect[c].status = "none") = (effect'[c].status = "none")
                      /\ effect[c].status \in Settled =>
                           effect'[c].status = effect[c].status
                      /\ effect'[c].status = AfterRestart(effect[c].status)
    BY DEF RowsKept
  <2>1. effect[c] \in Effects /\ effect[c].status \in EffectStates
    BY <1>1 DEF Effects
  <2>2. effect'[c] = [effect[c] EXCEPT !.status = AfterRestart(effect[c].status)]
    BY DEF Restart
  <2>3. /\ effect'[c].op = effect[c].op /\ effect'[c].gen = effect[c].gen
        /\ effect'[c].key = effect[c].key
        /\ effect'[c].status = AfterRestart(effect[c].status)
    BY <2>1, <2>2 DEF Effects
  <2> QED BY <2>1, <2>3, AfterRestartType DEF AfterRestart, Settled
<1>3. \A g \in Generations :
        \/ recovery'[g] = recovery[g]
        \/ /\ g = gen /\ recovery'[g].action = "none"
           /\ recovery'[g].state = "eligible_auto" =>
                \A c \in Calls : effect'[c].gen = g => effect'[c].status \in Settled
  <2>1. CASE status \notin Interruptible
    BY <2>1 DEF Restart
  <2>2. CASE status \in Interruptible
    <3>1. PICK u \in LatestUnknown :
            LET eligible == EligibleAuto(status, u) IN
            recovery' = [recovery EXCEPT ![gen] =
                 [state |-> IF eligible THEN "eligible_auto" ELSE "awaiting_user",
                  checkpoint |-> checkpoint,
                  effect |-> IF u # 0 THEN u
                             ELSE IF checkpoint.linked THEN checkpoint.call ELSE 0,
                  action |-> "none"]]
      BY <2>2 DEF Restart
    <3> DEFINE e == IF u # 0 THEN u ELSE IF checkpoint.linked THEN checkpoint.call ELSE 0
               st == IF EligibleAuto(status, u) THEN "eligible_auto" ELSE "awaiting_user"
               row == [state |-> st, checkpoint |-> checkpoint, effect |-> e,
                       action |-> "none"]
    <3>2. recovery' = [recovery EXCEPT ![gen] = row]
      BY <3>1
    <3>3. st = "eligible_auto" => u = 0
      BY DEF EligibleAuto
    <3> HIDE DEF e, st
    <3>4. row.state = st /\ row.action = "none"
      OBVIOUS
    <3> HIDE DEF row
    <3>5. recovery'[gen] = row /\ \A g \in Generations : g # gen => recovery'[g] = recovery[g]
      BY <1>1, <3>2
    <3>6. ASSUME u = 0, NEW c \in Calls, effect[c].gen = gen
          PROVE  effect'[c].status \in Settled
      <4>1. 0 \notin Calls
        BY DEF Calls
      <4>2. effect[c].status \in EffectStates /\ effect[c].status # "none"
        BY <1>1, <3>6 DEF Effects, DecisionInv, GenerationsOK, Generations
      <4>3. effect[c].status # "dispatched"
        BY <3>6, <4>1 DEF LatestUnknown, AfterRestart
      <4>4. effect[c].status # "indeterminate"
        BY <3>6, <4>1 DEF LatestUnknown
      <4> QED BY <1>2, <4>2, <4>3, <4>4 DEF AfterRestart, EffectStates, Settled
    <3>7. \A c \in Calls : effect'[c].gen = effect[c].gen
      BY <1>2 DEF RowsKept
    <3> QED BY <1>1, <3>3, <3>4, <3>5, <3>6, <3>7
  <2> QED BY <2>1, <2>2
<1>4. GenerationsOK' /\ DecisionsOK' /\ EligibleIsSettled' /\ FencedOperation'
  <2>1. \A g \in Generations : recovery'[g].action \in {"none", "abandon"} \/ SameDecision(g)
    BY <1>3 DEF SameDecision
  <2>2. \A g \in Generations : g > gen' => recovery'[g] = recovery[g]
    BY <1>1, <1>3 DEF Generations
  <2> QED BY <1>1, <1>2, <1>3, <2>1, <2>2, KeptInv
<1>5. ExecutorOK' /\ TokenOK'
  BY <1>1 DEF ExecutorOK, TokenOK
<1> QED BY <1>4, <1>5 DEF DecisionInv

LEMMA DecisionInitially == Init => DecisionInv
<1> SUFFICES ASSUME Init PROVE DecisionInv
  OBVIOUS
<1>1. /\ gen = 1 /\ pc = "spawned" /\ \A g \in Generations : recovery[g] = NoRecovery
      /\ \A c \in Calls : effect[c] = NoEffect
      /\ 1 \in Generations
  BY RecoveryAssumption DEF Init, Generations
<1>2. NoRecovery.state = "none" /\ NoRecovery.action = "none"
  BY DEF NoRecovery
<1>3. NoEffect.status = "none" /\ NoEffect.gen = 0
  BY DEF NoEffect
<1>4. GenerationsOK
  BY <1>1, <1>3 DEF GenerationsOK
<1>5. ExecutorOK /\ TokenOK
  BY <1>1, <1>2 DEF ExecutorOK, TokenOK, OpenStates
<1>6. DecisionsOK /\ EligibleIsSettled /\ FencedOperation
  BY <1>1, <1>2 DEF DecisionsOK, EligibleIsSettled, FencedOperation, Decided
<1> QED BY <1>4, <1>5, <1>6 DEF DecisionInv

LEMMA DecisionStep == IInv /\ DecisionInv /\ [Next]_vars => DecisionInv'
<1> SUFFICES ASSUME IInv, DecisionInv, [Next]_vars PROVE DecisionInv'
  OBVIOUS
<1>1. CASE LaunchStep
  BY <1>1, QuietInv DEF LaunchStep, LaunchRecovered, Register, Prepare, Start, Stop, runVars,
     rowVars
<1>2. CASE LoopStep
  <2>1. CASE Sample
    BY <2>1, QuietInv DEF Sample, runVars
  <2>2. CASE EndLoop \/ Close \/ FailQueued
    BY <2>2, QuietInv DEF EndLoop, Close, FailQueued, Stop, runVars, rowVars
  <2> QED BY <1>2, <2>1, <2>2, LeaveDecision DEF LoopStep
<1>3. CASE ToolStep \/ Approve \/ Timeout
  <2>1. CASE \E o \in Operations : CallTool(o)
    BY <2>1, QuietInv DEF CallTool, runVars
  <2>2. CASE Authorize \/ Approve
    BY <2>2, QuietInv DEF Authorize, Approve, runVars, rowVars, loopVars
  <2>3. CASE Timeout \/ Drop
    <3>1. tool'.op = tool.op /\ tool'.key = tool.key
      BY <2>3 DEF Timeout, Drop, loopVars, IInv, TypeOK, ControlOK
    <3> QED BY <2>3, <3>1, QuietInv DEF Timeout, Drop, runVars, rowVars, ToolPcs
  <2>4. CASE Complete
    BY <2>4, QuietInv DEF Complete, runVars
  <2> QED BY <1>3, <2>1, <2>2, <2>3, <2>4, FenceDecision, ClaimDecision, DispatchDecision
          DEF ToolStep
<1>4. CASE CancelRow \/ \E who \in {"user", "owner"} : CancelToken(who)
  BY <1>4, QuietInv DEF CancelRow, CancelToken, runVars, rowVars, loopVars
<1>5. CASE \E g \in Generations, a \in Actions : Decide(g, a)
  BY <1>5, ResolveDecision DEF Decide
<1>6. CASE AutoResume
  <2>1. CASE Resolve(gen, "resume")
    BY <2>1, ResolveDecision DEF Actions, IInv, TypeOK, ControlOK
  <2>2. CASE UNCHANGED <<runVars, rowVars, pc>>
    BY <1>6, <2>2, QuietInv DEF AutoResume, runVars, rowVars, loopVars
  <2> QED BY <1>6, <2>1, <2>2 DEF AutoResume
<1>7. CASE Restart
  BY <1>7, RestartDecision
<1>8. CASE UNCHANGED vars
  BY <1>8, QuietInv DEF vars
<1> QED BY <1>1, <1>2, <1>3, <1>4, <1>5, <1>6, <1>7, <1>8 DEF Next, Idle

(* The inductive invariant about decisions, which needs IInv.              *)
THEOREM DecisionInvariance == Spec => []DecisionInv
  BY Initially, Step, DecisionInitially, DecisionStep, PTL DEF Spec

(* A Run is resumed without asking only when every effect of its           *)
(* interrupted generation is settled (recover_interrupted).                *)
THEOREM EligibleSettled == Spec => []EligibleIsSettled
<1>1. DecisionInv => EligibleIsSettled
  BY DEF DecisionInv
<1> QED BY <1>1, DecisionInvariance, PTL

(* Whatever a resumed generation samples, an operation that was decided    *)
(* about is sent again at most once, as a retry, under the key of the      *)
(* interrupted call (recovery_tool_fence, claim_side_effect).              *)
THEOREM OperationFenced == Spec => []FencedOperation
<1>1. DecisionInv => FencedOperation
  BY DEF DecisionInv
<1> QED BY <1>1, DecisionInvariance, PTL
=============================================================================
