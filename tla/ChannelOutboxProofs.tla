-------------------------- MODULE ChannelOutboxProofs --------------------------
(***************************************************************************)
(* What holds of the outbox for any deliveries, workers, attempts, deaths   *)
(* and stalls: the types, that a settled row stays settled, and that what a *)
(* row says can be relied on.  As long as no claim runs out under a live    *)
(* worker that is not sending (MaxStalls = 0): that the outbox implements   *)
(* DeliveryLedger, so that a message is sent again only when its provider   *)
(* asked for it.  With such claims that does not hold: OutboxStall.cfg.     *)
(***************************************************************************)
EXTENDS ChannelOutbox, TLAPS

Holding == {"claimed", "verified", "stale", "marking", "marked"}
Told == {"sending", "answered", "finishing"}

(* A worker past its claim has a row.                                      *)
Busy == \A w \in Worker : pc[w] # "idle" => work[w] \in Delivery

(* A worker sends only a row that is marked, whoever holds its claim by     *)
(* now, and is told "delivered" only of what was taken.                     *)
CallsOK ==
  \A w \in Worker :
    /\ pc[w] \in Told \cup {"marked"} => dispatched[work[w]]
    /\ pc[w] \in Told /\ verdict[w] = "delivered" => sent[work[w]] > 0

(* What holds with stalled workers too.                                     *)
CallInv == TypeOK /\ Busy /\ CallsOK /\ Truthful

(* A worker before its call of the provider holds its claim, which cannot   *)
(* run out, and its message was not sent since it was last asked for; after *)
(* the call the row is still its own or settled as indeterminate.           *)
ClaimsOK ==
  \A w \in Worker :
    /\ pc[w] \in Holding =>
         /\ status[work[w]] = "claimed" /\ token[work[w]] = w /\ ~expired[work[w]]
         /\ sent[work[w]] <= asked[work[w]]
    /\ pc[w] = "marking" => seen[w] = w
    /\ pc[w] \in Told => \/ status[work[w]] = "claimed" /\ token[work[w]] = w
                         \/ status[work[w]] = "indeterminate"

(* A message is taken once more than it was asked for at most, and no more  *)
(* than asked for while its row waits; each request used up an attempt.     *)
AskedOK ==
  \A d \in Delivery :
    /\ sent[d] <= asked[d] + 1
    /\ asked[d] < MaxAttempts
    /\ status[d] \in {"absent"} \cup Waiting => sent[d] <= asked[d] /\ asked[d] <= attempt[d]
    /\ status[d] = "claimed" => asked[d] < attempt[d]

IInv == CallInv /\ stalls = 0 /\ ClaimsOK /\ AskedOK

LedgerStep == [Ledger!LedgerNext]_<<LedgerOf, sent, asked>>

-----------------------------------------------------------------------------
(* The columns and the workers keep their types.                            *)
LEMMA TypeStep == TypeOK /\ Busy /\ [Next]_vars => TypeOK'
  <1> SUFFICES ASSUME TypeOK, Busy, [Next]_vars PROVE TypeOK'
    OBVIOUS
  <1>1. CASE Edit
    BY <1>1, OutboxAssumption DEF Edit, vars, rowVars, workerVars, calls,
       TypeOK, Waiting, Final, Verdicts, Outcome, Busy
  <1>2. ASSUME NEW d \in Delivery, Enqueue(d) PROVE TypeOK'
    BY <1>2, OutboxAssumption DEF Enqueue, vars, rowVars, workerVars, calls,
       TypeOK, Waiting, Final, Verdicts, Outcome, Busy
  <1>3. ASSUME NEW d \in Delivery, Expire(d) PROVE TypeOK'
    BY <1>3, OutboxAssumption DEF Expire, CanExpire, Stalled, Held, At, vars,
       rowVars, workerVars, calls, TypeOK, Waiting, Final, Verdicts, Outcome, Busy
  <1>4. ASSUME NEW w \in Worker, NEW d \in Delivery, Claim(w, d) PROVE TypeOK'
    BY <1>4, OutboxAssumption DEF Claim, At, vars, rowVars, workerVars, calls,
       TypeOK, Waiting, Final, Verdicts, Outcome, Busy
  <1>5. ASSUME NEW w \in Worker, Authorize(w) PROVE TypeOK'
    BY <1>5, OutboxAssumption DEF Authorize, Goto, At, vars, rowVars,
       workerVars, calls, TypeOK, Waiting, Final, Verdicts, Outcome, Busy
  <1>6. ASSUME NEW w \in Worker, Refuse(w) PROVE TypeOK'
    BY <1>6, OutboxAssumption DEF Refuse, At, Drop, Release, vars, rowVars,
       workerVars, calls, TypeOK, Waiting, Final, Verdicts, Outcome, Busy
  <1>7. ASSUME NEW w \in Worker, MarkRead(w) PROVE TypeOK'
    BY <1>7, OutboxAssumption DEF MarkRead, Goto, At, Reread, Drop, vars,
       rowVars, workerVars, calls, TypeOK, Waiting, Final, Verdicts, Outcome, Busy
  <1>8. ASSUME NEW w \in Worker, MarkWrite(w) PROVE TypeOK'
    <2>1. pc' \in [Worker -> {"idle", "claimed", "verified", "stale", "marking",
                              "marked", "sending", "answered", "finishing"}]
      BY <1>8 DEF MarkWrite, Goto, Drop, TypeOK
    <2>2. /\ work' \in [Worker -> Delivery \cup {NoDelivery}]
          /\ seen' \in [Worker -> Worker \cup {NoWorker}]
          /\ verdict' \in [Worker -> Verdicts]
      BY <1>8 DEF MarkWrite, Goto, Drop, TypeOK, Verdicts
    <2>3. dispatched' \in [Delivery -> BOOLEAN]
      BY <1>8 DEF MarkWrite, TypeOK
    <2>4. QED
      BY <1>8, <2>1, <2>2, <2>3 DEF MarkWrite, calls, TypeOK
  <1>9. ASSUME NEW w \in Worker, NEW taken \in BOOLEAN, Send(w, taken) PROVE TypeOK'
    BY <1>9, OutboxAssumption DEF Send, Goto, At, vars, rowVars, workerVars,
       calls, TypeOK, Waiting, Final, Verdicts, Outcome, Busy
  <1>10. ASSUME NEW w \in Worker, NEW v \in Verdicts, Answer(w, v) PROVE TypeOK'
    BY <1>10, OutboxAssumption DEF Answer, Goto, At, vars, rowVars, workerVars,
       calls, TypeOK, Waiting, Final, Verdicts, Outcome, Busy
  <1>11. ASSUME NEW w \in Worker, FinishRead(w) PROVE TypeOK'
    BY <1>11, OutboxAssumption DEF FinishRead, Goto, At, Reread, Drop, vars,
       rowVars, workerVars, calls, TypeOK, Waiting, Final, Verdicts, Outcome, Busy
  <1>12. ASSUME NEW w \in Worker, FinishWrite(w) PROVE TypeOK'
    <2>1. /\ pc' \in [Worker -> {"idle", "claimed", "verified", "stale", "marking",
                                 "marked", "sending", "answered", "finishing"}]
          /\ work' \in [Worker -> Delivery \cup {NoDelivery}]
          /\ seen' \in [Worker -> Worker \cup {NoWorker}]
          /\ verdict' \in [Worker -> Verdicts]
      BY <1>12 DEF FinishWrite, Drop, TypeOK, Verdicts
    <2>2. Outcome(work[w], verdict[w]) \in Waiting \cup Final
      BY DEF Outcome, Waiting, Final
    <2>3. status' \in [Delivery -> {"absent", "claimed"} \cup Waiting \cup Final]
      BY <1>12, <2>2 DEF FinishWrite, Release, rowVars, TypeOK
    <2>4. /\ token' \in [Delivery -> Worker \cup {NoWorker}]
          /\ expired' \in [Delivery -> BOOLEAN]
          /\ attempt' = attempt /\ dispatched' = dispatched
      BY <1>12 DEF FinishWrite, Release, rowVars, TypeOK
    <2>5. asked' \in [Delivery -> Nat]
      BY <1>12 DEF FinishWrite, Release, TypeOK
    <2>6. QED
      BY <1>12, <2>1, <2>3, <2>4, <2>5 DEF FinishWrite, TypeOK
  <1>13. ASSUME NEW w \in Worker, Crash(w) PROVE TypeOK'
    BY <1>13, OutboxAssumption DEF Crash, At, Drop, vars, rowVars, workerVars,
       calls, TypeOK, Waiting, Final, Verdicts, Outcome, Busy
  <1>14. CASE ReconcileSent
    BY <1>14, OutboxAssumption DEF ReconcileSent, ReleaseAll, Overdue, vars,
       rowVars, workerVars, calls, TypeOK, Waiting, Final, Verdicts, Outcome, Busy
  <1>15. CASE ReconcileUnsent
    BY <1>15, OutboxAssumption DEF ReconcileUnsent, ReleaseAll, Overdue, vars,
       rowVars, workerVars, calls, TypeOK, Waiting, Final, Verdicts, Outcome, Busy
  <1>16. CASE UNCHANGED vars
    BY <1>16 DEF vars, rowVars, workerVars, calls, TypeOK, Waiting, Final,
       Verdicts, Outcome, Busy
  <1>17. QED
    BY <1>1, <1>2, <1>3, <1>4, <1>5, <1>6, <1>7, <1>8, <1>9, <1>10, <1>11,
       <1>12, <1>13, <1>14, <1>15, <1>16 DEF Next, WorkerStep

(* A worker past its claim has a row.                                       *)
LEMMA WorkStep == TypeOK /\ Busy /\ [Next]_vars => Busy'
  <1> SUFFICES ASSUME TypeOK, Busy, [Next]_vars PROVE Busy'
    OBVIOUS
  <1>1. CASE Edit
    BY <1>1, OutboxAssumption DEF Edit, vars, rowVars, workerVars, calls, Busy,
       TypeOK
  <1>2. ASSUME NEW d \in Delivery, Enqueue(d) PROVE Busy'
    BY <1>2, OutboxAssumption DEF Enqueue, vars, rowVars, workerVars, calls,
       Busy, TypeOK
  <1>3. ASSUME NEW d \in Delivery, Expire(d) PROVE Busy'
    BY <1>3, OutboxAssumption DEF Expire, CanExpire, Stalled, Held, At, vars,
       rowVars, workerVars, calls, Busy, TypeOK
  <1>4. ASSUME NEW w \in Worker, NEW d \in Delivery, Claim(w, d) PROVE Busy'
    BY <1>4, OutboxAssumption DEF Claim, At, vars, rowVars, workerVars, calls,
       Busy, TypeOK
  <1>5. ASSUME NEW w \in Worker, Authorize(w) PROVE Busy'
    BY <1>5, OutboxAssumption DEF Authorize, Goto, At, vars, rowVars,
       workerVars, calls, Busy, TypeOK
  <1>6. ASSUME NEW w \in Worker, Refuse(w) PROVE Busy'
    BY <1>6, OutboxAssumption DEF Refuse, At, Drop, Release, vars, rowVars,
       workerVars, calls, Busy, TypeOK
  <1>7. ASSUME NEW w \in Worker, MarkRead(w) PROVE Busy'
    BY <1>7, OutboxAssumption DEF MarkRead, Goto, At, Reread, Drop, vars,
       rowVars, workerVars, calls, Busy, TypeOK
  <1>8. ASSUME NEW w \in Worker, MarkWrite(w) PROVE Busy'
    BY <1>8, OutboxAssumption DEF MarkWrite, Goto, At, Unmoved, Drop, vars,
       rowVars, workerVars, calls, Busy, TypeOK
  <1>9. ASSUME NEW w \in Worker, NEW taken \in BOOLEAN, Send(w, taken) PROVE Busy'
    BY <1>9, OutboxAssumption DEF Send, Goto, At, vars, rowVars, workerVars,
       calls, Busy, TypeOK
  <1>10. ASSUME NEW w \in Worker, NEW v \in Verdicts, Answer(w, v) PROVE Busy'
    BY <1>10, OutboxAssumption DEF Answer, Goto, At, vars, rowVars, workerVars,
       calls, Busy, TypeOK
  <1>11. ASSUME NEW w \in Worker, FinishRead(w) PROVE Busy'
    BY <1>11, OutboxAssumption DEF FinishRead, Goto, At, Reread, Drop, vars,
       rowVars, workerVars, calls, Busy, TypeOK
  <1>12. ASSUME NEW w \in Worker, FinishWrite(w) PROVE Busy'
    BY <1>12, OutboxAssumption DEF FinishWrite, At, Unmoved, Release, Drop,
       Asks, vars, rowVars, workerVars, calls, Busy, TypeOK
  <1>13. ASSUME NEW w \in Worker, Crash(w) PROVE Busy'
    BY <1>13, OutboxAssumption DEF Crash, At, Drop, vars, rowVars, workerVars,
       calls, Busy, TypeOK
  <1>14. CASE ReconcileSent
    BY <1>14, OutboxAssumption DEF ReconcileSent, ReleaseAll, Overdue, vars,
       rowVars, workerVars, calls, Busy, TypeOK
  <1>15. CASE ReconcileUnsent
    BY <1>15, OutboxAssumption DEF ReconcileUnsent, ReleaseAll, Overdue, vars,
       rowVars, workerVars, calls, Busy, TypeOK
  <1>16. CASE UNCHANGED vars
    BY <1>16 DEF vars, rowVars, workerVars, calls, Busy, TypeOK
  <1>17. QED
    BY <1>1, <1>2, <1>3, <1>4, <1>5, <1>6, <1>7, <1>8, <1>9, <1>10, <1>11,
       <1>12, <1>13, <1>14, <1>15, <1>16 DEF Next, WorkerStep

(* What was sent was marked.                                                *)
LEMMA CallsStep == CallInv /\ [Next]_vars => CallsOK'
  <1> SUFFICES ASSUME CallInv, [Next]_vars PROVE CallsOK'
    OBVIOUS
  <1>1. CASE Edit
    BY <1>1, OutboxAssumption DEF Edit, vars, rowVars, workerVars, calls,
       CallInv, Busy, TypeOK, CallsOK, Truthful, Told, Waiting, Final, Verdicts,
       Outcome
  <1>2. ASSUME NEW d \in Delivery, Enqueue(d) PROVE CallsOK'
    BY <1>2, OutboxAssumption DEF Enqueue, vars, rowVars, workerVars, calls,
       CallInv, Busy, TypeOK, CallsOK, Truthful, Told, Waiting, Final, Verdicts,
       Outcome
  <1>3. ASSUME NEW d \in Delivery, Expire(d) PROVE CallsOK'
    BY <1>3, OutboxAssumption DEF Expire, CanExpire, Stalled, Held, At, vars,
       rowVars, workerVars, calls, CallInv, Busy, TypeOK, CallsOK, Truthful, Told,
       Waiting, Final, Verdicts, Outcome
  <1>4. ASSUME NEW w \in Worker, NEW d \in Delivery, Claim(w, d) PROVE CallsOK'
    BY <1>4, OutboxAssumption DEF Claim, At, vars, rowVars, workerVars, calls,
       CallInv, Busy, TypeOK, CallsOK, Truthful, Told, Waiting, Final, Verdicts,
       Outcome
  <1>5. ASSUME NEW w \in Worker, Authorize(w) PROVE CallsOK'
    BY <1>5, OutboxAssumption DEF Authorize, Goto, At, vars, rowVars,
       workerVars, calls, CallInv, Busy, TypeOK, CallsOK, Truthful, Told, Waiting,
       Final, Verdicts, Outcome
  <1>6. ASSUME NEW w \in Worker, Refuse(w) PROVE CallsOK'
    BY <1>6, OutboxAssumption DEF Refuse, At, Drop, Release, vars, rowVars,
       workerVars, calls, CallInv, Busy, TypeOK, CallsOK, Truthful, Told, Waiting,
       Final, Verdicts, Outcome
  <1>7. ASSUME NEW w \in Worker, MarkRead(w) PROVE CallsOK'
    BY <1>7, OutboxAssumption DEF MarkRead, Goto, At, Reread, Drop, vars,
       rowVars, workerVars, calls, CallInv, Busy, TypeOK, CallsOK, Truthful, Told,
       Waiting, Final, Verdicts, Outcome
  <1>8. ASSUME NEW w \in Worker, MarkWrite(w) PROVE CallsOK'
    BY <1>8, OutboxAssumption DEF MarkWrite, Goto, At, Unmoved, Drop, vars,
       rowVars, workerVars, calls, CallInv, Busy, TypeOK, CallsOK, Truthful, Told,
       Waiting, Final, Verdicts, Outcome
  <1>9. ASSUME NEW w \in Worker, NEW taken \in BOOLEAN, Send(w, taken) PROVE CallsOK'
    BY <1>9, OutboxAssumption DEF Send, Goto, At, vars, rowVars, workerVars,
       calls, CallInv, Busy, TypeOK, CallsOK, Truthful, Told, Waiting, Final,
       Verdicts, Outcome
  <1>10. ASSUME NEW w \in Worker, NEW v \in Verdicts, Answer(w, v) PROVE CallsOK'
    BY <1>10, OutboxAssumption DEF Answer, Goto, At, vars, rowVars, workerVars,
       calls, CallInv, Busy, TypeOK, CallsOK, Truthful, Told, Waiting, Final,
       Verdicts, Outcome
  <1>11. ASSUME NEW w \in Worker, FinishRead(w) PROVE CallsOK'
    BY <1>11, OutboxAssumption DEF FinishRead, Goto, At, Reread, Drop, vars,
       rowVars, workerVars, calls, CallInv, Busy, TypeOK, CallsOK, Truthful, Told,
       Waiting, Final, Verdicts, Outcome
  <1>12. ASSUME NEW w \in Worker, FinishWrite(w) PROVE CallsOK'
    BY <1>12, OutboxAssumption DEF FinishWrite, At, Unmoved, Release, Drop,
       Asks, vars, rowVars, workerVars, calls, CallInv, Busy, TypeOK, CallsOK,
       Truthful, Told, Waiting, Final, Verdicts, Outcome
  <1>13. ASSUME NEW w \in Worker, Crash(w) PROVE CallsOK'
    BY <1>13, OutboxAssumption DEF Crash, At, Drop, vars, rowVars, workerVars,
       calls, CallInv, Busy, TypeOK, CallsOK, Truthful, Told, Waiting, Final,
       Verdicts, Outcome
  <1>14. CASE ReconcileSent
    BY <1>14, OutboxAssumption DEF ReconcileSent, ReleaseAll, Overdue, vars,
       rowVars, workerVars, calls, CallInv, Busy, TypeOK, CallsOK, Truthful, Told,
       Waiting, Final, Verdicts, Outcome
  <1>15. CASE ReconcileUnsent
    BY <1>15, OutboxAssumption DEF ReconcileUnsent, ReleaseAll, Overdue, vars,
       rowVars, workerVars, calls, CallInv, Busy, TypeOK, CallsOK, Truthful, Told,
       Waiting, Final, Verdicts, Outcome
  <1>16. CASE UNCHANGED vars
    BY <1>16 DEF vars, rowVars, workerVars, calls, CallInv, Busy, TypeOK,
       CallsOK, Truthful, Told, Waiting, Final, Verdicts, Outcome
  <1>17. QED
    BY <1>1, <1>2, <1>3, <1>4, <1>5, <1>6, <1>7, <1>8, <1>9, <1>10, <1>11,
       <1>12, <1>13, <1>14, <1>15, <1>16 DEF Next, WorkerStep

(* Rows can be relied on.                                                   *)
LEMMA TruthStep == CallInv /\ [Next]_vars => Truthful'
  <1> SUFFICES ASSUME CallInv, [Next]_vars PROVE Truthful'
    OBVIOUS
  <1>1. CASE Edit
    BY <1>1, OutboxAssumption DEF Edit, vars, rowVars, workerVars, calls,
       CallInv, Busy, TypeOK, CallsOK, Truthful, Told, Waiting, Final, Verdicts,
       Outcome
  <1>2. ASSUME NEW d \in Delivery, Enqueue(d) PROVE Truthful'
    BY <1>2, OutboxAssumption DEF Enqueue, vars, rowVars, workerVars, calls,
       CallInv, Busy, TypeOK, CallsOK, Truthful, Told, Waiting, Final, Verdicts,
       Outcome
  <1>3. ASSUME NEW d \in Delivery, Expire(d) PROVE Truthful'
    BY <1>3, OutboxAssumption DEF Expire, CanExpire, Stalled, Held, At, vars,
       rowVars, workerVars, calls, CallInv, Busy, TypeOK, CallsOK, Truthful, Told,
       Waiting, Final, Verdicts, Outcome
  <1>4. ASSUME NEW w \in Worker, NEW d \in Delivery, Claim(w, d) PROVE Truthful'
    BY <1>4, OutboxAssumption DEF Claim, At, vars, rowVars, workerVars, calls,
       CallInv, Busy, TypeOK, CallsOK, Truthful, Told, Waiting, Final, Verdicts,
       Outcome
  <1>5. ASSUME NEW w \in Worker, Authorize(w) PROVE Truthful'
    BY <1>5, OutboxAssumption DEF Authorize, Goto, At, vars, rowVars,
       workerVars, calls, CallInv, Busy, TypeOK, CallsOK, Truthful, Told, Waiting,
       Final, Verdicts, Outcome
  <1>6. ASSUME NEW w \in Worker, Refuse(w) PROVE Truthful'
    BY <1>6, OutboxAssumption DEF Refuse, At, Drop, Release, vars, rowVars,
       workerVars, calls, CallInv, Busy, TypeOK, CallsOK, Truthful, Told, Waiting,
       Final, Verdicts, Outcome
  <1>7. ASSUME NEW w \in Worker, MarkRead(w) PROVE Truthful'
    BY <1>7, OutboxAssumption DEF MarkRead, Goto, At, Reread, Drop, vars,
       rowVars, workerVars, calls, CallInv, Busy, TypeOK, CallsOK, Truthful, Told,
       Waiting, Final, Verdicts, Outcome
  <1>8. ASSUME NEW w \in Worker, MarkWrite(w) PROVE Truthful'
    BY <1>8, OutboxAssumption DEF MarkWrite, Goto, At, Unmoved, Drop, vars,
       rowVars, workerVars, calls, CallInv, Busy, TypeOK, CallsOK, Truthful, Told,
       Waiting, Final, Verdicts, Outcome
  <1>9. ASSUME NEW w \in Worker, NEW taken \in BOOLEAN, Send(w, taken) PROVE Truthful'
    BY <1>9, OutboxAssumption DEF Send, Goto, At, vars, rowVars, workerVars,
       calls, CallInv, Busy, TypeOK, CallsOK, Truthful, Told, Waiting, Final,
       Verdicts, Outcome
  <1>10. ASSUME NEW w \in Worker, NEW v \in Verdicts, Answer(w, v) PROVE Truthful'
    BY <1>10, OutboxAssumption DEF Answer, Goto, At, vars, rowVars, workerVars,
       calls, CallInv, Busy, TypeOK, CallsOK, Truthful, Told, Waiting, Final,
       Verdicts, Outcome
  <1>11. ASSUME NEW w \in Worker, FinishRead(w) PROVE Truthful'
    BY <1>11, OutboxAssumption DEF FinishRead, Goto, At, Reread, Drop, vars,
       rowVars, workerVars, calls, CallInv, Busy, TypeOK, CallsOK, Truthful, Told,
       Waiting, Final, Verdicts, Outcome
  <1>12. ASSUME NEW w \in Worker, FinishWrite(w) PROVE Truthful'
    BY <1>12, OutboxAssumption DEF FinishWrite, At, Unmoved, Release, Drop,
       Asks, vars, rowVars, workerVars, calls, CallInv, Busy, TypeOK, CallsOK,
       Truthful, Told, Waiting, Final, Verdicts, Outcome
  <1>13. ASSUME NEW w \in Worker, Crash(w) PROVE Truthful'
    BY <1>13, OutboxAssumption DEF Crash, At, Drop, vars, rowVars, workerVars,
       calls, CallInv, Busy, TypeOK, CallsOK, Truthful, Told, Waiting, Final,
       Verdicts, Outcome
  <1>14. CASE ReconcileSent
    BY <1>14, OutboxAssumption DEF ReconcileSent, ReleaseAll, Overdue, vars,
       rowVars, workerVars, calls, CallInv, Busy, TypeOK, CallsOK, Truthful, Told,
       Waiting, Final, Verdicts, Outcome
  <1>15. CASE ReconcileUnsent
    BY <1>15, OutboxAssumption DEF ReconcileUnsent, ReleaseAll, Overdue, vars,
       rowVars, workerVars, calls, CallInv, Busy, TypeOK, CallsOK, Truthful, Told,
       Waiting, Final, Verdicts, Outcome
  <1>16. CASE UNCHANGED vars
    BY <1>16 DEF vars, rowVars, workerVars, calls, CallInv, Busy, TypeOK,
       CallsOK, Truthful, Told, Waiting, Final, Verdicts, Outcome
  <1>17. QED
    BY <1>1, <1>2, <1>3, <1>4, <1>5, <1>6, <1>7, <1>8, <1>9, <1>10, <1>11,
       <1>12, <1>13, <1>14, <1>15, <1>16 DEF Next, WorkerStep

(* Workers hold what they send.                                             *)
LEMMA ClaimsStep == MaxStalls = 0 /\ IInv /\ [Next]_vars => ClaimsOK'
  <1> SUFFICES ASSUME MaxStalls = 0, IInv, [Next]_vars PROVE ClaimsOK'
    OBVIOUS
  <1>1. CASE Edit
    BY <1>1, OutboxAssumption DEF Edit, vars, rowVars, workerVars, calls, IInv,
       CallInv, Busy, TypeOK, CallsOK, Truthful, ClaimsOK, AskedOK, Holding, Told,
       Waiting, Final, Verdicts, Outcome
  <1>2. ASSUME NEW d \in Delivery, Enqueue(d) PROVE ClaimsOK'
    BY <1>2, OutboxAssumption DEF Enqueue, vars, rowVars, workerVars, calls,
       IInv, CallInv, Busy, TypeOK, CallsOK, Truthful, ClaimsOK, AskedOK, Holding,
       Told, Waiting, Final, Verdicts, Outcome
  <1>3. ASSUME NEW d \in Delivery, Expire(d) PROVE ClaimsOK'
    BY <1>3, OutboxAssumption DEF Expire, CanExpire, Stalled, Held, At, vars,
       rowVars, workerVars, calls, IInv, CallInv, Busy, TypeOK, CallsOK, Truthful,
       ClaimsOK, AskedOK, Holding, Told, Waiting, Final, Verdicts, Outcome
  <1>4. ASSUME NEW w \in Worker, NEW d \in Delivery, Claim(w, d) PROVE ClaimsOK'
    BY <1>4, OutboxAssumption DEF Claim, At, vars, rowVars, workerVars, calls,
       IInv, CallInv, Busy, TypeOK, CallsOK, Truthful, ClaimsOK, AskedOK, Holding,
       Told, Waiting, Final, Verdicts, Outcome
  <1>5. ASSUME NEW w \in Worker, Authorize(w) PROVE ClaimsOK'
    BY <1>5, OutboxAssumption DEF Authorize, Goto, At, vars, rowVars,
       workerVars, calls, IInv, CallInv, Busy, TypeOK, CallsOK, Truthful, ClaimsOK,
       AskedOK, Holding, Told, Waiting, Final, Verdicts, Outcome
  <1>6. ASSUME NEW w \in Worker, Refuse(w) PROVE ClaimsOK'
    BY <1>6, OutboxAssumption DEF Refuse, At, Drop, Release, vars, rowVars,
       workerVars, calls, IInv, CallInv, Busy, TypeOK, CallsOK, Truthful, ClaimsOK,
       AskedOK, Holding, Told, Waiting, Final, Verdicts, Outcome
  <1>7. ASSUME NEW w \in Worker, MarkRead(w) PROVE ClaimsOK'
    BY <1>7, OutboxAssumption DEF MarkRead, Goto, At, Reread, Drop, vars,
       rowVars, workerVars, calls, IInv, CallInv, Busy, TypeOK, CallsOK, Truthful,
       ClaimsOK, AskedOK, Holding, Told, Waiting, Final, Verdicts, Outcome
  <1>8. ASSUME NEW w \in Worker, MarkWrite(w) PROVE ClaimsOK'
    BY <1>8, OutboxAssumption DEF MarkWrite, Goto, At, Unmoved, Drop, vars,
       rowVars, workerVars, calls, IInv, CallInv, Busy, TypeOK, CallsOK, Truthful,
       ClaimsOK, AskedOK, Holding, Told, Waiting, Final, Verdicts, Outcome
  <1>9. ASSUME NEW w \in Worker, NEW taken \in BOOLEAN, Send(w, taken) PROVE ClaimsOK'
    BY <1>9, OutboxAssumption DEF Send, Goto, At, vars, rowVars, workerVars,
       calls, IInv, CallInv, Busy, TypeOK, CallsOK, Truthful, ClaimsOK, AskedOK,
       Holding, Told, Waiting, Final, Verdicts, Outcome
  <1>10. ASSUME NEW w \in Worker, NEW v \in Verdicts, Answer(w, v) PROVE ClaimsOK'
    BY <1>10, OutboxAssumption DEF Answer, Goto, At, vars, rowVars, workerVars,
       calls, IInv, CallInv, Busy, TypeOK, CallsOK, Truthful, ClaimsOK, AskedOK,
       Holding, Told, Waiting, Final, Verdicts, Outcome
  <1>11. ASSUME NEW w \in Worker, FinishRead(w) PROVE ClaimsOK'
    BY <1>11, OutboxAssumption DEF FinishRead, Goto, At, Reread, Drop, vars,
       rowVars, workerVars, calls, IInv, CallInv, Busy, TypeOK, CallsOK, Truthful,
       ClaimsOK, AskedOK, Holding, Told, Waiting, Final, Verdicts, Outcome
  <1>12. ASSUME NEW w \in Worker, FinishWrite(w) PROVE ClaimsOK'
    BY <1>12, OutboxAssumption DEF FinishWrite, At, Unmoved, Release, Drop,
       Asks, vars, rowVars, workerVars, calls, IInv, CallInv, Busy, TypeOK,
       CallsOK, Truthful, ClaimsOK, AskedOK, Holding, Told, Waiting, Final,
       Verdicts, Outcome
  <1>13. ASSUME NEW w \in Worker, Crash(w) PROVE ClaimsOK'
    BY <1>13, OutboxAssumption DEF Crash, At, Drop, vars, rowVars, workerVars,
       calls, IInv, CallInv, Busy, TypeOK, CallsOK, Truthful, ClaimsOK, AskedOK,
       Holding, Told, Waiting, Final, Verdicts, Outcome
  <1>14. CASE ReconcileSent
    BY <1>14, OutboxAssumption DEF ReconcileSent, ReleaseAll, Overdue, vars,
       rowVars, workerVars, calls, IInv, CallInv, Busy, TypeOK, CallsOK, Truthful,
       ClaimsOK, AskedOK, Holding, Told, Waiting, Final, Verdicts, Outcome
  <1>15. CASE ReconcileUnsent
    BY <1>15, OutboxAssumption DEF ReconcileUnsent, ReleaseAll, Overdue, vars,
       rowVars, workerVars, calls, IInv, CallInv, Busy, TypeOK, CallsOK, Truthful,
       ClaimsOK, AskedOK, Holding, Told, Waiting, Final, Verdicts, Outcome
  <1>16. CASE UNCHANGED vars
    BY <1>16 DEF vars, rowVars, workerVars, calls, IInv, CallInv, Busy, TypeOK,
       CallsOK, Truthful, ClaimsOK, AskedOK, Holding, Told, Waiting, Final,
       Verdicts, Outcome
  <1>17. QED
    BY <1>1, <1>2, <1>3, <1>4, <1>5, <1>6, <1>7, <1>8, <1>9, <1>10, <1>11,
       <1>12, <1>13, <1>14, <1>15, <1>16 DEF Next, WorkerStep

(* Sent as often as asked for.                                              *)
LEMMA AskedStep == MaxStalls = 0 /\ IInv /\ [Next]_vars => AskedOK'
  <1> SUFFICES ASSUME MaxStalls = 0, IInv, [Next]_vars PROVE AskedOK'
    OBVIOUS
  <1>1. CASE Edit
    BY <1>1, OutboxAssumption DEF Edit, vars, rowVars, workerVars, calls, IInv,
       CallInv, Busy, TypeOK, CallsOK, Truthful, ClaimsOK, AskedOK, Holding, Told,
       Waiting, Final, Verdicts, Outcome
  <1>2. ASSUME NEW d \in Delivery, Enqueue(d) PROVE AskedOK'
    BY <1>2, OutboxAssumption DEF Enqueue, vars, rowVars, workerVars, calls,
       IInv, CallInv, Busy, TypeOK, CallsOK, Truthful, ClaimsOK, AskedOK, Holding,
       Told, Waiting, Final, Verdicts, Outcome
  <1>3. ASSUME NEW d \in Delivery, Expire(d) PROVE AskedOK'
    BY <1>3, OutboxAssumption DEF Expire, CanExpire, Stalled, Held, At, vars,
       rowVars, workerVars, calls, IInv, CallInv, Busy, TypeOK, CallsOK, Truthful,
       ClaimsOK, AskedOK, Holding, Told, Waiting, Final, Verdicts, Outcome
  <1>4. ASSUME NEW w \in Worker, NEW d \in Delivery, Claim(w, d) PROVE AskedOK'
    BY <1>4, OutboxAssumption DEF Claim, At, vars, rowVars, workerVars, calls,
       IInv, CallInv, Busy, TypeOK, CallsOK, Truthful, ClaimsOK, AskedOK, Holding,
       Told, Waiting, Final, Verdicts, Outcome
  <1>5. ASSUME NEW w \in Worker, Authorize(w) PROVE AskedOK'
    BY <1>5, OutboxAssumption DEF Authorize, Goto, At, vars, rowVars,
       workerVars, calls, IInv, CallInv, Busy, TypeOK, CallsOK, Truthful, ClaimsOK,
       AskedOK, Holding, Told, Waiting, Final, Verdicts, Outcome
  <1>6. ASSUME NEW w \in Worker, Refuse(w) PROVE AskedOK'
    BY <1>6, OutboxAssumption DEF Refuse, At, Drop, Release, vars, rowVars,
       workerVars, calls, IInv, CallInv, Busy, TypeOK, CallsOK, Truthful, ClaimsOK,
       AskedOK, Holding, Told, Waiting, Final, Verdicts, Outcome
  <1>7. ASSUME NEW w \in Worker, MarkRead(w) PROVE AskedOK'
    BY <1>7, OutboxAssumption DEF MarkRead, Goto, At, Reread, Drop, vars,
       rowVars, workerVars, calls, IInv, CallInv, Busy, TypeOK, CallsOK, Truthful,
       ClaimsOK, AskedOK, Holding, Told, Waiting, Final, Verdicts, Outcome
  <1>8. ASSUME NEW w \in Worker, MarkWrite(w) PROVE AskedOK'
    BY <1>8, OutboxAssumption DEF MarkWrite, Goto, At, Unmoved, Drop, vars,
       rowVars, workerVars, calls, IInv, CallInv, Busy, TypeOK, CallsOK, Truthful,
       ClaimsOK, AskedOK, Holding, Told, Waiting, Final, Verdicts, Outcome
  <1>9. ASSUME NEW w \in Worker, NEW taken \in BOOLEAN, Send(w, taken) PROVE AskedOK'
    BY <1>9, OutboxAssumption DEF Send, Goto, At, vars, rowVars, workerVars,
       calls, IInv, CallInv, Busy, TypeOK, CallsOK, Truthful, ClaimsOK, AskedOK,
       Holding, Told, Waiting, Final, Verdicts, Outcome
  <1>10. ASSUME NEW w \in Worker, NEW v \in Verdicts, Answer(w, v) PROVE AskedOK'
    BY <1>10, OutboxAssumption DEF Answer, Goto, At, vars, rowVars, workerVars,
       calls, IInv, CallInv, Busy, TypeOK, CallsOK, Truthful, ClaimsOK, AskedOK,
       Holding, Told, Waiting, Final, Verdicts, Outcome
  <1>11. ASSUME NEW w \in Worker, FinishRead(w) PROVE AskedOK'
    BY <1>11, OutboxAssumption DEF FinishRead, Goto, At, Reread, Drop, vars,
       rowVars, workerVars, calls, IInv, CallInv, Busy, TypeOK, CallsOK, Truthful,
       ClaimsOK, AskedOK, Holding, Told, Waiting, Final, Verdicts, Outcome
  <1>12. ASSUME NEW w \in Worker, FinishWrite(w) PROVE AskedOK'
    BY <1>12, OutboxAssumption DEF FinishWrite, At, Unmoved, Release, Drop,
       Asks, vars, rowVars, workerVars, calls, IInv, CallInv, Busy, TypeOK,
       CallsOK, Truthful, ClaimsOK, AskedOK, Holding, Told, Waiting, Final,
       Verdicts, Outcome
  <1>13. ASSUME NEW w \in Worker, Crash(w) PROVE AskedOK'
    BY <1>13, OutboxAssumption DEF Crash, At, Drop, vars, rowVars, workerVars,
       calls, IInv, CallInv, Busy, TypeOK, CallsOK, Truthful, ClaimsOK, AskedOK,
       Holding, Told, Waiting, Final, Verdicts, Outcome
  <1>14. CASE ReconcileSent
    BY <1>14, OutboxAssumption DEF ReconcileSent, ReleaseAll, Overdue, vars,
       rowVars, workerVars, calls, IInv, CallInv, Busy, TypeOK, CallsOK, Truthful,
       ClaimsOK, AskedOK, Holding, Told, Waiting, Final, Verdicts, Outcome
  <1>15. CASE ReconcileUnsent
    BY <1>15, OutboxAssumption DEF ReconcileUnsent, ReleaseAll, Overdue, vars,
       rowVars, workerVars, calls, IInv, CallInv, Busy, TypeOK, CallsOK, Truthful,
       ClaimsOK, AskedOK, Holding, Told, Waiting, Final, Verdicts, Outcome
  <1>16. CASE UNCHANGED vars
    BY <1>16 DEF vars, rowVars, workerVars, calls, IInv, CallInv, Busy, TypeOK,
       CallsOK, Truthful, ClaimsOK, AskedOK, Holding, Told, Waiting, Final,
       Verdicts, Outcome
  <1>17. QED
    BY <1>1, <1>2, <1>3, <1>4, <1>5, <1>6, <1>7, <1>8, <1>9, <1>10, <1>11,
       <1>12, <1>13, <1>14, <1>15, <1>16 DEF Next, WorkerStep

(* What the ledger does not see.                                            *)
LEMMA SameLedger ==
  ASSUME UNCHANGED <<status, dispatched, sent, asked>>
  PROVE  LedgerOf' = LedgerOf /\ sent' = sent /\ asked' = asked
  BY DEF LedgerOf

(* Every step is one of the ledger or none.                                 *)
LEMMA RefineStep == IInv /\ [Next]_vars => LedgerStep
  <1> SUFFICES ASSUME IInv, [Next]_vars PROVE LedgerStep
    OBVIOUS
  <1>1. CASE Edit
    <2>1. UNCHANGED <<status, dispatched, sent, asked>>
      BY <1>1 DEF Edit, calls, rowVars
    <2>2. QED
      BY <2>1, SameLedger DEF LedgerStep
  <1>2. ASSUME NEW d \in Delivery, Enqueue(d) PROVE LedgerStep
    <2>1. Ledger!Add(d)
      BY <1>2 DEF Enqueue, calls, IInv, CallInv, TypeOK, LedgerOf, Ledger!Add, Ledger!MoveAll, Waiting, Final
    <2>2. QED
      BY <2>1 DEF LedgerStep, Ledger!LedgerNext
  <1>3. ASSUME NEW d \in Delivery, Expire(d) PROVE LedgerStep
    <2>1. UNCHANGED <<status, dispatched, sent, asked>>
      BY <1>3 DEF Expire, calls, rowVars
    <2>2. QED
      BY <2>1, SameLedger DEF LedgerStep
  <1>4. ASSUME NEW w \in Worker, NEW d \in Delivery, Claim(w, d) PROVE LedgerStep
    <2>1. CASE dispatched[d]
      <3>1. Ledger!TryOnce(d)
        BY <1>4, <2>1 DEF Claim, calls, IInv, CallInv, TypeOK, LedgerOf, Ledger!TryOnce, Ledger!MoveAll, Waiting, Final
      <3>2. QED
        BY <3>1 DEF LedgerStep, Ledger!LedgerNext
    <2>2. CASE ~dispatched[d]
      BY <1>4, <2>2 DEF Claim, calls, IInv, CallInv, TypeOK, LedgerOf, LedgerStep, Waiting, Final
    <2>3. QED
      BY <2>1, <2>2
  <1>5. ASSUME NEW w \in Worker, Authorize(w) PROVE LedgerStep
    <2>1. UNCHANGED <<status, dispatched, sent, asked>>
      BY <1>5 DEF Authorize, calls, rowVars
    <2>2. QED
      BY <2>1, SameLedger DEF LedgerStep
  <1>6. ASSUME NEW w \in Worker, Refuse(w) PROVE LedgerStep
    <2> DEFINE d == work[w]
    <2>1. d \in Delivery /\ status[d] = "claimed" /\ token[d] = w
      BY <1>6 DEF Refuse, calls, At, IInv, CallInv, Busy, CallsOK, ClaimsOK, Holding
    <2>2. CASE dispatched[d]
      <3>1. Ledger!Settle({d})
        BY <1>6, <2>1, <2>2 DEF Refuse, calls, Release, IInv, CallInv, TypeOK, LedgerOf, Ledger!Settle,
           Ledger!MoveAll, Final
      <3>2. QED
        BY <2>1, <3>1 DEF LedgerStep, Ledger!LedgerNext
    <2>3. CASE ~dispatched[d]
      <3>1. Ledger!Abandon(d)
        BY <1>6, <2>1, <2>3 DEF Refuse, calls, Release, IInv, CallInv, TypeOK, LedgerOf, Ledger!Abandon,
           Ledger!MoveAll, Final
      <3>2. QED
        BY <2>1, <3>1 DEF LedgerStep, Ledger!LedgerNext
    <2>4. QED
      BY <2>2, <2>3
  <1>7. ASSUME NEW w \in Worker, MarkRead(w) PROVE LedgerStep
    <2>1. UNCHANGED <<status, dispatched, sent, asked>>
      BY <1>7 DEF MarkRead, calls, rowVars, Reread
    <2>2. QED
      BY <2>1, SameLedger DEF LedgerStep
  <1>8. ASSUME NEW w \in Worker, MarkWrite(w) PROVE LedgerStep
    <2> DEFINE d == work[w]
    <2>1. d \in Delivery /\ status[d] = "claimed" /\ Unmoved(w)
      BY <1>8 DEF MarkWrite, At, Unmoved, IInv, CallInv, Busy, CallsOK, ClaimsOK, Holding
    <2>2. dispatched' = [dispatched EXCEPT ![d] = TRUE] /\ UNCHANGED <<status, sent, asked>>
      BY <1>8, <2>1 DEF MarkWrite, calls
    <2>3. CASE dispatched[d]
      <3>1. dispatched' = dispatched
        BY <2>1, <2>2, <2>3 DEF IInv, CallInv, TypeOK
      <3>2. QED
        BY <2>2, <3>1, SameLedger DEF LedgerStep
    <2>4. CASE ~dispatched[d]
      <3>1. Ledger!TryOnce(d)
        BY <2>1, <2>2, <2>4 DEF IInv, CallInv, TypeOK, LedgerOf, Ledger!TryOnce, Ledger!MoveAll, Final
      <3>2. QED
        BY <2>1, <3>1 DEF LedgerStep, Ledger!LedgerNext
    <2>5. QED
      BY <2>3, <2>4
  <1>9. ASSUME NEW w \in Worker, NEW taken \in BOOLEAN, Send(w, taken) PROVE LedgerStep
    <2> DEFINE d == work[w]
    <2>1. d \in Delivery /\ status[d] = "claimed" /\ dispatched[d] /\ sent[d] <= asked[d]
      BY <1>9 DEF Send, At, IInv, CallInv, Busy, CallsOK, ClaimsOK, Holding, Told
    <2>2. LedgerOf[d] = "out" /\ LedgerOf' = LedgerOf /\ asked' = asked
      BY <1>9, <2>1 DEF Send, LedgerOf, rowVars, Final
    <2>3. CASE taken
      <3>1. Ledger!Reach(d)
        BY <1>9, <2>1, <2>2, <2>3 DEF Send, Ledger!Reach, IInv, CallInv, TypeOK
      <3>2. QED
        BY <2>1, <3>1 DEF LedgerStep, Ledger!LedgerNext
    <2>4. CASE ~taken
      <3>1. sent' = sent
        BY <1>9, <2>1, <2>4 DEF Send, IInv, CallInv, TypeOK
      <3>2. QED
        BY <2>2, <3>1 DEF LedgerStep
    <2>5. QED
      BY <2>3, <2>4
  <1>10. ASSUME NEW w \in Worker, NEW v \in Verdicts, Answer(w, v) PROVE LedgerStep
    <2>1. UNCHANGED <<status, dispatched, sent, asked>>
      BY <1>10 DEF Answer, calls, rowVars
    <2>2. QED
      BY <2>1, SameLedger DEF LedgerStep
  <1>11. ASSUME NEW w \in Worker, FinishRead(w) PROVE LedgerStep
    <2>1. UNCHANGED <<status, dispatched, sent, asked>>
      BY <1>11 DEF FinishRead, calls, rowVars, Reread
    <2>2. QED
      BY <2>1, SameLedger DEF LedgerStep
  <1>12. ASSUME NEW w \in Worker, FinishWrite(w) PROVE LedgerStep
    <2> DEFINE d == work[w]
               s == Outcome(d, verdict[w])
    <2>1. d \in Delivery /\ dispatched[d] /\ UNCHANGED <<dispatched, sent>>
      BY <1>12 DEF FinishWrite, At, IInv, CallInv, Busy, CallsOK, Told, Release, rowVars
    <2>2. CASE ~Unmoved(w)
      BY <1>12, <2>1, <2>2, SameLedger DEF FinishWrite, rowVars, LedgerStep
    <2>3. CASE Unmoved(w)
      <3>1. /\ status[d] = "claimed" /\ status' = [status EXCEPT ![d] = s]
            /\ asked' = IF s = "retry_scheduled" THEN [asked EXCEPT ![d] = @ + 1] ELSE asked
        BY <1>12, <2>3 DEF FinishWrite, Unmoved, Release, Asks
      <3>2. CASE s = "retry_scheduled"
        <4>1. attempt[d] < MaxAttempts
          BY <3>2 DEF Outcome
        <4>2. asked[d] + 1 < MaxAttempts
          BY <2>1, <3>1, <4>1, OutboxAssumption DEF IInv, CallInv, TypeOK, AskedOK
        <4>3. Ledger!Reopen(d)
          BY <2>1, <3>1, <3>2, <4>2 DEF Ledger!Reopen, Ledger!MoveAll, LedgerOf, IInv,
             CallInv, TypeOK, Final
        <4>4. QED
          BY <2>1, <4>3 DEF LedgerStep, Ledger!LedgerNext
      <3>3. CASE s # "retry_scheduled"
        <4>1. s \in Final
          BY <3>3 DEF Outcome, Final
        <4>2. Ledger!Settle({d})
          BY <2>1, <3>1, <3>3, <4>1 DEF Ledger!Settle, Ledger!MoveAll, LedgerOf, IInv,
             CallInv, TypeOK, Final
        <4>3. QED
          BY <2>1, <4>2 DEF LedgerStep, Ledger!LedgerNext
      <3>4. QED
        BY <3>2, <3>3
    <2>4. QED
      BY <2>2, <2>3
  <1>13. ASSUME NEW w \in Worker, Crash(w) PROVE LedgerStep
    <2>1. UNCHANGED <<status, dispatched, sent, asked>>
      BY <1>13 DEF Crash, calls, rowVars
    <2>2. QED
      BY <2>1, SameLedger DEF LedgerStep
  <1>14. CASE ReconcileSent
    <2> DEFINE S == {d \in Overdue : dispatched[d]}
    <2>1. Ledger!Settle(S)
      BY <1>14 DEF ReconcileSent, ReleaseAll, calls, Overdue, Ledger!Settle, Ledger!MoveAll, LedgerOf, Final
    <2>2. S \subseteq Delivery
      BY DEF Overdue
    <2>3. QED
      BY <2>1, <2>2 DEF LedgerStep, Ledger!LedgerNext
  <1>15. CASE ReconcileUnsent
    <2>1. LedgerOf' = LedgerOf /\ sent' = sent /\ asked' = asked
      BY <1>15 DEF ReconcileUnsent, ReleaseAll, calls, Overdue, LedgerOf, Final
    <2>2. QED
      BY <2>1 DEF LedgerStep
  <1>16. CASE UNCHANGED vars
    BY <1>16, SameLedger DEF vars, rowVars, calls, LedgerStep
  <1>17. QED
    BY <1>1, <1>2, <1>3, <1>4, <1>5, <1>6, <1>7, <1>8, <1>9, <1>10,
       <1>11, <1>12, <1>13, <1>14, <1>15, <1>16 DEF Next, WorkerStep

(* Calls and rows, with any number of stalled workers.                      *)
THEOREM CallInvariance == Spec => []CallInv
  <1>1. Init => CallInv
    <2> SUFFICES ASSUME Init PROVE CallInv
      OBVIOUS
    <2>1. TypeOK
      BY DEF Init, TypeOK, Waiting, Final, Verdicts
    <2>2. Busy /\ CallsOK /\ Truthful
      BY DEF Init, Busy, CallsOK, Truthful, Told
    <2>3. QED
      BY <2>1, <2>2 DEF CallInv
  <1>2. CallInv /\ [Next]_vars => CallInv'
    BY TypeStep, WorkStep, CallsStep, TruthStep DEF CallInv
  <1>3. QED
    BY <1>1, <1>2, PTL DEF Spec

(* The inductive invariant of claims and requests.                          *)
THEOREM Invariance == MaxStalls = 0 => (Spec => []IInv)
  <1> SUFFICES ASSUME MaxStalls = 0 PROVE Spec => []IInv
    OBVIOUS
  <1>1. Init => stalls = 0 /\ ClaimsOK /\ AskedOK
    BY OutboxAssumption DEF Init, ClaimsOK, AskedOK, Holding, Told, Waiting
  <1>2. IInv /\ [Next]_vars => (stalls = 0 /\ ClaimsOK /\ AskedOK)'
    <2> SUFFICES ASSUME IInv, [Next]_vars PROVE (stalls = 0 /\ ClaimsOK /\ AskedOK)'
      OBVIOUS
    <2>1. ASSUME NEW d \in Delivery, Expire(d) PROVE stalls' = 0
      BY <2>1, OutboxAssumption DEF Expire, IInv
    <2>2. ASSUME ~\E d \in Delivery : Expire(d) PROVE stalls' = 0
      BY <2>2 DEF IInv, Next, Edit, Enqueue, WorkerStep,
         Claim, Authorize, Refuse, MarkRead, MarkWrite, Send, Answer, FinishRead, FinishWrite,
         Reread, Crash, ReconcileSent, ReconcileUnsent, ReleaseAll, vars
    <2>3. QED
      BY <2>1, <2>2, ClaimsStep, AskedStep
  <1>3. Spec => []CallInv
    BY CallInvariance
  <1>4. QED
    BY <1>1, <1>2, <1>3, PTL DEF Spec, IInv

(* TypeOK: the columns of channel_outbox and the steps of a worker, stalled *)
(* or not.                                                                  *)
THEOREM TypeCorrect == Spec => []TypeOK
  <1>1. Init => TypeOK /\ Busy
    BY DEF Init, TypeOK, Busy, Waiting, Final, Verdicts
  <1>2. TypeOK /\ Busy /\ [Next]_vars => (TypeOK /\ Busy)'
    BY TypeStep, WorkStep
  <1>3. QED
    BY <1>1, <1>2, PTL DEF Spec

(* SettledForGood: no worker, late, stalled or dead, changes a settled row. *)
THEOREM Settled == Spec => SettledForGood
  <1>1. TypeOK /\ Busy /\ [Next]_vars
        => [\A d \in Delivery : status[d] \in Final => status'[d] = status[d]]_vars
    <2> SUFFICES ASSUME TypeOK, Busy, [Next]_vars, NEW d \in Delivery, status[d] \in Final
                 PROVE  status'[d] = status[d]
      OBVIOUS
    <2>1. CASE UNCHANGED vars
      BY <2>1 DEF vars, rowVars
    <2>2. ASSUME NEW w \in Worker, Refuse(w) \/ FinishWrite(w) PROVE status'[d] = status[d]
      BY <2>2 DEF Refuse, FinishWrite, Unmoved, Release, TypeOK, Final, rowVars
    <2>3. CASE ReconcileSent \/ ReconcileUnsent
      BY <2>3 DEF ReconcileSent, ReconcileUnsent, ReleaseAll, Overdue, TypeOK, Final
    <2>4. ASSUME NEW e \in Delivery, Enqueue(e) PROVE status'[d] = status[d]
      BY <2>4 DEF Enqueue, TypeOK, Final
    <2>5. ASSUME NEW w \in Worker, NEW e \in Delivery, Claim(w, e) PROVE status'[d] = status[d]
      BY <2>5 DEF Claim, TypeOK, Final, Waiting
    <2>6. CASE \/ Edit
               \/ \E e \in Delivery : Expire(e)
               \/ \E w \in Worker :
                    \/ Authorize(w) \/ MarkRead(w) \/ MarkWrite(w) \/ FinishRead(w) \/ Crash(w)
                    \/ \E taken \in BOOLEAN : Send(w, taken)
                    \/ \E v \in Verdicts : Answer(w, v)
      BY <2>6 DEF Edit, Expire, Authorize, MarkRead, MarkWrite, FinishRead, Reread,
         Crash, Send, Answer, rowVars
    <2>7. QED
      BY <2>1, <2>2, <2>3, <2>4, <2>5, <2>6 DEF Next, WorkerStep
  <1>2. Spec => [](TypeOK /\ Busy)
    <2>1. Init => TypeOK /\ Busy
      BY DEF Init, TypeOK, Busy, Waiting, Final, Verdicts
    <2>2. TypeOK /\ Busy /\ [Next]_vars => (TypeOK /\ Busy)'
      BY TypeStep, WorkStep
    <2>3. QED
      BY <2>1, <2>2, PTL DEF Spec
  <1>3. QED
    BY <1>1, <1>2, PTL DEF Spec, SettledForGood

(* Truthful: with late, dead and stalled workers, what was taken was marked *)
(* as dispatched, what is reported delivered was taken.                     *)
THEOREM RowsTruthful == Spec => []Truthful
  <1>1. CallInv => Truthful
    BY DEF CallInv
  <1>2. QED
    BY <1>1, CallInvariance, PTL

(* No message is sent more than MAX_DELIVERY_ATTEMPTS times, and a second   *)
(* time only if its provider asked: as long as no worker stalls.            *)
THEOREM SentAsAsked ==
  MaxStalls = 0
    => (Spec => [](\A d \in Delivery : sent[d] <= asked[d] + 1 /\ sent[d] <= MaxAttempts))
  <1> SUFFICES ASSUME MaxStalls = 0
               PROVE  Spec => [](\A d \in Delivery : sent[d] <= asked[d] + 1 /\ sent[d] <= MaxAttempts)
    OBVIOUS
  <1>1. IInv => \A d \in Delivery : sent[d] <= asked[d] + 1 /\ sent[d] <= MaxAttempts
    BY OutboxAssumption DEF IInv, CallInv, TypeOK, AskedOK
  <1>2. Spec => []IInv
    BY Invariance
  <1>3. QED
    BY <1>1, <1>2, PTL

(* ImplementsLedger: a message is sent again only when its provider asked,  *)
(* never after an unknown outcome or a reconciled dispatch.                 *)
THEOREM Refinement == MaxStalls = 0 => (Spec => ImplementsLedger)
  <1> SUFFICES ASSUME MaxStalls = 0 PROVE Spec => ImplementsLedger
    OBVIOUS
  <1>1. Init => Ledger!LedgerInit
    BY DEF Init, Ledger!LedgerInit, LedgerOf, Final
  <1>2. IInv /\ [Next]_vars => [Ledger!LedgerNext]_(Ledger!ledgerVars)
    BY RefineStep DEF LedgerStep, Ledger!ledgerVars
  <1>3. Spec => []IInv
    BY Invariance
  <1>4. QED
    BY <1>1, <1>2, <1>3, PTL DEF Spec, ImplementsLedger, Ledger!LedgerSpec
=============================================================================
