------------------------ MODULE ActionQueueDelivery ------------------------
(***************************************************************************)
(* The receipt of an order is delivered at most once and its verdict       *)
(* follows the evidence: proofs about the outward intent of ActionQueue.   *)
(***************************************************************************)
EXTENDS ActionQueueSafety

----------------------------------------------------------------------------
(* The inductive invariant.                                                *)

(* What a row r with n delivered DMs shows, when rc says it is a receipt.  *)
Shows(r, n, rc) ==
  /\ r.bound => rc
  /\ r.intent # "absent" => r.bound /\ r.status \in {"processing", "completed", "failed"}
  /\ r.intent = "sending" => r.status = "processing"
  /\ r.status = "failed" => r.intent \in {"absent", "uncertain"}
  /\ rc /\ r.status = "completed" => r.intent = "sent"
  /\ n \in {0, 1}
  /\ n = 1 => r.intent # "absent"
  /\ r.intent = "sent" => n = 1

Evidence == \A a \in Actions : Shows(row[a], delivered[a], a \in Receipts)

(* What an invocation between two outward steps may rely on.               *)
Errand(w) ==
  /\ worker[w].at \in {"bound", "send", "report"} => Job(w).bound
  /\ worker[w].at \in {"send", "report"} => Job(w).intent # "absent"
  /\ worker[w].at = "send" => delivered[worker[w].job] = 0
  /\ worker[w].at = "report" /\ worker[w].outcome = "accepted" =>
       delivered[worker[w].job] = 1
  /\ worker[w].at = "finish" /\ worker[w].outcome = "success" /\ worker[w].job \in Receipts =>
       Job(w).intent = "sent"

OneSender ==
  \A v, w \in Workers :
    worker[v].at = "send" /\ worker[w].at = "send" /\ worker[v].job = worker[w].job => v = w

Errands == OneSender /\ \A w \in Workers : Errand(w)

----------------------------------------------------------------------------
(* Rows.                                                                   *)

(* Evidence is never taken back.                                           *)
Grows(a) ==
  /\ row[a].bound => row'[a].bound
  /\ row[a].intent # "absent" => row'[a].intent # "absent"
  /\ row[a].intent = "sent" => row'[a].intent = "sent"

(* A settlement of a claimed row keeps its evidence, resolves an attempt   *)
(* in flight, and sends back only rows that show no attempt.               *)
LEMMA SettledShows ==
  ASSUME NEW r \in Row, r.status = "processing", r.intent # "absent" => r.bound,
         NEW t \in Settlements(r)
  PROVE  /\ t.bound = r.bound
         /\ t.intent = IF r.intent = "sending" THEN "uncertain" ELSE r.intent
         /\ t.status = "pending" => r.intent = "absent"
         /\ t.status = "failed" => r.intent # "sent"
         /\ t.status = "completed" =>
              r.intent = "sent" \/ (~r.bound /\ t = AfterFinish(r, TRUE))
<1>1. "completed" \in Statuses /\ "failed" \in Statuses
  BY DEF Statuses
<1>2. /\ Leave(r, "completed").status = "completed" /\ Leave(r, "completed").intent = r.intent
      /\ Leave(r, "failed").status = "failed" /\ Leave(r, "failed").intent = r.intent
  BY <1>1, LeftRow
<1>3. Held(r).status = "failed"
      /\ Held(r).intent = IF r.bound /\ r.intent = "sending" THEN "uncertain" ELSE r.intent
  BY <1>1, LeftRow, ObservedRow DEF Held
<1>4. \A b \in BOOLEAN : Requeued(r, b).status = "pending" /\ Requeued(r, b).intent = r.intent
  BY RequeuedRow
<1>5. t.bound = r.bound
  BY SettledRow
<1>6. r.intent \in Intents
  BY DEF Row
<1>7. CASE ~r.bound
  <2>1. r.intent = "absent" /\ Classify(r) = "delegate"
    BY <1>7 DEF Classify
  <2>2. t.intent = "absent"
    BY <1>2, <1>3, <1>4, <2>1, SettlementCases DEF Held
  <2>3. t.status = "completed" => t = AfterFinish(r, TRUE)
    <3>1. AfterRetry(r).status # "completed"
      BY <1>3, <1>4, <2>1 DEF AfterRetry
    <3>2. AfterRecovery(r).status # "completed"
      BY <1>3, <1>4, <2>1 DEF AfterRecovery
    <3>3. AfterFinish(r, FALSE).status # "completed"
      BY <1>2, <2>1 DEF AfterFinish
    <3>4. QED
      BY <3>1, <3>2, <3>3 DEF Settlements
  <2>4. QED
    BY <1>5, <1>7, <2>1, <2>2, <2>3
<1>8. CASE r.bound /\ r.intent = "sent"
  <2>1. Classify(r) = "complete"
    BY <1>8 DEF Classify
  <2>2. AfterRetry(r) = Leave(r, "completed")
    BY <2>1 DEF AfterRetry
  <2>3. AfterRecovery(r) = Leave(r, "completed")
    BY <2>1 DEF AfterRecovery
  <2>4. \A s \in BOOLEAN : AfterFinish(r, s) = Leave(r, "completed")
    BY <2>1 DEF AfterFinish
  <2>5. t = Leave(r, "completed")
    BY <2>2, <2>3, <2>4 DEF Settlements
  <2>6. QED
    BY <1>2, <1>5, <1>8, <2>5
<1>9. CASE r.bound /\ r.intent \in {"sending", "uncertain"}
  <2>1. Classify(r) = "operator_held"
    BY <1>9 DEF Classify
  <2>2. AfterRetry(r) = Held(r)
    BY <2>1 DEF AfterRetry
  <2>3. AfterRecovery(r) = Held(r)
    BY <2>1 DEF AfterRecovery
  <2>4. \A s \in BOOLEAN : AfterFinish(r, s) = Held(r)
    BY <2>1 DEF AfterFinish
  <2>5. t = Held(r)
    BY <2>2, <2>3, <2>4 DEF Settlements
  <2>6. QED
    BY <1>3, <1>5, <1>9, <2>5
<1>10. CASE r.bound /\ r.intent = "absent"
  <2>1. Classify(r) = "requeue"
    BY <1>10 DEF Classify
  <2>2. AfterRetry(r) \in {Held(r), Requeued(r, TRUE)}
    BY <2>1 DEF AfterRetry
  <2>3. AfterRecovery(r) \in {Held(r), Requeued(r, FALSE)}
    BY <2>1 DEF AfterRecovery
  <2>4. \A s \in BOOLEAN : AfterFinish(r, s) \in {Held(r), Requeued(r, FALSE)}
    BY <2>1 DEF AfterFinish
  <2>5. t \in {Held(r), Requeued(r, TRUE), Requeued(r, FALSE)}
    BY <2>2, <2>3, <2>4 DEF Settlements
  <2>6. QED
    BY <1>3, <1>4, <1>5, <1>10, <2>5
<1>11. QED
  BY <1>6, <1>7, <1>8, <1>9, <1>10 DEF Intents

(* A row nothing touched keeps what it shows.                              *)
LEMMA ShowsFrame ==
  ASSUME Evidence, delivered' = delivered, NEW a \in Actions,
         \A b \in Actions : b # a => row'[b] = row[b],
         Shows(row'[a], delivered[a], a \in Receipts)
  PROVE  Evidence'
  BY DEF Evidence

LEMMA GrowsFrame ==
  ASSUME NEW a \in Actions, \A b \in Actions : b # a => row'[b] = row[b], Grows(a)
  PROVE  \A b \in Actions : Grows(b)
  BY DEF Grows

----------------------------------------------------------------------------
(* Invocations.                                                            *)

(* An invocation that was not moved to an outward step, or finishes with a *)
(* success its row bears out.                                              *)
Harmless(v) ==
  \/ worker'[v] = worker[v]
  \/ worker'[v].at \in {"idle", "run", "retry", "audit"}
  \/ /\ worker'[v].at = "finish"
     /\ \/ worker'[v].outcome # "success"
        \/ worker'[v].job \notin Receipts
        \/ row'[worker'[v].job].intent = "sent"

LEMMA ErrandsFrame ==
  ASSUME TypeOK, Errands, delivered' = delivered,
         \A a \in Actions : Grows(a), \A v \in Workers : Harmless(v)
  PROVE  Errands'
<1>1. \A v \in Workers : worker[v].at # "idle" => worker[v].job \in Actions
  BY TypedParts DEF WorkerOK
<1>2. ASSUME NEW v \in Workers PROVE Errand(v)'
  <2>1. CASE worker'[v] = worker[v]
    <3>1. CASE worker[v].at = "idle"
      BY <2>1, <3>1 DEF Errand
    <3>2. CASE worker[v].at # "idle"
      <4>1. worker[v].job \in Actions
        BY <1>1, <3>2
      <4>2. Errand(v) /\ Grows(worker[v].job)
        BY <4>1 DEF Errands
      <4>3. QED
        BY <2>1, <4>2 DEF Errand, Grows, Job
    <3>3. QED
      BY <3>1, <3>2
  <2>2. CASE worker'[v].at \in {"idle", "run", "retry", "audit"}
    BY <2>2 DEF Errand
  <2>3. CASE /\ worker'[v].at = "finish"
             /\ \/ worker'[v].outcome # "success"
                \/ worker'[v].job \notin Receipts
                \/ row'[worker'[v].job].intent = "sent"
    BY <2>3 DEF Errand, Job
  <2>4. QED
    BY <2>1, <2>2, <2>3 DEF Harmless
<1>3. OneSender'
  <2>1. \A v \in Workers : worker'[v].at = "send" => worker'[v] = worker[v]
    BY DEF Harmless
  <2>2. QED
    BY <2>1 DEF Errands, OneSender
<1>4. QED
  BY <1>2, <1>3 DEF Errands

(* A handler's result is harmless unless it is the success of a receipt    *)
(* that is not recorded sent.                                              *)
LEMMA ResultHarmless ==
  ASSUME TypeOK, NEW w \in Workers, worker[w].at # "idle",
         NEW o \in Outcomes, HandlerResult(w, o),
         \/ o # "success"
         \/ worker[w].job \notin Receipts
         \/ row'[worker[w].job].intent = "sent"
  PROVE  \A v \in Workers : Harmless(v)
  BY TypedParts, Resulted DEF Harmless

----------------------------------------------------------------------------
(* Every step preserves the invariant.                                     *)

(* The steps that move a row along without touching its evidence.          *)
LEMMA RowMoves ==
  ASSUME TypeOK, Evidence, Errands, NEW a \in Actions,
         \/ Insert(a) \/ ReleaseStaged(a) \/ ReopenDeadLetter(a) \/ BecomeStale(a) \/ BackoffElapses(a)
         \/ \E b \in Actions : RetryDeadLetter(b, a)
  PROVE  Evidence' /\ Errands'
<1>1. worker' = worker /\ delivered' = delivered
  BY DEF Insert, ReleaseStaged, BecomeStale, BackoffElapses, RetryDeadLetter, ReopenDeadLetter
<1>2. \A b \in Actions : b # a => row'[b] = row[b]
  BY TypedParts DEF Insert, ReleaseStaged, BecomeStale, BackoffElapses, RetryDeadLetter,
     ReopenDeadLetter
<1>3. Shows(row[a], delivered[a], a \in Receipts)
  BY DEF Evidence
<1>4. CASE Insert(a) \/ ReleaseStaged(a) \/ \E b \in Actions : RetryDeadLetter(b, a)
  <2>1. /\ row[a].status \in {"absent", "staged"}
        /\ \E s \in {"staged", "pending"} : row'[a] = [row[a] EXCEPT !.status = s]
    BY <1>4, TypedParts DEF Insert, ReleaseStaged, RetryDeadLetter
  <2>2. /\ row'[a].status \in {"staged", "pending"}
        /\ row'[a].bound = row[a].bound /\ row'[a].intent = row[a].intent
    BY <2>1, TypedParts DEF Row
  <2>3. Shows(row'[a], delivered[a], a \in Receipts) /\ Grows(a)
    BY <1>3, <2>1, <2>2 DEF Shows, Grows
  <2>4. QED
    BY <1>1, <1>2, <2>3, ShowsFrame, GrowsFrame, ErrandsFrame DEF Harmless
<1>5. CASE BecomeStale(a) \/ BackoffElapses(a)
  <2>1. row'[a] = [row[a] EXCEPT !.stale = TRUE] \/ row'[a] = [row[a] EXCEPT !.parked = FALSE]
    BY <1>5, TypedParts DEF BecomeStale, BackoffElapses
  <2>2. /\ row'[a].status = row[a].status
        /\ row'[a].bound = row[a].bound /\ row'[a].intent = row[a].intent
    BY <2>1, TypedParts DEF Row
  <2>3. Shows(row'[a], delivered[a], a \in Receipts) /\ Grows(a)
    BY <1>3, <2>2 DEF Shows, Grows
  <2>4. QED
    BY <1>1, <1>2, <2>3, ShowsFrame, GrowsFrame, ErrandsFrame DEF Harmless
<1>6. CASE ReopenDeadLetter(a)
  <2>1. /\ a \in Relinks
        /\ row'[a].status = "pending"
        /\ row'[a].bound = row[a].bound /\ row'[a].intent = row[a].intent
    BY <1>6, ReopenEffect
  <2>2. a \notin Receipts
    BY <2>1, QueueAssumption
  <2>3. Shows(row'[a], delivered[a], a \in Receipts) /\ Grows(a)
    BY <1>3, <2>1, <2>2 DEF Shows, Grows
  <2>4. QED
    BY <1>1, <1>2, <2>3, ShowsFrame, GrowsFrame, ErrandsFrame DEF Harmless
<1>7. QED
  BY <1>4, <1>5, <1>6

(* A settled row shows no less, and what it shows bears out its verdict.   *)
LEMMA SettledEvidence ==
  ASSUME TypeOK, NEW a \in Actions, Shows(row[a], delivered[a], a \in Receipts),
         row[a].status = "processing", row'[a] \in Settlements(row[a]),
         a \in Receipts /\ ~row[a].bound => row'[a] # AfterFinish(row[a], TRUE)
  PROVE  Shows(row'[a], delivered[a], a \in Receipts) /\ Grows(a)
<1>1. row[a] \in Row /\ row[a].intent \in Intents /\ (row[a].intent # "absent" => row[a].bound)
  BY TypedParts DEF Row, Shows
<1>2. /\ row'[a].bound = row[a].bound
      /\ row'[a].intent = IF row[a].intent = "sending" THEN "uncertain" ELSE row[a].intent
      /\ row'[a].status = "pending" => row[a].intent = "absent"
      /\ row'[a].status = "failed" => row[a].intent # "sent"
      /\ row'[a].status = "completed" =>
           row[a].intent = "sent" \/ (~row[a].bound /\ row'[a] = AfterFinish(row[a], TRUE))
  BY <1>1, SettledShows
<1>3. row'[a].status \in {"pending", "completed", "failed"}
  BY <1>1, SettledRow
<1>4. Grows(a)
  BY <1>2 DEF Grows
<1>5. Shows(row'[a], delivered[a], a \in Receipts)
  BY <1>1, <1>2, <1>3 DEF Shows, Intents
<1>6. QED
  BY <1>4, <1>5

LEMMA TransitionDelivers ==
  ASSUME TypeOK, Evidence, Errands, NEW w \in Workers, RetryClaim(w) \/ FinishClaim(w)
  PROVE  Evidence' /\ Errands'
<1>1. worker[w].at # "idle" /\ worker[w].job \in Actions /\ delivered' = delivered
  BY TransitionEffect DEF RetryClaim, FinishClaim
<1> DEFINE a == worker[w].job
<1>2. CASE Rest(w) /\ UNCHANGED <<row, dlq, alerted>>
  <2>1. \A v \in Workers : Harmless(v)
    BY <1>2, TypedParts, Rested DEF Harmless
  <2>2. QED
    BY <1>1, <1>2, <2>1, ErrandsFrame DEF Evidence, Grows
<1>3. ASSUME HoldsClaim(w), NEW t \in Settlements(Job(w)),
             RetryClaim(w) => t = AfterRetry(Job(w)),
             FinishClaim(w) => t = AfterFinish(Job(w), worker[w].outcome = "success"),
             Transition(w, t), DeadLetterJob(w, t)
      PROVE  Evidence' /\ Errands'
  <2>1. /\ row'[a] = t
        /\ \A b \in Actions : b # a => row'[b] = row[b]
        /\ \A v \in Workers : Harmless(v)
    BY <1>1, <1>3, Transitioned DEF Harmless
  <2>2. row[a] \in Row /\ Job(w) = row[a] /\ row[a].status = "processing"
    BY <1>1, <1>3, TypedParts DEF HoldsClaim, Job
  <2>3. Shows(row[a], delivered[a], a \in Receipts)
    BY <1>1 DEF Evidence
  <2>4. ASSUME a \in Receipts, ~row[a].bound, t = AfterFinish(row[a], TRUE)
        PROVE  FALSE
    <3>1. row[a].intent = "absent" /\ Classify(row[a]) = "delegate"
      BY <2>3, <2>4 DEF Shows, Classify
    <3>2. t = Leave(row[a], "completed")
      BY <2>4, <3>1 DEF AfterFinish
    <3>3. t.status = "completed"
      BY <2>2, <3>2, LeftRow DEF Statuses
    <3>4. CASE RetryClaim(w)
      <4>1. t = Requeued(row[a], TRUE)
        BY <1>3, <2>2, <3>1, <3>4 DEF AfterRetry
      <4>2. QED
        BY <2>2, <3>3, <4>1, RequeuedRow
    <3>5. CASE FinishClaim(w)
      <4>1. worker[w].at = "finish" /\ worker[w].outcome # "success"
        BY <1>3, <2>2, <2>4, <3>1, <3>5 DEF FinishClaim, Errands, Errand
      <4>2. t = AfterFinish(row[a], FALSE)
        BY <1>3, <2>2, <3>5, <4>1
      <4>3. t = Leave(row[a], "failed")
        BY <3>1, <4>2 DEF AfterFinish
      <4>4. QED
        BY <2>2, <3>3, <4>3, LeftRow DEF Statuses
    <3>6. QED
      BY <3>4, <3>5
  <2>5. Shows(row'[a], delivered[a], a \in Receipts) /\ Grows(a)
    BY <1>1, <1>3, <2>1, <2>2, <2>3, <2>4, SettledEvidence
  <2>6. QED
    BY <1>1, <2>1, <2>5, ShowsFrame, GrowsFrame, ErrandsFrame
<1>4. QED
  BY <1>2, <1>3, TransitionEffect

LEMMA RecoveryDelivers ==
  ASSUME TypeOK, Evidence, Errands, RecoverStale
  PROVE  Evidence' /\ Errands'
<1>1. delivered' = delivered /\ worker' = worker
  BY DEF RecoverStale
<1>2. ASSUME NEW a \in Actions
      PROVE  Shows(row'[a], delivered[a], a \in Receipts) /\ Grows(a)
  <2>1. Shows(row[a], delivered[a], a \in Receipts) /\ row[a] \in Row
    BY TypedParts DEF Evidence
  <2>2. CASE row'[a] = row[a]
    BY <2>1, <2>2 DEF Grows
  <2>3. CASE /\ row[a].status = "processing"
             /\ row'[a] = AfterRecovery(row[a])
             /\ row'[a] \in Settlements(row[a])
    <3>1. ASSUME ~row[a].bound, row'[a] = AfterFinish(row[a], TRUE)
          PROVE  FALSE
      <4>1. Classify(row[a]) = "delegate"
        BY <3>1 DEF Classify
      <4>2. row'[a] = Leave(row[a], "completed")
        BY <3>1, <4>1 DEF AfterFinish
      <4>3. row'[a] \in {Held(row[a]), Requeued(row[a], FALSE)}
        BY <2>3, <4>1 DEF AfterRecovery
      <4>4. /\ Leave(row[a], "completed").status = "completed"
            /\ Held(row[a]).status = "failed"
            /\ Requeued(row[a], FALSE).status = "pending"
        BY <2>1, LeftRow, ObservedRow, RequeuedRow DEF Held, Statuses
      <4>5. QED
        BY <4>2, <4>3, <4>4
    <3>2. QED
      BY <2>1, <2>3, <3>1, SettledEvidence
  <2>4. QED
    BY <2>2, <2>3, RecoveryEffect
<1>3. QED
  BY <1>1, <1>2, ErrandsFrame DEF Evidence, Harmless

LEMMA ClaimDelivers ==
  ASSUME TypeOK, Evidence, Errands, NEW w \in Workers, NEW a \in Actions, Claim(w, a)
  PROVE  Evidence' /\ Errands'
<1>1. /\ row[a].status = "pending" /\ row'[a].status = "processing"
      /\ row'[a].bound = row[a].bound /\ row'[a].intent = row[a].intent
      /\ \A b \in Actions : b # a => row'[b] = row[b]
      /\ \A v \in Workers : Harmless(v)
  BY ClaimEffect DEF Harmless
<1>2. delivered' = delivered
  BY DEF Claim
<1>3. Shows(row[a], delivered[a], a \in Receipts)
  BY DEF Evidence
<1>4. Shows(row'[a], delivered[a], a \in Receipts) /\ Grows(a)
  BY <1>1, <1>3 DEF Shows, Grows
<1>5. QED
  BY <1>1, <1>2, <1>4, ShowsFrame, GrowsFrame, ErrandsFrame

LEMMA HandlerDelivers ==
  ASSUME TypeOK, Evidence, Errands, NEW w \in Workers,
         HandlerReturns(w) \/ PrepareFails(w) \/ HandlerDefers(w)
  PROVE  Evidence' /\ Errands'
<1>1. delivered' = delivered
  BY DEF HandlerReturns, PrepareFails, HandlerDefers
<1>2. CASE HandlerReturns(w) \/ PrepareFails(w)
  <2>1. row' = row /\ worker[w].at # "idle"
    BY <1>2, SettlesEffect
  <2>2. PICK o \in Outcomes : /\ HandlerResult(w, o)
                              /\ worker[w].job \notin Receipts \/ o # "success"
    BY <1>2, SettlesEffect
  <2>3. \A v \in Workers : Harmless(v)
    BY <2>1, <2>2, ResultHarmless
  <2>4. QED
    BY <1>1, <2>1, <2>3, ErrandsFrame DEF Evidence, Grows
<1>3. CASE HandlerDefers(w)
  <2> DEFINE a == worker[w].job
  <2>1. a \in Actions \ Receipts /\ \A v \in Workers : Harmless(v)
    BY <1>3, DeferEffect, TypedParts, Rested DEF Harmless
  <2>2. CASE row' = row
    BY <1>1, <2>1, <2>2, ErrandsFrame DEF Evidence, Grows
  <2>3. CASE /\ HoldsClaim(w)
             /\ row'[a].status = "pending"
             /\ row'[a].bound = Job(w).bound
             /\ row'[a].intent = Job(w).intent
             /\ \A b \in Actions : b # a => row'[b] = row[b]
    <3>1. Shows(row[a], delivered[a], a \in Receipts) /\ Job(w) = row[a]
      BY <2>1 DEF Evidence, Job
    <3>2. Shows(row'[a], delivered[a], a \in Receipts) /\ Grows(a)
      BY <2>1, <2>3, <3>1 DEF Shows, Grows
    <3>3. QED
      BY <1>1, <2>1, <2>3, <3>2, ShowsFrame, GrowsFrame, ErrandsFrame
  <2>4. QED
    BY <1>3, <2>2, <2>3, DeferEffect
<1>4. QED
  BY <1>2, <1>3

(* A move to an outward step is an errand of its own; the others stay.     *)
LEMMA MoveDelivers ==
  ASSUME TypeOK, Errands, \A a \in Actions : Grows(a), NEW w \in Workers,
         \A v \in Workers : v # w => worker'[v] = worker[v] /\ Errand(v)' ,
         Errand(w)',
         worker'[w].at = "send" => \A v \in Workers :
           v # w /\ worker'[v].job = worker'[w].job => worker'[v].at # "send"
  PROVE  Errands'
  BY DEF Errands, OneSender

(* An errand depends on its own row only.                                  *)
LEMMA ErrandKept ==
  ASSUME TypeOK, Errands, NEW v \in Workers, worker'[v] = worker[v],
         worker[v].job \in Actions => /\ Grows(worker[v].job)
                                      /\ delivered'[worker[v].job] = delivered[worker[v].job]
  PROVE  Errand(v)'
<1>1. CASE worker[v].at = "idle"
  BY <1>1 DEF Errand
<1>2. CASE worker[v].at # "idle"
  <2>1. worker[v].job \in Actions
    BY <1>2, TypedParts DEF WorkerOK
  <2>2. Errand(v)
    BY DEF Errands
  <2>3. QED
    BY <2>1, <2>2 DEF Errand, Grows, Job
<1>3. QED
  BY <1>1, <1>2

LEMMA BindDelivers ==
  ASSUME TypeOK, Evidence, Errands, NEW w \in Workers, BindGeneration(w)
  PROVE  Evidence' /\ Errands'
<1> DEFINE a == worker[w].job
<1>1. /\ worker[w].at = "run" /\ a \in Actions /\ a \in Receipts /\ HoldsClaim(w)
      /\ row'[a] = [Job(w) EXCEPT !.bound = TRUE]
      /\ \A b \in Actions : b # a => row'[b] = row[b]
  BY BindEffect
<1>2. delivered' = delivered
  BY DEF BindGeneration
<1>3. Shows(row[a], delivered[a], a \in Receipts) /\ row[a] \in Row /\ Job(w) = row[a]
      /\ row[a].status = "processing"
  BY <1>1, TypedParts DEF Evidence, Job, HoldsClaim
<1>4. row'[a].bound /\ row'[a].status = row[a].status /\ row'[a].intent = row[a].intent
  BY <1>1, <1>3 DEF Row
<1>5. Shows(row'[a], delivered[a], a \in Receipts) /\ Grows(a)
  BY <1>1, <1>3, <1>4 DEF Shows, Grows
<1>6. Evidence' /\ \A b \in Actions : Grows(b)
  BY <1>1, <1>2, <1>5, ShowsFrame, GrowsFrame
<1>7. CASE HandlerResult(w, "transient") \/ HandlerResult(w, "permanent")
  <2>1. "transient" \in Outcomes /\ "permanent" \in Outcomes
    BY DEF Outcomes
  <2>2. \A v \in Workers : Harmless(v)
    BY <1>1, <1>7, <2>1, ResultHarmless
  <2>3. QED
    BY <1>2, <1>6, <2>2, ErrandsFrame
<1>8. CASE Become(w, "bound", "none")
  <2>1. "bound" \in Steps \ {"idle"} /\ "none" \in Outcomes
    BY DEF Steps, Outcomes
  <2>2. /\ worker'[w].at = "bound" /\ worker'[w].job = a
        /\ \A v \in Workers : v # w => worker'[v] = worker[v]
    BY <1>1, <1>8, <2>1, TypedParts, Moved
  <2>3. Errand(w)'
    BY <1>4, <2>2 DEF Errand, Job
  <2>4. \A v \in Workers : v # w => Errand(v)'
    BY <1>2, <1>6, <2>2, ErrandKept
  <2>5. QED
    BY <1>6, <2>2, <2>3, <2>4, MoveDelivers
<1>9. QED
  BY <1>7, <1>8, BindEffect

LEMMA BeginDelivers ==
  ASSUME TypeOK, Evidence, Errands, NEW w \in Workers, BeginOutward(w)
  PROVE  Evidence' /\ Errands'
<1> DEFINE a == worker[w].job
<1>1. /\ worker[w].at = "bound" /\ a \in Actions /\ a \in Receipts
      /\ \/ row' = row
         \/ row'[a] = Begun(w) /\ \A b \in Actions : b # a => row'[b] = row[b]
  BY BeginEffect
<1>2. delivered' = delivered
  BY DEF BeginOutward
<1>3. Shows(row[a], delivered[a], a \in Receipts) /\ row[a] \in Row /\ Job(w) = row[a]
      /\ row[a].bound /\ row[a].intent \in Intents
  BY <1>1, TypedParts DEF Evidence, Job, Errands, Errand, Row
<1>4. \/ Begun(w) = row[a]
      \/ /\ HoldsClaim(w) /\ row[a].status = "processing"
         /\ Begun(w).bound = row[a].bound /\ Begun(w).status = row[a].status
         /\ Begun(w).intent = CASE row[a].intent = "absent"  -> "sending"
                                [] row[a].intent = "sending" -> "uncertain"
                                [] OTHER                     -> row[a].intent
  <2>1. CASE ~HoldsClaim(w)
    BY <1>3, <2>1 DEF Begun
  <2>2. CASE HoldsClaim(w) /\ row[a].intent = "absent"
    <3>1. Begun(w) = [row[a] EXCEPT !.intent = "sending", !.attempt = worker[w].token]
      BY <1>3, <2>2 DEF Begun
    <3>2. QED
      BY <1>3, <2>2, <3>1 DEF HoldsClaim, Row
  <2>3. CASE HoldsClaim(w) /\ row[a].intent # "absent"
    <3>1. Begun(w) = Observed(row[a])
      BY <1>3, <2>3 DEF Begun
    <3>2. QED
      BY <1>3, <2>3, <3>1, ObservedRow DEF HoldsClaim
  <2>4. QED
    BY <2>1, <2>2, <2>3
<1>5. row'[a] = Begun(w) => Shows(row'[a], delivered[a], a \in Receipts) /\ Grows(a)
  BY <1>1, <1>3, <1>4 DEF Shows, Grows, Intents
<1>6. Evidence' /\ \A b \in Actions : Grows(b)
  <2>1. CASE row' = row
    BY <1>2, <2>1 DEF Evidence, Grows
  <2>2. CASE row'[a] = Begun(w) /\ \A b \in Actions : b # a => row'[b] = row[b]
    BY <1>1, <1>2, <1>5, <2>2, ShowsFrame, GrowsFrame
  <2>3. QED
    BY <1>1, <2>1, <2>2
<1>7. CASE \/ HandlerResult(w, "transient")
           \/ HandlerResult(w, "permanent")
           \/ /\ HandlerResult(w, "success")
              /\ row'[a] = Begun(w)
              /\ Begun(w).intent = "sent"
  <2>1. "transient" \in Outcomes /\ "permanent" \in Outcomes /\ "success" \in Outcomes
    BY DEF Outcomes
  <2>2. \A v \in Workers : Harmless(v)
    BY <1>1, <1>7, <2>1, ResultHarmless
  <2>3. QED
    BY <1>2, <1>6, <2>2, ErrandsFrame
<1>8. CASE /\ Become(w, "send", "none")
           /\ row'[a] = Begun(w)
           /\ HoldsClaim(w)
           /\ Begun(w).intent = "sending"
  <2>1. "send" \in Steps \ {"idle"} /\ "none" \in Outcomes
    BY DEF Steps, Outcomes
  <2>2. /\ worker'[w].at = "send" /\ worker'[w].job = a
        /\ \A v \in Workers : v # w => worker'[v] = worker[v]
    BY <1>1, <1>8, <2>1, TypedParts, Moved
  <2>3. row[a].intent = "absent"
    <3>1. row[a].intent # "absent" => Begun(w) = Observed(row[a])
      BY <1>3, <1>8 DEF Begun
    <3>2. Observed(row[a]).intent # "sending"
      BY <1>3, ObservedRow
    <3>3. QED
      BY <1>8, <3>1, <3>2
  <2>4. delivered[a] = 0
    BY <1>3, <2>3 DEF Shows
  <2>5. Errand(w)'
    BY <1>2, <1>3, <1>6, <1>8, <2>2, <2>4, <1>1 DEF Errand, Job, Grows
  <2>6. \A v \in Workers : v # w => Errand(v)'
    BY <1>2, <1>6, <2>2, ErrandKept
  <2>7. \A v \in Workers : v # w /\ worker'[v].job = a => worker'[v].at # "send"
    BY <1>3, <2>2, <2>3 DEF Errands, Errand, Job
  <2>8. QED
    BY <1>6, <2>2, <2>5, <2>6, <2>7, MoveDelivers
<1>9. QED
  BY <1>7, <1>8, BeginEffect

LEMMA DispatchDelivers ==
  ASSUME TypeOK, Evidence, Errands, NEW w \in Workers, Dispatch(w)
  PROVE  Evidence' /\ Errands'
<1> DEFINE a == worker[w].job
<1>1. worker[w].at = "send" /\ a \in Actions /\ a \in Receipts /\ row' = row
  BY DispatchEffect
<1>2. PICK accepted \in BOOLEAN, n \in {0, 1} :
        /\ accepted => n = 1
        /\ delivered' = [delivered EXCEPT ![a] = @ + n]
        /\ Become(w, "report", IF accepted THEN "accepted" ELSE "unsure")
  BY DispatchEffect
<1>3. Shows(row[a], delivered[a], a \in Receipts) /\ Job(w) = row[a]
      /\ row[a].bound /\ row[a].intent # "absent" /\ delivered[a] = 0
  BY <1>1 DEF Evidence, Errands, Errand, Job
<1>4. delivered'[a] = n /\ \A b \in Actions : b # a => delivered'[b] = delivered[b]
  BY <1>1, <1>2, <1>3 DEF TypeOK
<1>5. Evidence'
  <2>1. Shows(row'[a], delivered'[a], a \in Receipts)
    BY <1>1, <1>3, <1>4 DEF Shows
  <2>2. QED
    BY <1>1, <1>4, <2>1 DEF Evidence
<1>6. "report" \in Steps \ {"idle"} /\ (IF accepted THEN "accepted" ELSE "unsure") \in Outcomes
  BY DEF Steps, Outcomes
<1>7. /\ worker'[w].at = "report" /\ worker'[w].job = a
      /\ worker'[w].outcome = IF accepted THEN "accepted" ELSE "unsure"
      /\ \A v \in Workers : v # w => worker'[v] = worker[v]
  BY <1>1, <1>2, <1>6, TypedParts, Moved
<1>8. Errand(w)'
  BY <1>1, <1>2, <1>3, <1>4, <1>7 DEF Errand, Job
<1>9. ASSUME NEW v \in Workers, v # w PROVE Errand(v)'
  <2>1. CASE worker[v].job = a
    <3>1. worker'[v] = worker[v] /\ Job(v) = row[a] /\ Job(v)' = row[a]
      BY <1>1, <1>7, <1>9, <2>1 DEF Job
    <3>2. worker[v].at # "send" /\ ~(worker[v].at = "report" /\ worker[v].outcome = "accepted")
      BY <1>1, <1>3, <1>9, <2>1 DEF Errands, OneSender, Errand
    <3>3. QED
      BY <2>1, <3>1, <3>2 DEF Errands, Errand
  <2>2. CASE worker[v].job # a
    BY <1>1, <1>4, <1>7, <1>9, <2>2, ErrandKept DEF Grows
  <2>3. QED
    BY <2>1, <2>2
<1>10. QED
  BY <1>1, <1>5, <1>7, <1>8, <1>9, MoveDelivers DEF Grows

LEMMA ReportDelivers ==
  ASSUME TypeOK, Evidence, Errands, NEW w \in Workers, FinishOutward(w)
  PROVE  Evidence' /\ Errands'
<1> DEFINE a == worker[w].job
<1>1. /\ worker[w].at = "report" /\ a \in Actions /\ a \in Receipts
      /\ \/ row' = row
         \/ row'[a] = Reported(w) /\ \A b \in Actions : b # a => row'[b] = row[b]
  BY ReportEffect
<1>2. delivered' = delivered
  BY DEF FinishOutward
<1>3. /\ Shows(row[a], delivered[a], a \in Receipts) /\ row[a] \in Row /\ Job(w) = row[a]
      /\ worker[w].outcome = "accepted" => delivered[a] = 1
  BY <1>1, TypedParts DEF Evidence, Job, Errands, Errand
<1>4. \/ Reported(w) = row[a]
      \/ /\ row[a].intent = "sending"
         /\ Reported(w).bound = row[a].bound /\ Reported(w).status = row[a].status
         /\ Reported(w).intent = IF worker[w].outcome = "accepted" THEN "sent" ELSE "uncertain"
  <2> DEFINE i == IF worker[w].outcome = "accepted" THEN "sent" ELSE "uncertain"
             r == [row[a] EXCEPT !.intent = i, !.attempt = 0]
  <2>1. r.bound = row[a].bound /\ r.status = row[a].status /\ r.intent = i
    BY <1>3 DEF Row
  <2>2. Reported(w) = IF row[a].intent = "sending" /\ row[a].attempt = worker[w].token
                      THEN r ELSE row[a]
    BY <1>3 DEF Reported
  <2> HIDE DEF r
  <2>3. QED
    BY <2>1, <2>2
<1>5. row'[a] = Reported(w) => Shows(row'[a], delivered[a], a \in Receipts) /\ Grows(a)
  BY <1>1, <1>3, <1>4 DEF Shows, Grows
<1>6. Evidence' /\ \A b \in Actions : Grows(b)
  <2>1. CASE row' = row
    BY <1>2, <2>1 DEF Evidence, Grows
  <2>2. CASE row'[a] = Reported(w) /\ \A b \in Actions : b # a => row'[b] = row[b]
    BY <1>1, <1>2, <1>5, <2>2, ShowsFrame, GrowsFrame
  <2>3. QED
    BY <1>1, <2>1, <2>2
<1>7. \A v \in Workers : Harmless(v)
  <2>1. "transient" \in Outcomes /\ "permanent" \in Outcomes /\ "success" \in Outcomes
    BY DEF Outcomes
  <2>2. QED
    BY <1>1, <2>1, ReportEffect, ResultHarmless
<1>8. QED
  BY <1>2, <1>6, <1>7, ErrandsFrame

LEMMA DeliveryStep ==
  ASSUME TypeOK, Evidence, Errands, [Next]_vars
  PROVE  Evidence' /\ Errands'
<1>1. ASSUME NEW w \in Workers, WriteAudit(w) \/ GiveUp(w)
      PROVE  Evidence' /\ Errands'
  <2>1. row' = row /\ delivered' = delivered /\ Rest(w)
    BY <1>1 DEF WriteAudit, GiveUp
  <2>2. \A v \in Workers : Harmless(v)
    BY <2>1, TypedParts, Rested DEF Harmless
  <2>3. QED
    BY <2>1, <2>2, ErrandsFrame DEF Evidence, Grows
<1>2. CASE Crash
  <2>1. row' = row /\ delivered' = delivered /\ \A v \in Workers : Harmless(v)
    BY <1>2 DEF Crash, Idle, Harmless
  <2>2. QED
    BY <2>1, ErrandsFrame DEF Evidence, Grows
<1>3. CASE UNCHANGED vars
  <2>1. row' = row /\ delivered' = delivered /\ \A v \in Workers : Harmless(v)
    BY <1>3 DEF vars, Harmless
  <2>2. QED
    BY <2>1, ErrandsFrame DEF Evidence, Grows
<1>4. QED
  BY <1>1, <1>2, <1>3, RowMoves, ClaimDelivers, HandlerDelivers, BindDelivers, BeginDelivers,
     DispatchDelivers, ReportDelivers, TransitionDelivers, RecoveryDelivers DEF Next, Step

----------------------------------------------------------------------------
(* The theorems.                                                           *)

Delivery == Evidence /\ Errands

LEMMA DeliveryInvariant == Spec => []Delivery
<1>1. Init => Delivery
  BY DEF Init, Delivery, Evidence, Errands, OneSender, Errand, Shows, AbsentRow, Idle
<1>2. TypeOK /\ Delivery /\ [Next]_vars => Delivery'
  BY DeliveryStep DEF Delivery
<1>3. QED
  BY <1>1, <1>2, TypeCorrect, PTL DEF Spec

(* One receipt row sends at most one DM, however often it is claimed,      *)
(* retried and recovered.                                                  *)
THEOREM DeliveredAtMostOnce == Spec => []AtMostOneDelivery
<1>1. Delivery => AtMostOneDelivery
  <2>1. \A n \in {0, 1} : n <= 1
    OBVIOUS
  <2>2. QED
    BY <2>1 DEF Delivery, Evidence, Shows, AtMostOneDelivery
<1>2. QED
  BY <1>1, DeliveryInvariant, PTL

(* The verdict of a receipt is what its durable evidence says.             *)
THEOREM VerdictsFollowEvidence == Spec => []VerdictFollowsEvidence
<1>1. Delivery => VerdictFollowsEvidence
  BY QueueAssumption DEF Delivery, Evidence, Shows, VerdictFollowsEvidence
<1>2. QED
  BY <1>1, DeliveryInvariant, PTL

(* A receipt with an unresolved attempt never returns to the queue.        *)
THEOREM UnresolvedStaysOut == Spec => []UnresolvedIsNotRequeued
<1>1. Delivery => UnresolvedIsNotRequeued
  BY QueueAssumption DEF Delivery, Evidence, Shows, UnresolvedIsNotRequeued
<1>2. QED
  BY <1>1, DeliveryInvariant, PTL

----------------------------------------------------------------------------
(* The queue implements ReceiptContract.                                   *)

(* Every step treats every receipt the way the contract allows: it rests,  *)
(* is delivered, completed after its delivery, or held.                    *)
LEMMA ContractStep ==
  ASSUME TypeOK, Delivery, Delivery', [Next]_vars, NEW a \in Receipts
  PROVE  \/ /\ delivered'[a] = delivered[a]
            /\ Verdict(a)' = Verdict(a)
         \/ /\ delivered'[a] = delivered[a]
            /\ Verdict(a) = "open"
            /\ Verdict(a)' = "completed" => delivered[a] = 1
         \/ /\ Verdict(a)' = Verdict(a)
            /\ Verdict(a) # "completed"
            /\ delivered[a] = 0
            /\ delivered'[a] = 1
<1>1. a \in Actions
  BY QueueAssumption
<1>2. Shows(row[a], delivered[a], TRUE) /\ Shows(row'[a], delivered'[a], TRUE)
  BY <1>1 DEF Delivery, Evidence
<1>3. ASSUME NEW w \in Workers, Dispatch(w)
      PROVE  \/ /\ delivered'[a] = delivered[a]
                /\ Verdict(a)' = Verdict(a)
             \/ /\ Verdict(a)' = Verdict(a)
                /\ Verdict(a) # "completed"
                /\ delivered[a] = 0
                /\ delivered'[a] = 1
  <2>1. /\ worker[w].at = "send" /\ worker[w].job \in Actions /\ row' = row
        /\ \E n \in {0, 1} : delivered' = [delivered EXCEPT ![worker[w].job] = @ + n]
    BY <1>3, DispatchEffect
  <2>2. Verdict(a)' = Verdict(a)
    BY <2>1 DEF Verdict
  <2>3. CASE worker[w].job # a
    BY <1>1, <2>1, <2>2, <2>3 DEF TypeOK
  <2>4. CASE worker[w].job = a
    <3>1. delivered[a] = 0
      BY <2>1, <2>4 DEF Delivery, Errands, Errand
    <3>2. Verdict(a) # "completed"
      BY <1>2, <3>1 DEF Shows, Verdict
    <3>3. delivered'[a] \in {0, 1}
      BY <1>2 DEF Shows
    <3>4. QED
      BY <2>2, <3>1, <3>2, <3>3
  <2>5. QED
    BY <2>3, <2>4
<1>4. ASSUME delivered' = delivered
      PROVE  \/ Verdict(a)' = Verdict(a)
             \/ /\ Verdict(a) = "open"
                /\ Verdict(a)' = "completed" => delivered[a] = 1
  <2>1. row[a].status \in Final => row'[a].status = row[a].status
    BY <1>1, StepKeepsVerdicts, QueueAssumption DEF ReopenDeadLetter
  <2>2. row'[a].status = "completed" => delivered[a] = 1
    BY <1>2, <1>4 DEF Shows
  <2>3. QED
    BY <2>1, <2>2 DEF Verdict, Final
<1>5. delivered' = delivered \/ \E w \in Workers : Dispatch(w)
  BY DEF Next, Step, vars, Insert, ReleaseStaged, BecomeStale, BackoffElapses, RetryDeadLetter,
     ReopenDeadLetter, Claim, HandlerReturns, HandlerDefers, PrepareFails, BindGeneration, BeginOutward,
     FinishOutward, RetryClaim, FinishClaim, WriteAudit, GiveUp, RecoverStale, Crash
<1>6. QED
  BY <1>3, <1>4, <1>5

(* For every receipt the queue keeps the contract that customers and       *)
(* operators rely on.                                                      *)
THEOREM QueueKeepsReceiptContract == Spec => KeepsReceiptContract
<1> DEFINE V == [a \in Receipts |-> Verdict(a)]
           D == [a \in Receipts |-> delivered[a]]
<1>1. Init => Contract!Init
  BY QueueAssumption DEF Init, Contract!Init, Verdict, AbsentRow
<1>2. ASSUME TypeOK, Delivery, Delivery', [Next]_vars
      PROVE  Contract!Next
  <2>1. V' \in [Receipts -> Contract!Verdicts]
    BY DEF Verdict, Contract!Verdicts
  <2>2. D' \in [Receipts -> 0..1]
    <3>1. \A a \in Receipts : delivered'[a] \in {0, 1}
      BY <1>2, QueueAssumption DEF Delivery, Evidence, Shows
    <3>2. QED
      BY <3>1
  <2>3. ASSUME NEW a \in Receipts
        PROVE  Contract!Deliver(a) \/ Contract!Complete(a) \/ Contract!Hold(a) \/ Contract!Rest(a)
    <3>1. V[a] = Verdict(a) /\ V'[a] = Verdict(a)' /\ D[a] = delivered[a] /\ D'[a] = delivered'[a]
      OBVIOUS
    <3>2. Verdict(a)' \in {"open", "completed", "held"}
      BY DEF Verdict
    <3>3. QED
      BY <1>2, <3>1, <3>2, ContractStep
         DEF Contract!Deliver, Contract!Complete, Contract!Hold, Contract!Rest
  <2>4. QED
    BY <2>1, <2>2, <2>3 DEF Contract!Next
<1>3. QED
  BY <1>1, <1>2, TypeCorrect, DeliveryInvariant, PTL
     DEF Spec, KeepsReceiptContract, Contract!Spec

=============================================================================
