------------------------- MODULE ActionQueueSafety -------------------------
(***************************************************************************)
(* Safety of the action queue, proved from its type correctness: exclusive *)
(* claims, final verdicts, the retry budget, dead letters and alerts, and  *)
(* the audit trail.                                                        *)
(***************************************************************************)
EXTENDS ActionQueueProofs

----------------------------------------------------------------------------
(* What a step other than a claim leaves of a row and of an invocation.    *)

Waiting == {"absent", "staged", "pending"}

Continues(v) ==
  worker'[v].at # "idle" =>
    /\ worker[v].at # "idle"
    /\ worker'[v].job = worker[v].job
    /\ worker'[v].token = worker[v].token
    /\ worker'[v].retries = worker[v].retries
    /\ worker'[v].at = "retry" =>
         worker[v].at = "retry" \/ worker[v].retries + 1 <= HandlerMaxRetries

SameRun(a) ==
  /\ row'[a].retries = row[a].retries
  /\ row'[a].defers = row[a].defers
  /\ row'[a].reopens = row[a].reopens
  /\ row[a].status \in Waiting <=> row'[a].status \in Waiting

Settles(a) ==
  \/ row'[a] \in {AfterRecovery(row[a]), AfterFinish(row[a], TRUE), AfterFinish(row[a], FALSE)}
  \/ /\ row'[a] = AfterRetry(row[a])
     /\ \E w \in Workers : worker[w].at = "retry" /\ worker[w].job = a /\ HoldsClaim(w)

SentBack(a) ==
  /\ row[a].status = "processing"
  /\ row'[a].status = "pending"
  /\ row'[a].reopens = row[a].reopens
  /\ \/ /\ row'[a].retries = row[a].retries + 1
        /\ row'[a].defers = row[a].defers
        /\ Settles(a)
     \/ row'[a].retries = row[a].retries /\ row'[a].defers = row[a].defers + 1

Reopened(a) ==
  /\ ReopenDeadLetter(a)
  /\ row[a].status = "failed"
  /\ row'[a].status = "pending"
  /\ row'[a].retries = row[a].retries + 1
  /\ row'[a].defers = row[a].defers
  /\ row'[a].reopens = row[a].reopens + 1

Endures(a) ==
  /\ row'[a].claims = row[a].claims
  /\ row[a].status \in Final => row'[a].status = row[a].status \/ Reopened(a)
  /\ row'[a].status = "processing" =>
       /\ row[a].status = "processing"
       /\ row'[a].token = row[a].token
       /\ row'[a].retries = row[a].retries
  /\ SameRun(a) \/ SentBack(a) \/ Reopened(a)

LEMMA Untouched ==
  ASSUME NEW a \in Actions, row'[a] = row[a]
  PROVE  Endures(a)
  BY DEF Endures, SameRun

(* A row settled by an RPC or by recovery was processing and leaves it.    *)
LEMMA SettledEndures ==
  ASSUME NEW a \in Actions, row[a] \in Row, row[a].status = "processing",
         Settles(a)
  PROVE  Endures(a)
<1>0. row'[a] \in Settlements(row[a])
  BY DEF Settles, Settlements
<1>1. /\ row'[a].status \in {"pending", "completed", "failed"}
      /\ row'[a].claims = row[a].claims
      /\ row'[a].defers = row[a].defers
      /\ row'[a].reopens = row[a].reopens
      /\ row'[a].retries = IF row'[a].status = "pending"
                           THEN row[a].retries + 1 ELSE row[a].retries
  BY <1>0, SettledRow
<1>2. QED
  BY <1>1 DEF Endures, SameRun, SentBack, Waiting, Final

(* The outward RPCs of an invocation edit evidence only.                   *)
LEMMA EvidenceEndures ==
  ASSUME TypeOK, NEW w \in Workers, worker[w].at # "idle",
         NEW a \in Actions, a = worker[w].job,
         row'[a] \in {[Job(w) EXCEPT !.bound = TRUE], Begun(w), Reported(w)}
  PROVE  Endures(a)
<1>1. Job(w) = row[a] /\ row[a] \in Row
  BY TypedParts DEF Job
<1> DEFINE Kept(r) == /\ r.status = row[a].status /\ r.token = row[a].token
                      /\ r.claims = row[a].claims /\ r.retries = row[a].retries
                      /\ r.defers = row[a].defers /\ r.reopens = row[a].reopens
<1>2. Kept([Job(w) EXCEPT !.bound = TRUE])
  BY <1>1 DEF Row
<1>3. \A i, n : Kept([Job(w) EXCEPT !.intent = i, !.attempt = n])
  BY <1>1 DEF Row
<1>4. Kept(Observed(Job(w))) /\ Kept(Job(w))
  BY <1>1, ObservedRow
<1>5. Kept(Begun(w))
  BY <1>3, <1>4 DEF Begun
<1>6. Kept(Reported(w))
  BY <1>3, <1>4 DEF Reported
<1>7. QED
  BY <1>2, <1>5, <1>6 DEF Endures, SameRun

LEMMA ResultContinues ==
  ASSUME TypeOK, NEW w \in Workers, worker[w].at # "idle",
         NEW o \in Outcomes, HandlerResult(w, o)
  PROVE  \A v \in Workers : Continues(v)
  BY TypedParts, Resulted DEF Continues

LEMMA RestContinues ==
  ASSUME TypeOK, NEW w \in Workers, Rest(w)
  PROVE  \A v \in Workers : Continues(v)
  BY TypedParts, Rested DEF Continues

(* Only a claim mints a token or starts an invocation.                     *)
LEMMA StepEndures ==
  ASSUME TypeOK, [Next]_vars,
         ~ \E w \in Workers, a \in Actions : Claim(w, a)
  PROVE  (\A a \in Actions : Endures(a)) /\ (\A v \in Workers : Continues(v))
<1> DEFINE Goal == (\A a \in Actions : Endures(a)) /\ (\A v \in Workers : Continues(v))
<1>0. /\ row' = row => \A a \in Actions : Endures(a)
      /\ worker' = worker => \A v \in Workers : Continues(v)
  BY Untouched DEF Continues
<1>1. ASSUME NEW a \in Actions, Insert(a) \/ ReleaseStaged(a) \/ BecomeStale(a) \/ BackoffElapses(a)
      PROVE  Goal
  <2>1. worker' = worker
    BY <1>1 DEF Insert, ReleaseStaged, BecomeStale, BackoffElapses
  <2>2. \A b \in Actions : b # a => row'[b] = row[b]
    BY <1>1, TypedParts DEF Insert, ReleaseStaged, BecomeStale, BackoffElapses
  <2>3. CASE Insert(a) \/ ReleaseStaged(a)
    <3>1. /\ row[a].status \in Waiting \ {"pending"}
          /\ \E s \in {"staged", "pending"} : row'[a] = [row[a] EXCEPT !.status = s]
      BY <2>3, TypedParts DEF Insert, ReleaseStaged, Waiting
    <3>2. Endures(a)
      BY <3>1, TypedParts DEF Endures, SameRun, Waiting, Row, Final
    <3>3. QED
      BY <1>0, <2>1, <2>2, <3>2, Untouched
  <2>4. CASE BecomeStale(a) \/ BackoffElapses(a)
    <3>1. row'[a] = [row[a] EXCEPT !.stale = TRUE] \/ row'[a] = [row[a] EXCEPT !.parked = FALSE]
      BY <2>4, TypedParts DEF BecomeStale, BackoffElapses
    <3>2. Endures(a)
      BY <3>1, TypedParts DEF Endures, SameRun, Row
    <3>3. QED
      BY <1>0, <2>1, <2>2, <3>2, Untouched
  <2>5. QED
    BY <1>1, <2>3, <2>4
<1>2. ASSUME NEW a \in Actions, NEW b \in Actions, RetryDeadLetter(a, b) PROVE Goal
  <2>1. worker' = worker /\ row[b].status = "absent"
        /\ row'[b] = [row[b] EXCEPT !.status = "pending"]
        /\ \A c \in Actions : c # b => row'[c] = row[c]
    BY <1>2, TypedParts DEF RetryDeadLetter
  <2>2. Endures(b)
    BY <2>1, TypedParts DEF Endures, SameRun, Waiting, Row, Final
  <2>3. QED
    BY <1>0, <2>1, <2>2, Untouched
<1>3. ASSUME NEW w \in Workers, HandlerReturns(w) \/ PrepareFails(w) PROVE Goal
  BY <1>0, <1>3, SettlesEffect, ResultContinues
<1>4. ASSUME NEW w \in Workers, HandlerDefers(w) PROVE Goal
  <2>1. worker[w].job \in Actions /\ Rest(w)
    BY <1>4, DeferEffect
  <2>2. ASSUME HoldsClaim(w),
               row'[worker[w].job].status = "pending",
               row'[worker[w].job].claims = Job(w).claims,
               row'[worker[w].job].retries = Job(w).retries,
               row'[worker[w].job].defers = Job(w).defers + 1,
               row'[worker[w].job].reopens = Job(w).reopens
        PROVE  Endures(worker[w].job)
    BY <2>2 DEF Endures, SentBack, HoldsClaim, Job, Final
  <2>3. \A a \in Actions : Endures(a)
    BY <1>0, <1>4, <2>1, <2>2, DeferEffect, Untouched
  <2>4. QED
    BY <2>1, <2>3, RestContinues
<1>5. ASSUME NEW w \in Workers, BindGeneration(w) PROVE Goal
  <2>1. \A a \in Actions : Endures(a)
    BY <1>5, BindEffect, EvidenceEndures, Untouched
  <2>2. Become(w, "bound", "none") => \A v \in Workers : Continues(v)
    <3>1. "bound" \in Steps \ {"idle"} /\ "none" \in Outcomes
      BY DEF Steps, Outcomes
    <3>2. worker[w].at # "idle" /\ worker[w].job \in Receipts
      BY <1>5, BindEffect
    <3>3. QED
      BY <3>1, <3>2, TypedParts, Moved DEF Continues
  <2>3. QED
    BY <1>5, <2>1, <2>2, BindEffect, ResultContinues DEF Outcomes
<1>6. ASSUME NEW w \in Workers, BeginOutward(w) PROVE Goal
  <2>1. \A a \in Actions : Endures(a)
    BY <1>6, BeginEffect, EvidenceEndures, Untouched
  <2>2. Become(w, "send", "none") => \A v \in Workers : Continues(v)
    BY <1>6, BeginEffect, TypedParts, Moved DEF Continues, Steps, Outcomes
  <2>3. QED
    BY <1>6, <2>1, <2>2, BeginEffect, ResultContinues DEF Outcomes
<1>7. ASSUME NEW w \in Workers, Dispatch(w) PROVE Goal
  <2>1. /\ worker[w].at # "idle" /\ worker[w].job \in Receipts /\ row' = row
        /\ \E accepted \in BOOLEAN : Become(w, "report", IF accepted THEN "accepted" ELSE "unsure")
    BY <1>7, DispatchEffect
  <2>2. PICK o \in {"accepted", "unsure"} : Become(w, "report", o)
    BY <2>1
  <2>3. \A v \in Workers : Continues(v)
    BY <2>1, <2>2, TypedParts, Moved DEF Continues, Steps, Outcomes
  <2>4. QED
    BY <1>0, <2>1, <2>3
<1>8. ASSUME NEW w \in Workers, FinishOutward(w) PROVE Goal
  <2>1. \A a \in Actions : Endures(a)
    BY <1>0, <1>8, ReportEffect, EvidenceEndures, Untouched
  <2>2. QED
    BY <1>8, <2>1, ReportEffect, ResultContinues DEF Outcomes
<1>9. ASSUME NEW w \in Workers, RetryClaim(w) \/ FinishClaim(w) PROVE Goal
  <2>1. worker[w].at # "idle" /\ worker[w].job \in Actions
    BY <1>9, TransitionEffect
  <2>2. CASE Rest(w) /\ UNCHANGED <<row, dlq, alerted>>
    BY <1>0, <2>2, RestContinues
  <2>3. ASSUME HoldsClaim(w), NEW t \in Settlements(Job(w)),
               RetryClaim(w) => t = AfterRetry(Job(w)),
               FinishClaim(w) => t = AfterFinish(Job(w), worker[w].outcome = "success"),
               Transition(w, t), DeadLetterJob(w, t)
        PROVE  Goal
    <3>1. /\ row'[worker[w].job] = t
          /\ \A b \in Actions : b # worker[w].job => row'[b] = row[b]
          /\ \A v \in Workers : Continues(v)
      BY <2>1, <2>3, Transitioned DEF Continues
    <3>2. Job(w) = row[worker[w].job] /\ row[worker[w].job].status = "processing"
      BY <2>3 DEF HoldsClaim, Job
    <3>3. RetryClaim(w) => worker[w].at = "retry"
      BY DEF RetryClaim
    <3>4. \A s \in BOOLEAN : AfterFinish(Job(w), s) \in {AfterFinish(Job(w), TRUE), AfterFinish(Job(w), FALSE)}
      <4>1. TAKE s \in BOOLEAN
      <4>2. CASE s
        BY <4>2
      <4>3. CASE ~s
        BY <4>3
      <4>4. QED
        BY <4>2, <4>3
    <3>5. Settles(worker[w].job)
      BY <1>9, <2>1, <2>3, <3>1, <3>2, <3>3, <3>4 DEF Settles
    <3>6. Endures(worker[w].job)
      BY <2>1, <3>2, <3>5, SettledEndures, TypedParts
    <3>7. QED
      BY <3>1, <3>6, Untouched
  <2>4. QED
    BY <1>9, <2>2, <2>3, TransitionEffect
<1>10. ASSUME NEW w \in Workers, WriteAudit(w) \/ GiveUp(w) PROVE Goal
  <2>1. row' = row /\ Rest(w)
    BY <1>10 DEF WriteAudit, GiveUp
  <2>2. QED
    BY <1>0, <2>1, RestContinues
<1>11. ASSUME RecoverStale PROVE Goal
  <2>1. \A a \in Actions : Endures(a)
    BY <1>11, RecoveryEffect, SettledEndures, Untouched, TypedParts DEF Settles
  <2>2. QED
    BY <1>0, <1>11, <2>1, RecoveryEffect
<1>12. ASSUME Crash PROVE Goal
  <2>1. row' = row /\ \A v \in Workers : worker'[v].at = "idle"
    BY <1>12 DEF Crash, Idle
  <2>2. QED
    BY <1>0, <2>1 DEF Continues
<1>13. CASE UNCHANGED vars
  BY <1>0, <1>13 DEF vars
<1>14. ASSUME NEW a \in Actions, ReopenDeadLetter(a) PROVE Goal
  <2>1. Endures(a)
    BY <1>14, ReopenEffect DEF Endures, Reopened
  <2>2. QED
    BY <1>0, <1>14, <2>1, ReopenEffect, Untouched
<1>15. QED
  BY <1>1, <1>2, <1>3, <1>4, <1>5, <1>6, <1>7, <1>8, <1>9, <1>10, <1>11, <1>12, <1>13, <1>14
     DEF Next, Step

----------------------------------------------------------------------------
(* Claims are exclusive.                                                   *)

(* The strengthening of OneOwner: an invocation's token was minted by its  *)
(* own claim, so no two invocations of a row share one.                    *)
Tokens ==
  \A v \in Workers : worker[v].at # "idle" =>
    /\ worker[v].token <= row[worker[v].job].claims
    /\ \A w \in Workers :
         (w # v /\ worker[w].at # "idle" /\ worker[w].job = worker[v].job)
           => worker[w].token # worker[v].token

LEMMA TokensStep ==
  ASSUME TypeOK, Tokens, [Next]_vars
  PROVE  Tokens'
<1>1. ASSUME NEW w \in Workers, NEW a \in Actions, Claim(w, a)
      PROVE  Tokens'
  <2>1. /\ worker'[w].job = a
        /\ worker'[w].token = row[a].claims + 1
        /\ row'[a].claims = row[a].claims + 1
        /\ \A b \in Actions : b # a => row'[b] = row[b]
        /\ \A v \in Workers : v # w => worker'[v] = worker[v]
    BY <1>1, ClaimEffect
  <2>2. \A b \in Actions : row[b].claims \in Nat
    BY TypedParts DEF Row
  <2>3. \A v \in Workers : worker[v].at # "idle" =>
          worker[v].job \in Actions /\ worker[v].token \in Nat
    BY TypedParts DEF WorkerOK, Invocation
  <2>4. ASSUME NEW v \in Workers, v # w, worker'[v].at # "idle"
        PROVE  /\ worker'[v].token <= row'[worker'[v].job].claims
               /\ worker'[v].job = a => worker'[v].token < row[a].claims + 1
    BY <2>1, <2>2, <2>3, <2>4 DEF Tokens
  <2>5. worker'[w].token <= row'[a].claims
    BY <2>1, <2>2
  <2>6. QED
    BY <2>1, <2>2, <2>3, <2>4, <2>5 DEF Tokens
<1>2. CASE ~ \E w \in Workers, a \in Actions : Claim(w, a)
  <2>1. (\A a \in Actions : row'[a].claims = row[a].claims) /\ (\A v \in Workers : Continues(v))
    BY <1>2, StepEndures DEF Endures
  <2>2. \A v \in Workers : worker[v].at # "idle" => worker[v].job \in Actions
    BY TypedParts DEF WorkerOK
  <2>3. QED
    BY <2>1, <2>2 DEF Tokens, Continues
<1>3. QED
  BY <1>1, <1>2

(* At most one invocation ever holds the live claim of a row.              *)
THEOREM ClaimsAreExclusive == Spec => []OneOwner
<1>1. Init => Tokens
  BY DEF Init, Tokens, Idle
<1>2. TypeOK /\ Tokens /\ [Next]_vars => Tokens'
  BY TokensStep
<1>3. TypeOK /\ Tokens => OneOwner
  BY DEF Tokens, OneOwner, HoldsClaim, Job
<1>4. QED
  BY <1>1, <1>2, <1>3, TypeCorrect, PTL DEF Spec

LEMMA StepKeepsVerdicts ==
  ASSUME TypeOK, [Next]_vars
  PROVE  \A a \in Actions :
           row[a].status \in Final => row'[a].status = row[a].status \/ ReopenDeadLetter(a)
<1>1. ASSUME NEW w \in Workers, NEW a \in Actions, Claim(w, a)
      PROVE  \A b \in Actions : (row[b].status \in Final) => (row'[b].status = row[b].status)
  BY <1>1, ClaimEffect DEF Final
<1>2. QED
  BY <1>1, StepEndures DEF Endures, Reopened

(* A completed or failed row keeps its verdict, unless an operator reopens *)
(* it.                                                                     *)
THEOREM VerdictsAreFinal == Spec => VerdictIsFinal
<1>1. TypeOK /\ [Next]_vars =>
        \A a \in Actions :
          row[a].status \in Final => row'[a].status = row[a].status \/ ReopenDeadLetter(a)
  BY StepKeepsVerdicts
<1>2. QED
  BY <1>1, TypeCorrect, PTL DEF Spec, VerdictIsFinal

----------------------------------------------------------------------------
(* The retry budget.                                                       *)

(* The strengthening of RetryBudget: every claim but the current one was   *)
(* given back by a counted retry or deferral, and the retry count an       *)
(* invocation was given is still the row's while its claim is live.        *)
Budget ==
  /\ \A a \in Actions :
       /\ row[a].retries <= MaxRetries + row[a].reopens
       /\ row[a].claims <= row[a].retries + row[a].defers
                             + (IF row[a].status \in Waiting THEN 0 ELSE 1)
  /\ \A w \in Workers : worker[w].at # "idle" =>
       /\ worker[w].at = "retry" => worker[w].retries + 1 <= HandlerMaxRetries
       /\ HoldsClaim(w) => worker[w].retries = Job(w).retries

(* No settlement overruns the budget of a row within it, provided a retry  *)
(* of a row without outward evidence is asked for below the budget.        *)
LEMMA SettledWithinBudget ==
  ASSUME NEW r \in Row, r.retries <= MaxRetries + r.reopens, NEW t,
         \/ t \in {AfterRecovery(r), AfterFinish(r, TRUE), AfterFinish(r, FALSE)}
         \/ t = AfterRetry(r) /\ r.retries < MaxRetries
  PROVE  t.retries <= MaxRetries + r.reopens
<1>1. r.retries \in Nat /\ r.reopens \in Nat /\ MaxRetries \in Nat
  BY QueueAssumption DEF Row
<1>2. \A b \in BOOLEAN : Requeued(r, b).retries = r.retries + 1
  BY RequeuedRow
<1>3. Leave(r, "completed").retries = r.retries /\ Leave(r, "failed").retries = r.retries
  BY LeftRow DEF Statuses
<1>4. Held(r).retries = r.retries
  BY ObservedRow, LeftRow DEF Held, Statuses
<1>5. ASSUME t \in {Leave(r, "completed"), Leave(r, "failed"), Held(r)}
              \/ (r.retries < MaxRetries /\ \E b \in BOOLEAN : t = Requeued(r, b))
      PROVE  t.retries <= MaxRetries + r.reopens
  BY <1>1, <1>2, <1>3, <1>4, <1>5
<1>6. CASE t = AfterRecovery(r)
  <2>1. t \in {Leave(r, "completed"), Held(r)} \/ (r.retries < MaxRetries /\ t = Requeued(r, FALSE))
    BY <1>6 DEF AfterRecovery
  <2>2. QED
    BY <1>5, <2>1
<1>7. ASSUME NEW s \in BOOLEAN, t = AfterFinish(r, s) PROVE t.retries <= MaxRetries + r.reopens
  <2>1. Classify(r) \in {"delegate", "complete", "operator_held", "requeue"}
    BY DEF Classify
  <2>2. (IF s THEN "completed" ELSE "failed") \in {"completed", "failed"}
    OBVIOUS
  <2>3. CASE Classify(r) = "delegate"
    <3>1. t = Leave(r, IF s THEN "completed" ELSE "failed")
      BY <1>7, <2>3 DEF AfterFinish
    <3>2. QED
      BY <1>5, <2>2, <3>1
  <2>4. CASE Classify(r) = "complete"
    BY <1>5, <1>7, <2>4 DEF AfterFinish
  <2>5. CASE Classify(r) = "operator_held"
    BY <1>5, <1>7, <2>5 DEF AfterFinish
  <2>6. CASE Classify(r) = "requeue"
    <3>1. t = IF r.retries >= MaxRetries THEN Held(r) ELSE Requeued(r, FALSE)
      BY <1>7, <2>6 DEF AfterFinish
    <3>2. CASE r.retries >= MaxRetries
      BY <1>5, <3>1, <3>2
    <3>3. CASE ~(r.retries >= MaxRetries)
      <4>1. r.retries < MaxRetries
        BY <1>1, <3>3
      <4>2. QED
        BY <1>5, <3>1, <3>3, <4>1
    <3>4. QED
      BY <3>2, <3>3
  <2>7. QED
    BY <2>1, <2>3, <2>4, <2>5, <2>6
<1>8. CASE t = AfterRetry(r) /\ r.retries < MaxRetries
  <2>1. t \in {Leave(r, "completed"), Held(r), Requeued(r, TRUE)}
    BY <1>8 DEF AfterRetry
  <2>2. QED
    BY <1>5, <1>8, <2>1
<1>9. QED
  BY <1>6, <1>7, <1>8

LEMMA BudgetStep ==
  ASSUME TypeOK, Tokens, Budget, [Next]_vars
  PROVE  Budget'
<1>0. /\ \A a \in Actions : /\ row[a] \in Row /\ row[a].claims \in Nat /\ row[a].retries \in Nat
                            /\ row[a].defers \in Nat /\ row[a].token \in Nat
                            /\ row[a].reopens \in Nat
      /\ \A v \in Workers : worker[v].at # "idle" =>
           worker[v].job \in Actions /\ worker[v].token \in Nat /\ worker[v].retries \in Nat
      /\ MaxRetries \in Nat /\ HandlerMaxRetries \in Nat /\ HandlerMaxRetries <= MaxRetries
  BY TypedParts, QueueAssumption DEF WorkerOK, Invocation, Row
<1>1. ASSUME NEW w \in Workers, NEW a \in Actions, Claim(w, a)
      PROVE  Budget'
  <2>1. /\ row[a].status = "pending"
        /\ row'[a].status = "processing"
        /\ row'[a].token = row[a].claims + 1
        /\ row'[a].claims = row[a].claims + 1
        /\ row'[a].retries = row[a].retries
        /\ row'[a].defers = row[a].defers
        /\ row'[a].reopens = row[a].reopens
        /\ \A b \in Actions : b # a => row'[b] = row[b]
        /\ worker'[w].at = "run"
        /\ worker'[w].job = a
        /\ worker'[w].retries = row[a].retries
        /\ \A v \in Workers : v # w => worker'[v] = worker[v]
    BY <1>1, ClaimEffect
  <2>2. \A b \in Actions :
          /\ row'[b].retries <= MaxRetries + row'[b].reopens
          /\ row'[b].claims <= row'[b].retries + row'[b].defers
                                 + (IF row'[b].status \in Waiting THEN 0 ELSE 1)
    BY <1>0, <2>1 DEF Budget, Waiting
  <2>3. ASSUME NEW v \in Workers, v # w, worker'[v].at # "idle", HoldsClaim(v)'
        PROVE  HoldsClaim(v) /\ row'[worker'[v].job].retries = Job(v).retries
    <3>1. worker'[v] = worker[v] /\ worker[v].job \in Actions /\ worker[v].token <= row[worker[v].job].claims
      BY <1>0, <2>1, <2>3 DEF Tokens
    <3>2. worker[v].job # a
      BY <1>0, <2>1, <2>3, <3>1 DEF HoldsClaim, Job
    <3>3. QED
      BY <2>1, <2>3, <3>1, <3>2 DEF HoldsClaim, Job
  <2>4. \A v \in Workers : worker'[v].at # "idle" =>
          /\ worker'[v].at = "retry" => worker'[v].retries + 1 <= HandlerMaxRetries
          /\ HoldsClaim(v)' => worker'[v].retries = Job(v)'.retries
    <3>1. ASSUME NEW v \in Workers, v # w, worker'[v].at # "idle"
          PROVE  /\ worker'[v].at = "retry" => worker'[v].retries + 1 <= HandlerMaxRetries
                 /\ HoldsClaim(v)' => worker'[v].retries = Job(v)'.retries
      BY <2>1, <2>3, <3>1 DEF Budget, Job
    <3>2. QED
      BY <2>1, <3>1 DEF Job
  <2>5. QED
    BY <2>2, <2>4 DEF Budget
<1>2. CASE ~ \E w \in Workers, a \in Actions : Claim(w, a)
  <2>1. (\A a \in Actions : Endures(a)) /\ (\A v \in Workers : Continues(v))
    BY <1>2, StepEndures
  <2>2. ASSUME NEW a \in Actions, NEW w \in Workers,
               worker[w].at = "retry", worker[w].job = a, HoldsClaim(w)
        PROVE  row[a].retries < MaxRetries
    <3>1. worker[w].retries = row[a].retries /\ worker[w].retries + 1 <= HandlerMaxRetries
      BY <2>2 DEF Budget, Job
    <3>2. QED
      BY <1>0, <2>2, <3>1
  <2>3. ASSUME NEW a \in Actions, Settles(a)
        PROVE  row'[a].retries <= MaxRetries + row[a].reopens
    <3>1. row[a] \in Row /\ row[a].retries <= MaxRetries + row[a].reopens
      BY <1>0 DEF Budget
    <3>2. \/ row'[a] \in {AfterRecovery(row[a]), AfterFinish(row[a], TRUE), AfterFinish(row[a], FALSE)}
          \/ row'[a] = AfterRetry(row[a]) /\ row[a].retries < MaxRetries
      BY <2>2, <2>3 DEF Settles
    <3>3. QED
      BY <3>1, <3>2, SettledWithinBudget
  <2>4. \A a \in Actions :
          /\ row'[a].retries <= MaxRetries + row'[a].reopens
          /\ row'[a].claims <= row'[a].retries + row'[a].defers
                                 + (IF row'[a].status \in Waiting THEN 0 ELSE 1)
    <3> TAKE a \in Actions
    <3>1. /\ row'[a].claims = row[a].claims
          /\ row[a].retries <= MaxRetries + row[a].reopens
          /\ row[a].claims <= row[a].retries + row[a].defers
                                + (IF row[a].status \in Waiting THEN 0 ELSE 1)
      BY <2>1 DEF Endures, Budget
    <3>2. CASE SameRun(a)
      BY <3>1, <3>2 DEF SameRun
    <3>3. CASE SentBack(a)
      <4>1. /\ row[a].status \notin Waiting /\ row'[a].status \in Waiting
            /\ row'[a].reopens = row[a].reopens
            /\ \/ row'[a].retries = row[a].retries + 1 /\ row'[a].defers = row[a].defers /\ Settles(a)
               \/ row'[a].retries = row[a].retries /\ row'[a].defers = row[a].defers + 1
        BY <3>3 DEF SentBack, Waiting
      <4>2. QED
        BY <1>0, <2>3, <3>1, <4>1
    <3>4. CASE Reopened(a)
      <4>1. /\ row[a].status \notin Waiting /\ row'[a].status \in Waiting
            /\ row'[a].retries = row[a].retries + 1 /\ row'[a].defers = row[a].defers
            /\ row'[a].reopens = row[a].reopens + 1
        BY <3>4 DEF Reopened, Waiting
      <4>2. QED
        BY <1>0, <3>1, <4>1
    <3>5. QED
      BY <2>1, <3>2, <3>3, <3>4 DEF Endures
  <2>5. \A v \in Workers : worker'[v].at # "idle" =>
          /\ worker'[v].at = "retry" => worker'[v].retries + 1 <= HandlerMaxRetries
          /\ HoldsClaim(v)' => worker'[v].retries = Job(v)'.retries
    <3> SUFFICES ASSUME NEW v \in Workers, worker'[v].at # "idle"
                 PROVE  /\ worker'[v].at = "retry" => worker'[v].retries + 1 <= HandlerMaxRetries
                        /\ HoldsClaim(v)' => worker'[v].retries = Job(v)'.retries
      OBVIOUS
    <3>1. /\ worker[v].at # "idle"
          /\ worker'[v].job = worker[v].job
          /\ worker'[v].token = worker[v].token
          /\ worker'[v].retries = worker[v].retries
          /\ worker'[v].at = "retry" =>
               worker[v].at = "retry" \/ worker[v].retries + 1 <= HandlerMaxRetries
      BY <2>1 DEF Continues
    <3>2. /\ worker[v].at = "retry" => worker[v].retries + 1 <= HandlerMaxRetries
          /\ HoldsClaim(v) => worker[v].retries = Job(v).retries
      BY <3>1 DEF Budget
    <3>3. ASSUME HoldsClaim(v)'
          PROVE  HoldsClaim(v) /\ Job(v)'.retries = Job(v).retries
      BY <1>0, <2>1, <3>1, <3>3 DEF HoldsClaim, Job, Endures
    <3>4. QED
      BY <3>1, <3>2, <3>3
  <2>6. QED
    BY <2>4, <2>5 DEF Budget
<1>3. QED
  BY <1>1, <1>2

(* Every way back to the queue is counted, and no row runs more often than *)
(* its budget of retries and its deferrals allow.                          *)
THEOREM RetriesAreBounded == Spec => []RetryBudget
<1>1. Init => Tokens /\ Budget
  BY QueueAssumption DEF Init, Tokens, Budget, Idle, AbsentRow, Waiting
<1>2. TypeOK /\ Tokens /\ [Next]_vars => Tokens'
  BY TokensStep
<1>3. TypeOK /\ Tokens /\ Budget /\ [Next]_vars => Budget'
  BY BudgetStep
<1>4. TypeOK /\ Budget => RetryBudget
  <2> SUFFICES ASSUME TypeOK, Budget PROVE RetryBudget
    OBVIOUS
  <2>1. \A a \in Actions : row[a].claims \in Nat /\ row[a].retries \in Nat /\ row[a].defers \in Nat
    BY TypedParts DEF Row
  <2>2. ASSUME NEW a \in Actions
        PROVE  row[a].retries <= MaxRetries + row[a].reopens /\ row[a].claims <= row[a].retries + row[a].defers + 1
    <3>1. row[a].claims <= row[a].retries + row[a].defers
                            + (IF row[a].status \in Waiting THEN 0 ELSE 1)
      BY DEF Budget
    <3>2. QED
      BY <2>1, <3>1 DEF Budget
  <2>3. QED
    BY <2>2 DEF RetryBudget
<1>5. QED
  BY <1>1, <1>2, <1>3, <1>4, TypeCorrect, PTL DEF Spec

----------------------------------------------------------------------------
(* Failures are visible.                                                   *)

(* Dead letters and alerts once recorded stay on record.                   *)
Recorded(a) ==
  /\ dlq[a] # "none" => dlq'[a] # "none"
  /\ a \in alerted => a \in alerted'

(* A row fails only in a transaction that dead-letters and alerts it.      *)
Shown(a) ==
  /\ Recorded(a)
  /\ (row'[a].status = "failed" /\ row[a].status # "failed") =>
       /\ dlq'[a] # "none"
       /\ a \in Receipts => a \in alerted'

LEMMA ShownKept ==
  ASSUME NEW a \in Actions, row'[a].status = row[a].status \/ row'[a].status # "failed",
         Recorded(a)
  PROVE  Shown(a)
  BY DEF Shown

LEMMA DeadLetterShows ==
  ASSUME TypeOK, NEW F \in SUBSET Actions, DeadLetter(F)
  PROVE  \A a \in Actions :
           /\ Recorded(a)
           /\ a \in F => dlq'[a] # "none" /\ (a \in Receipts => a \in alerted')
  BY DEF TypeOK, DeadLetter, Recorded

(* The outward RPCs keep the status of their row.                          *)
LEMMA EvidenceKeepsStatus ==
  ASSUME TypeOK, NEW w \in Workers, worker[w].at # "idle",
         NEW r \in {[Job(w) EXCEPT !.bound = TRUE], Begun(w), Reported(w)}
  PROVE  r.status = Job(w).status
<1>1. Job(w) \in Row
  BY TypedParts, BegunRow
<1>2. \A i, n : [Job(w) EXCEPT !.intent = i, !.attempt = n].status = Job(w).status
  BY <1>1 DEF Row
<1>3. Observed(Job(w)).status = Job(w).status
  BY <1>1, ObservedRow
<1>4. [Job(w) EXCEPT !.bound = TRUE].status = Job(w).status
  BY <1>1 DEF Row
<1>5. Begun(w).status = Job(w).status
  BY <1>2, <1>3 DEF Begun
<1>6. Reported(w).status = Job(w).status
  BY <1>2 DEF Reported
<1>7. QED
  BY <1>4, <1>5, <1>6

LEMMA FailureStep ==
  ASSUME TypeOK, [Next]_vars
  PROVE  \A a \in Actions : Shown(a)
<1> DEFINE Goal == \A a \in Actions : Shown(a)
<1>0. UNCHANGED <<dlq, alerted>> => \A a \in Actions : Recorded(a)
  BY DEF Recorded
<1>1. ASSUME NEW a \in Actions,
             Insert(a) \/ ReleaseStaged(a) \/ BecomeStale(a) \/ BackoffElapses(a)
      PROVE  Goal
  <2>1. UNCHANGED <<dlq, alerted>>
    BY <1>1 DEF Insert, ReleaseStaged, BecomeStale, BackoffElapses
  <2>2. \A b \in Actions : b # a => row'[b] = row[b]
    BY <1>1, TypedParts DEF Insert, ReleaseStaged, BecomeStale, BackoffElapses
  <2>3. row'[a].status \in {row[a].status, "staged", "pending"}
    BY <1>1, TypedParts DEF Insert, ReleaseStaged, BecomeStale, BackoffElapses, Row
  <2>4. QED
    BY <1>0, <2>1, <2>2, <2>3, ShownKept
<1>2. ASSUME NEW a \in Actions, NEW b \in Actions, RetryDeadLetter(a, b) PROVE Goal
  <2>1. /\ row'[b].status = "pending"
        /\ \A c \in Actions : c # b => row'[c] = row[c]
    BY <1>2, TypedParts DEF RetryDeadLetter, Row
  <2>2. \A c \in Actions : Recorded(c)
    BY <1>2 DEF RetryDeadLetter, Recorded, TypeOK
  <2>3. QED
    BY <2>1, <2>2, ShownKept
<1>3. ASSUME NEW a \in Actions, ReopenDeadLetter(a) PROVE Goal
  <2>1. \A c \in Actions : Recorded(c)
    BY <1>3 DEF ReopenDeadLetter, Recorded, TypeOK
  <2>2. QED
    BY <1>3, <2>1, ReopenEffect, ShownKept
<1>4. ASSUME NEW w \in Workers, NEW a \in Actions, Claim(w, a) PROVE Goal
  <2>1. UNCHANGED <<dlq, alerted>>
    BY <1>4 DEF Claim
  <2>2. QED
    BY <1>0, <1>4, <2>1, ClaimEffect, ShownKept
<1>5. ASSUME NEW w \in Workers,
             HandlerReturns(w) \/ PrepareFails(w) \/ Dispatch(w) \/ WriteAudit(w) \/ GiveUp(w)
      PROVE  Goal
  <2>1. UNCHANGED <<row, dlq, alerted>>
    BY <1>5 DEF HandlerReturns, PrepareFails, Dispatch, WriteAudit, GiveUp
  <2>2. QED
    BY <1>0, <2>1, ShownKept
<1>6. ASSUME NEW w \in Workers, HandlerDefers(w) PROVE Goal
  <2>1. UNCHANGED <<dlq, alerted>>
    BY <1>6 DEF HandlerDefers
  <2>2. QED
    BY <1>0, <1>6, <2>1, DeferEffect, ShownKept
<1>7. ASSUME NEW w \in Workers, BindGeneration(w) \/ BeginOutward(w) \/ FinishOutward(w)
      PROVE  Goal
  <2>1. \A a \in Actions : Recorded(a)
    BY <1>7 DEF BindGeneration, BeginOutward, FinishOutward, Recorded
  <2>2. /\ worker[w].at # "idle" /\ worker[w].job \in Actions
        /\ \/ row' = row
           \/ /\ row'[worker[w].job] \in {[Job(w) EXCEPT !.bound = TRUE], Begun(w), Reported(w)}
              /\ \A b \in Actions : b # worker[w].job => row'[b] = row[b]
    BY <1>7, BindEffect, BeginEffect, ReportEffect
  <2>3. \A a \in Actions : row'[a].status = row[a].status
    BY <2>2, EvidenceKeepsStatus DEF Job
  <2>4. QED
    BY <2>1, <2>3, ShownKept
<1>8. ASSUME NEW w \in Workers, RetryClaim(w) \/ FinishClaim(w) PROVE Goal
  <2>1. worker[w].at # "idle" /\ worker[w].job \in Actions
    BY <1>8, TransitionEffect
  <2>2. CASE UNCHANGED <<row, dlq, alerted>>
    BY <1>0, <2>2, ShownKept
  <2>3. ASSUME NEW t \in Settlements(Job(w)), Transition(w, t), DeadLetterJob(w, t)
        PROVE  Goal
    <3>1. /\ row'[worker[w].job] = t
          /\ \A b \in Actions : b # worker[w].job => row'[b] = row[b]
      BY <2>1, <2>3, Transitioned
    <3> DEFINE F == IF t.status = "failed" THEN {worker[w].job} ELSE {}
    <3>2. F \in SUBSET Actions /\ DeadLetter(F)
      BY <2>1, <2>3 DEF DeadLetterJob
    <3>3. \A a \in Actions :
            /\ Recorded(a)
            /\ a \in F => dlq'[a] # "none" /\ (a \in Receipts => a \in alerted')
      BY <3>2, DeadLetterShows
    <3>4. Shown(worker[w].job)
      BY <2>1, <3>1, <3>3 DEF Shown
    <3>5. QED
      BY <3>1, <3>3, <3>4, ShownKept
  <2>4. QED
    BY <1>8, <2>2, <2>3, TransitionEffect
<1>9. ASSUME RecoverStale PROVE Goal
  <2> DEFINE F == {a \in StaleRows : AfterRecovery(row[a]).status = "failed"}
  <2>1. F \in SUBSET Actions /\ DeadLetter(F)
    BY <1>9 DEF RecoverStale, StaleRows
  <2>2. \A a \in Actions :
          /\ Recorded(a)
          /\ a \in F => dlq'[a] # "none" /\ (a \in Receipts => a \in alerted')
    BY <2>1, DeadLetterShows
  <2>3. \A a \in Actions :
          row'[a] = row[a] \/ (a \in StaleRows /\ row'[a] = AfterRecovery(row[a]))
    BY <1>9 DEF RecoverStale
  <2>4. QED
    BY <2>2, <2>3 DEF Shown
<1>10. CASE Crash \/ UNCHANGED vars
  <2>1. UNCHANGED <<row, dlq, alerted>>
    BY <1>10 DEF Crash, vars
  <2>2. QED
    BY <1>0, <2>1, ShownKept
<1>11. QED
  BY <1>1, <1>2, <1>3, <1>4, <1>5, <1>6, <1>7, <1>8, <1>9, <1>10 DEF Next, Step

(* Every failed row has a dead letter, and every failed receipt an alert.  *)
THEOREM FailuresAreVisible == Spec => []FailureIsVisible
<1>1. Init => FailureIsVisible
  BY DEF Init, FailureIsVisible, AbsentRow
<1>2. TypeOK /\ FailureIsVisible /\ [Next]_vars => FailureIsVisible'
  BY FailureStep DEF FailureIsVisible, Shown, Recorded
<1>3. QED
  BY <1>1, <1>2, TypeCorrect, PTL DEF Spec

----------------------------------------------------------------------------
(* The audit trail.                                                        *)

(* The strengthening of AuditAgrees, for a row no operator has reopened:   *)
(* a written verdict is a final row's, and an invocation about to write    *)
(* one is alone with it and writes the row's.                              *)
AuditTrail ==
  /\ \A a \in Actions :
       (row[a].reopens = 0 /\ audit[a] # "none") =>
         row[a].status \in Final /\ audit[a] = row[a].status
  /\ \A v \in Workers :
       (worker[v].at = "audit" /\ row[worker[v].job].reopens = 0) =>
         /\ audit[worker[v].job] = "none"
         /\ worker[v].outcome = row[worker[v].job].status
         /\ \A w \in Workers :
              (worker[w].at = "audit" /\ worker[w].job = worker[v].job) => w = v

(* What a step leaves of a row no operator has reopened.                   *)
LEMMA VerdictStays ==
  ASSUME TypeOK, [Next]_vars, NEW a \in Actions, row'[a].reopens = 0
  PROVE  /\ row[a].reopens = 0
         /\ row[a].status \in Final => row'[a].status = row[a].status
<1>1. row[a].reopens \in Nat
  BY TypedParts DEF Row
<1>2. ASSUME NEW w \in Workers, NEW b \in Actions, Claim(w, b)
      PROVE  /\ row[a].reopens = 0
             /\ row[a].status \in Final => row'[a].status = row[a].status
  BY <1>2, ClaimEffect DEF Final
<1>3. CASE ~ \E w \in Workers, b \in Actions : Claim(w, b)
  <2>1. Endures(a)
    BY <1>3, StepEndures
  <2>2. row'[a].reopens # row[a].reopens + 1
    BY <1>1
  <2>3. QED
    BY <2>1, <2>2 DEF Endures, SameRun, SentBack, Reopened
<1>4. QED
  BY <1>2, <1>3

(* No step but a transition starts an audit, and only WriteAudit writes.   *)
LEMMA QuietAudit ==
  ASSUME TypeOK, [Next]_vars,
         ~ \E w \in Workers : RetryClaim(w) \/ FinishClaim(w) \/ WriteAudit(w)
  PROVE  /\ audit' = audit
         /\ \A v \in Workers : worker'[v].at = "audit" => worker'[v] = worker[v]
<1> DEFINE Goal == /\ audit' = audit
                   /\ \A v \in Workers : worker'[v].at = "audit" => worker'[v] = worker[v]
<1>0. WorkerOK
  BY TypedParts
<1>1. ASSUME UNCHANGED <<worker, audit>> PROVE Goal
  BY <1>1
<1>2. ASSUME NEW w \in Workers, Rest(w), audit' = audit PROVE Goal
  BY <1>0, <1>2, Rested
<1>3. ASSUME NEW w \in Workers, worker[w].at # "idle", NEW o \in Outcomes,
             HandlerResult(w, o), audit' = audit
      PROVE  Goal
  <2>1. /\ worker'[w].at \in {"retry", "finish"}
        /\ \A v \in Workers : v # w => worker'[v] = worker[v]
    BY <1>0, <1>3, Resulted
  <2>2. QED
    BY <1>3, <2>1
<1>4. ASSUME NEW w \in Workers, worker[w].job \in Receipts, worker[w].at # "idle",
             NEW p \in {"bound", "send", "report"}, NEW o \in Outcomes, Become(w, p, o),
             audit' = audit
      PROVE  Goal
  <2>1. /\ worker'[w].at = p
        /\ \A v \in Workers : v # w => worker'[v] = worker[v]
    BY <1>0, <1>4, Moved DEF Steps
  <2>2. QED
    BY <1>4, <2>1
<1>5. ASSUME NEW a \in Actions,
             Insert(a) \/ ReleaseStaged(a) \/ BecomeStale(a) \/ BackoffElapses(a) \/ ReopenDeadLetter(a)
      PROVE  Goal
  BY <1>1, <1>5 DEF Insert, ReleaseStaged, BecomeStale, BackoffElapses, ReopenDeadLetter
<1>6. ASSUME NEW a \in Actions, NEW b \in Actions, RetryDeadLetter(a, b) PROVE Goal
  BY <1>1, <1>6 DEF RetryDeadLetter
<1>7. ASSUME NEW w \in Workers, NEW a \in Actions, Claim(w, a) PROVE Goal
  <2>1. audit' = audit
    BY <1>7 DEF Claim
  <2>2. worker'[w].at = "run" /\ \A v \in Workers : v # w => worker'[v] = worker[v]
    BY <1>7, ClaimEffect
  <2>3. QED
    BY <2>1, <2>2
<1>8. ASSUME NEW w \in Workers, HandlerReturns(w) \/ PrepareFails(w) PROVE Goal
  <2>1. audit' = audit
    BY <1>8 DEF HandlerReturns, PrepareFails
  <2>2. QED
    BY <1>3, <1>8, <2>1, SettlesEffect
<1>9. ASSUME NEW w \in Workers, HandlerDefers(w) \/ GiveUp(w) PROVE Goal
  BY <1>2, <1>9 DEF HandlerDefers, GiveUp
<1>10. ASSUME NEW w \in Workers, BindGeneration(w) PROVE Goal
  <2>1. audit' = audit
    BY <1>10 DEF BindGeneration
  <2>2. QED
    BY <1>3, <1>4, <1>10, <2>1, BindEffect DEF Outcomes
<1>11. ASSUME NEW w \in Workers, BeginOutward(w) PROVE Goal
  <2>1. audit' = audit
    BY <1>11 DEF BeginOutward
  <2>2. QED
    BY <1>3, <1>4, <1>11, <2>1, BeginEffect DEF Outcomes
<1>12. ASSUME NEW w \in Workers, Dispatch(w) PROVE Goal
  <2>1. audit' = audit
    BY <1>12 DEF Dispatch
  <2>2. PICK o \in {"accepted", "unsure"} : Become(w, "report", o)
    BY <1>12, DispatchEffect
  <2>3. QED
    BY <1>4, <1>12, <2>1, <2>2, DispatchEffect DEF Outcomes
<1>13. ASSUME NEW w \in Workers, FinishOutward(w) PROVE Goal
  <2>1. audit' = audit
    BY <1>13 DEF FinishOutward
  <2>2. QED
    BY <1>3, <1>13, <2>1, ReportEffect DEF Outcomes
<1>14. CASE RecoverStale \/ UNCHANGED vars
  BY <1>1, <1>14 DEF RecoverStale, vars
<1>15. CASE Crash
  BY <1>15 DEF Crash, Idle
<1>16. QED
  BY <1>5, <1>6, <1>7, <1>8, <1>9, <1>10, <1>11, <1>12, <1>13, <1>14, <1>15 DEF Next, Step

LEMMA AuditStep ==
  ASSUME TypeOK, AuditTrail, [Next]_vars
  PROVE  AuditTrail'
<1>1. \A v \in Workers : worker[v].at = "audit" =>
        worker[v].job \in Actions /\ worker[v].outcome \in Final
  BY TypedParts DEF WorkerOK
<1>2. CASE ~ \E w \in Workers : RetryClaim(w) \/ FinishClaim(w) \/ WriteAudit(w)
  <2>1. /\ audit' = audit
        /\ \A v \in Workers : worker'[v].at = "audit" => worker'[v] = worker[v]
    BY <1>2, QuietAudit
  <2>2. QED
    BY <1>1, <2>1, VerdictStays DEF AuditTrail
<1>3. ASSUME NEW w \in Workers, WriteAudit(w) PROVE AuditTrail'
  <2>1. /\ worker[w].at = "audit" /\ row' = row
        /\ audit' = [audit EXCEPT ![worker[w].job] =
                       IF @ = "none" THEN worker[w].outcome ELSE "twice"]
    BY <1>3 DEF WriteAudit
  <2>2. worker'[w].at = "idle" /\ \A v \in Workers : v # w => worker'[v] = worker[v]
    BY <1>3, TypedParts, Rested DEF WriteAudit
  <2>3. audit \in [Actions -> {"none", "completed", "failed", "twice"}]
    BY DEF TypeOK
  <2>4. ASSUME NEW a \in Actions, row[a].reopens = 0, audit'[a] # "none"
        PROVE  row[a].status \in Final /\ audit'[a] = row[a].status
    BY <1>1, <2>1, <2>3, <2>4 DEF AuditTrail
  <2>5. ASSUME NEW v \in Workers, worker'[v].at = "audit", row[worker'[v].job].reopens = 0
        PROVE  /\ worker'[v] = worker[v] /\ audit'[worker[v].job] = "none"
               /\ worker[v].outcome = row[worker[v].job].status
               /\ \A u \in Workers :
                    (worker[u].at = "audit" /\ worker[u].job = worker[v].job) => u = v
    BY <1>1, <2>1, <2>2, <2>3, <2>5 DEF AuditTrail
  <2>6. \A u \in Workers : worker'[u].at = "audit" => worker'[u] = worker[u]
    BY <2>2
  <2>7. QED
    BY <2>1, <2>4, <2>5, <2>6 DEF AuditTrail
<1>4. ASSUME NEW w \in Workers, RetryClaim(w) \/ FinishClaim(w) PROVE AuditTrail'
  <2>1. audit' = audit /\ worker[w].at # "idle" /\ worker[w].job \in Actions
    BY <1>4, TransitionEffect DEF RetryClaim, FinishClaim
  <2>2. CASE Rest(w) /\ UNCHANGED <<row, dlq, alerted>>
    <3>1. worker'[w].at = "idle" /\ \A v \in Workers : v # w => worker'[v] = worker[v]
      BY <2>2, TypedParts, Rested
    <3>2. QED
      BY <2>1, <2>2, <3>1 DEF AuditTrail
  <2>3. ASSUME HoldsClaim(w), NEW t \in Settlements(Job(w)),
               Transition(w, t), DeadLetterJob(w, t)
        PROVE  AuditTrail'
    <3> DEFINE a == worker[w].job
    <3>1. /\ row'[a] = t
          /\ \A b \in Actions : b # a => row'[b] = row[b]
          /\ worker'[w].at = "audit" => /\ worker'[w].job = a
                                        /\ worker'[w].outcome = t.status
          /\ \A v \in Workers : v # w => worker'[v] = worker[v]
      BY <2>1, <2>3, Transitioned
    <3>2. row[a].status \notin Final /\ row[a].reopens = t.reopens
      BY <2>3, TransitionEffect, <1>4, SettledRow DEF HoldsClaim, Job, Final
    <3>3. row[a].reopens = 0 =>
            /\ audit[a] = "none"
            /\ \A v \in Workers : ~(worker[v].at = "audit" /\ worker[v].job = a)
      BY <1>1, <2>1, <3>2 DEF AuditTrail
    <3>4. QED
      BY <1>1, <2>1, <3>1, <3>2, <3>3 DEF AuditTrail
  <2>4. QED
    BY <1>4, <2>2, <2>3, TransitionEffect
<1>5. QED
  BY <1>2, <1>3, <1>4

(* The audit trail holds at most one verdict of a row, the row's own.      *)
THEOREM AuditIsTheVerdict == Spec => []AuditAgrees
<1>1. Init => AuditTrail
  BY DEF Init, AuditTrail, Idle
<1>2. TypeOK /\ AuditTrail /\ [Next]_vars => AuditTrail'
  BY AuditStep
<1>3. AuditTrail => AuditAgrees
  BY DEF AuditTrail, AuditAgrees
<1>4. QED
  BY <1>1, <1>2, <1>3, TypeCorrect, PTL DEF Spec

=============================================================================
