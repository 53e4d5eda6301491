------------------------- MODULE ActionQueueProofs -------------------------
(***************************************************************************)
(* Proofs about ActionQueue, for every set of rows and invocations, every  *)
(* retry budget and any number of faults.                                  *)
(***************************************************************************)
EXTENDS ActionQueue, TLAPS

----------------------------------------------------------------------------
(* The ways a transition RPC settles a claimed row.                        *)

Settlements(r) == {AfterRetry(r), AfterRecovery(r), AfterFinish(r, TRUE), AfterFinish(r, FALSE)}

(* A settled row is completed, failed, or sent back to the queue.          *)
LEMMA SettlementCases ==
  ASSUME NEW r, NEW t \in Settlements(r)
  PROVE  \/ t = Leave(r, "completed")
         \/ t = Leave(r, "failed")
         \/ t = Leave(Observed(r), "failed")
         \/ \E b \in BOOLEAN : t = Requeued(r, b)
<1>1. t = AfterRetry(r) => t \in {Leave(r, "completed"), Held(r), Requeued(r, TRUE)}
  BY DEF AfterRetry
<1>2. t = AfterRecovery(r) => t \in {Leave(r, "completed"), Held(r), Requeued(r, FALSE)}
  BY DEF AfterRecovery
<1>3. ASSUME NEW s \in BOOLEAN, t = AfterFinish(r, s)
      PROVE  t \in {Leave(r, "completed"), Leave(r, "failed"), Held(r), Requeued(r, FALSE)}
  <2>1. Classify(r) \in {"delegate", "complete", "operator_held", "requeue"}
    BY DEF Classify
  <2>2. CASE s
    BY <1>3, <2>1, <2>2 DEF AfterFinish
  <2>3. CASE ~s
    BY <1>3, <2>1, <2>3 DEF AfterFinish
  <2>4. QED
    BY <2>2, <2>3
<1>4. QED
  BY <1>1, <1>2, <1>3 DEF Settlements, Held

(* What a row that leaves processing keeps and gives up.                   *)
LEMMA LeftRow ==
  ASSUME NEW r \in Row, NEW s \in Statuses
  PROVE  /\ Leave(r, s) \in Row
         /\ Leave(r, s).status = s
         /\ Leave(r, s).token = 0
         /\ Leave(r, s).claims = r.claims
         /\ Leave(r, s).retries = r.retries
         /\ Leave(r, s).defers = r.defers
         /\ Leave(r, s).reopens = r.reopens
         /\ Leave(r, s).bound = r.bound
         /\ Leave(r, s).intent = r.intent
  BY DEF Leave, Row

LEMMA RequeuedRow ==
  ASSUME NEW r \in Row, NEW b \in BOOLEAN
  PROVE  /\ Requeued(r, b) \in Row
         /\ Requeued(r, b).status = "pending"
         /\ Requeued(r, b).token = 0
         /\ Requeued(r, b).claims = r.claims
         /\ Requeued(r, b).retries = r.retries + 1
         /\ Requeued(r, b).defers = r.defers
         /\ Requeued(r, b).reopens = r.reopens
         /\ Requeued(r, b).bound = r.bound
         /\ Requeued(r, b).intent = r.intent
<1>1. "pending" \in Statuses
  BY DEF Statuses
<1> DEFINE p == Leave(r, "pending")
<1>2. p \in Row /\ p.status = "pending" /\ p.token = 0 /\ p.claims = r.claims
      /\ p.defers = r.defers /\ p.reopens = r.reopens
      /\ p.bound = r.bound /\ p.intent = r.intent
  BY <1>1, LeftRow
<1>3. r.retries + 1 \in Nat
  BY DEF Row
<1>4. Requeued(r, b) = [p EXCEPT !.retries = r.retries + 1, !.parked = b]
  BY DEF Requeued
<1> HIDE DEF p
<1>5. QED
  BY <1>2, <1>3, <1>4 DEF Row

LEMMA ObservedRow ==
  ASSUME NEW r \in Row
  PROVE  /\ Observed(r) \in Row
         /\ Observed(r).status = r.status
         /\ Observed(r).token = r.token
         /\ Observed(r).claims = r.claims
         /\ Observed(r).retries = r.retries
         /\ Observed(r).defers = r.defers
         /\ Observed(r).reopens = r.reopens
         /\ Observed(r).bound = r.bound
         /\ Observed(r).intent =
              IF r.bound /\ r.intent = "sending" THEN "uncertain" ELSE r.intent
  BY DEF Observed, Row, Intents

(* A settled row stays a row, keeps its claims and its generation, and     *)
(* gives up its token.                                                     *)
LEMMA SettledRow ==
  ASSUME NEW r \in Row, NEW t \in Settlements(r)
  PROVE  /\ t \in Row
         /\ t.status \in {"pending", "completed", "failed"}
         /\ t.token = 0
         /\ t.claims = r.claims
         /\ t.defers = r.defers
         /\ t.reopens = r.reopens
         /\ t.bound = r.bound
         /\ t.retries = IF t.status = "pending" THEN r.retries + 1 ELSE r.retries
<1>1. "completed" \in Statuses /\ "failed" \in Statuses
  BY DEF Statuses
<1>2. CASE t = Leave(r, "completed")
  BY <1>1, <1>2, LeftRow
<1>3. CASE t = Leave(r, "failed")
  BY <1>1, <1>3, LeftRow
<1>4. CASE t = Leave(Observed(r), "failed")
  BY <1>1, <1>4, LeftRow, ObservedRow
<1>5. CASE \E b \in BOOLEAN : t = Requeued(r, b)
  BY <1>5, RequeuedRow
<1>6. QED
  BY <1>2, <1>3, <1>4, <1>5, SettlementCases

----------------------------------------------------------------------------
(* How a step changes one row and one invocation.                          *)

LEMMA RowSet ==
  ASSUME row \in [Actions -> Row], NEW a \in Actions, NEW r \in Row,
         row' = [row EXCEPT ![a] = r]
  PROVE  /\ row' \in [Actions -> Row]
         /\ row'[a] = r
         /\ \A b \in Actions : b # a => row'[b] = row[b]
  OBVIOUS

(* The part of TypeOK about the invocations.                               *)
WorkerOK ==
  /\ worker \in [Workers -> Invocation]
  /\ \A w \in Workers :
       /\ worker[w].at # "idle" => worker[w].job \in Actions
       /\ worker[w].at \in {"bound", "send", "report"} => worker[w].job \in Receipts
       /\ worker[w].at = "audit" => worker[w].outcome \in Final

LEMMA Moved ==
  ASSUME WorkerOK, NEW w \in Workers, worker[w].at # "idle",
         NEW p \in Steps \ {"idle"}, NEW o \in Outcomes, Become(w, p, o),
         p \in {"bound", "send", "report"} => worker[w].job \in Receipts,
         p = "audit" => o \in Final
  PROVE  /\ WorkerOK'
         /\ worker'[w].at = p
         /\ worker'[w].outcome = o
         /\ worker'[w].job = worker[w].job
         /\ worker'[w].token = worker[w].token
         /\ worker'[w].retries = worker[w].retries
         /\ \A v \in Workers : v # w => worker'[v] = worker[v]
<1> DEFINE i == [worker[w] EXCEPT !.at = p, !.outcome = o]
<1>1. worker' = [worker EXCEPT ![w] = i]
  BY DEF Become, WorkerOK, Invocation
<1>2. /\ i \in Invocation
      /\ i.at = p /\ i.outcome = o /\ i.job = worker[w].job
      /\ i.token = worker[w].token /\ i.retries = worker[w].retries
  BY DEF WorkerOK, Invocation
<1> HIDE DEF i
<1>3. worker' \in [Workers -> Invocation]
  BY <1>1, <1>2 DEF WorkerOK
<1>4. worker'[w] = i /\ \A v \in Workers : v # w => worker'[v] = worker[v]
  BY <1>1 DEF WorkerOK
<1>5. QED
  BY <1>2, <1>3, <1>4 DEF WorkerOK

LEMMA Rested ==
  ASSUME WorkerOK, NEW w \in Workers, Rest(w)
  PROVE  /\ WorkerOK'
         /\ worker'[w].at = "idle"
         /\ \A v \in Workers : v # w => worker'[v] = worker[v]
  BY DEF Rest, WorkerOK, Idle, Invocation, Steps, Outcomes

(* A handler's result sends its invocation to a transition RPC.            *)
LEMMA Resulted ==
  ASSUME WorkerOK, NEW w \in Workers, worker[w].at # "idle",
         NEW o \in Outcomes, HandlerResult(w, o)
  PROVE  /\ WorkerOK'
         /\ worker'[w].at \in {"retry", "finish"}
         /\ worker'[w].at = "retry" =>
              o = "transient" /\ worker[w].retries + 1 <= HandlerMaxRetries
         /\ worker'[w].outcome = o
         /\ worker'[w].job = worker[w].job
         /\ worker'[w].token = worker[w].token
         /\ worker'[w].retries = worker[w].retries
         /\ \A v \in Workers : v # w => worker'[v] = worker[v]
<1>1. PICK p \in {"retry", "finish"} :
        /\ Become(w, p, o)
        /\ p = "retry" => o = "transient" /\ worker[w].retries + 1 <= HandlerMaxRetries
  BY DEF HandlerResult
<1>2. p \in Steps \ {"idle"} /\ p \notin {"bound", "send", "report", "audit"}
  BY DEF Steps
<1>3. QED
  BY <1>1, <1>2, Moved

(* The edits of a row that handlers, claims and outward RPCs make.         *)
LEMMA BoundEdit ==
  ASSUME NEW r \in Row
  PROVE  [r EXCEPT !.bound = TRUE] \in Row
  BY DEF Row

LEMMA ParkedEdit ==
  ASSUME NEW r \in Row, NEW n \in Nat
  PROVE  [r EXCEPT !.parked = TRUE, !.defers = n] \in Row
  BY DEF Row

LEMMA ReopenedEdit ==
  ASSUME NEW r \in Row, NEW n \in Nat
  PROVE  [r EXCEPT !.reopens = n] \in Row
  BY DEF Row

LEMMA IntentEdit ==
  ASSUME NEW r \in Row, NEW i \in Intents, NEW n \in Nat
  PROVE  [r EXCEPT !.intent = i, !.attempt = n] \in Row
  BY DEF Row

LEMMA ClaimedRow ==
  ASSUME NEW r \in Row, NEW n \in Nat
  PROVE  [r EXCEPT !.status = "processing", !.stale = FALSE,
                   !.token = n, !.claims = n] \in Row
  BY DEF Row, Statuses

LEMMA BegunRow ==
  ASSUME row \in [Actions -> Row], WorkerOK, NEW w \in Workers, worker[w].at # "idle"
  PROVE  /\ worker[w].job \in Actions
         /\ worker[w].token \in Nat
         /\ Job(w) \in Row
         /\ Begun(w) \in Row
         /\ Reported(w) \in Row
<1>1. worker[w].job \in Actions /\ worker[w].token \in Nat /\ Job(w) \in Row
  BY DEF WorkerOK, Invocation, Job
<1>2. "sending" \in Intents /\ "sent" \in Intents /\ "uncertain" \in Intents /\ 0 \in Nat
  BY DEF Intents
<1>3. [Job(w) EXCEPT !.intent = "sending", !.attempt = worker[w].token] \in Row
  BY <1>1, <1>2, IntentEdit
<1>4. Observed(Job(w)) \in Row
  BY <1>1, ObservedRow
<1>5. Begun(w) \in Row
  BY <1>1, <1>3, <1>4 DEF Begun
<1>6. [Job(w) EXCEPT !.intent = "sent", !.attempt = 0] \in Row
      /\ [Job(w) EXCEPT !.intent = "uncertain", !.attempt = 0] \in Row
  BY <1>1, <1>2, IntentEdit
<1>7. Reported(w) \in Row
  BY <1>1, <1>6 DEF Reported
<1>8. QED
  BY <1>1, <1>5, <1>7

(* Dead letters and alerts of a set of failing rows.                       *)
LEMMA DeadLettered ==
  ASSUME TypeOK, NEW F \in SUBSET Actions, DeadLetter(F)
  PROVE  /\ dlq' \in [Actions -> {"none", "open", "retried"}]
         /\ alerted' \subseteq Receipts
  BY DEF TypeOK, DeadLetter

(* A transition RPC settles the row and audits or ends the invocation.     *)
LEMMA Transitioned ==
  ASSUME TypeOK, NEW w \in Workers, worker[w].at # "idle",
         NEW t \in Settlements(Job(w)), Transition(w, t), DeadLetterJob(w, t)
  PROVE  /\ row' \in [Actions -> Row]
         /\ row'[worker[w].job] = t
         /\ \A b \in Actions : b # worker[w].job => row'[b] = row[b]
         /\ WorkerOK'
         /\ worker'[w].at \in {"audit", "idle"}
         /\ worker'[w].at = "audit" => /\ worker'[w].job = worker[w].job
                                       /\ worker'[w].token = worker[w].token
                                       /\ worker'[w].retries = worker[w].retries
                                       /\ worker'[w].outcome = t.status
                                       /\ t.status \in Final
         /\ \A v \in Workers : v # w => worker'[v] = worker[v]
         /\ dlq' \in [Actions -> {"none", "open", "retried"}]
         /\ alerted' \subseteq Receipts
<1>1. WorkerOK /\ row \in [Actions -> Row]
  BY DEF TypeOK, WorkerOK
<1>2. worker[w].job \in Actions /\ Job(w) \in Row
  BY <1>1, BegunRow
<1>3. t \in Row /\ t.status \in {"pending", "completed", "failed"}
  BY <1>2, SettledRow
<1>4. row' = [row EXCEPT ![worker[w].job] = t]
  BY DEF Transition
<1>5. /\ row' \in [Actions -> Row]
      /\ row'[worker[w].job] = t
      /\ \A b \in Actions : b # worker[w].job => row'[b] = row[b]
  BY <1>1, <1>2, <1>3, <1>4, RowSet
<1>6. (IF t.status = "failed" THEN {worker[w].job} ELSE {}) \in SUBSET Actions
  BY <1>2
<1>7. /\ dlq' \in [Actions -> {"none", "open", "retried"}]
      /\ alerted' \subseteq Receipts
  BY <1>6, DeadLettered DEF DeadLetterJob
<1>8. CASE t.status \in Final
  <2>1. Become(w, "audit", t.status)
    BY <1>8 DEF Transition
  <2>2. "audit" \in Steps \ {"idle"} /\ t.status \in Outcomes
    BY <1>3, <1>8 DEF Steps, Outcomes, Final
  <2>3. QED
    BY <1>1, <1>5, <1>8, <2>1, <2>2, <1>7, Moved
<1>9. CASE t.status \notin Final
  <2>1. Rest(w)
    BY <1>9 DEF Transition
  <2>2. QED
    BY <1>1, <1>5, <2>1, <1>7, Rested
<1>10. QED
  BY <1>8, <1>9

----------------------------------------------------------------------------
(* What each step does to the rows and the invocations.                    *)

LEMMA TypedParts ==
  ASSUME TypeOK
  PROVE  row \in [Actions -> Row] /\ WorkerOK /\ (\A a \in Actions : row[a] \in Row)
  BY DEF TypeOK, WorkerOK

LEMMA ClaimEffect ==
  ASSUME TypeOK, NEW w \in Workers, NEW a \in Actions, Claim(w, a)
  PROVE  /\ row' \in [Actions -> Row]
         /\ row[a].status = "pending"
         /\ row'[a].status = "processing"
         /\ row'[a].token = row[a].claims + 1
         /\ row'[a].claims = row[a].claims + 1
         /\ row'[a].retries = row[a].retries
         /\ row'[a].defers = row[a].defers
         /\ row'[a].reopens = row[a].reopens
         /\ row'[a].bound = row[a].bound
         /\ row'[a].intent = row[a].intent
         /\ \A b \in Actions : b # a => row'[b] = row[b]
         /\ WorkerOK'
         /\ worker[w].at = "idle"
         /\ worker'[w].at = "run"
         /\ worker'[w].job = a
         /\ worker'[w].token = row[a].claims + 1
         /\ worker'[w].retries = row[a].retries
         /\ \A v \in Workers : v # w => worker'[v] = worker[v]
<1>1. row[a] \in Row /\ row[a].claims + 1 \in Nat /\ row[a].retries \in Nat
  BY TypedParts DEF Row
<1> DEFINE n == row[a].claims + 1
           r == [row[a] EXCEPT !.status = "processing", !.stale = FALSE,
                               !.token = n, !.claims = n]
           i == [at |-> "run", job |-> a, token |-> n,
                 retries |-> row[a].retries, outcome |-> "none"]
<1>2. r \in Row
  BY <1>1, ClaimedRow
<1>3. /\ r.status = "processing" /\ r.token = n /\ r.claims = n
      /\ r.retries = row[a].retries /\ r.defers = row[a].defers
      /\ r.reopens = row[a].reopens
      /\ r.bound = row[a].bound /\ r.intent = row[a].intent
  BY <1>1 DEF Row
<1>4. row' = [row EXCEPT ![a] = r]
  BY DEF Claim, TypeOK
<1>5. worker' = [worker EXCEPT ![w] = i]
  BY DEF Claim
<1>6. i \in Invocation /\ i.at = "run" /\ i.job = a /\ i.token = n /\ i.retries = row[a].retries
  BY <1>1 DEF Invocation, Steps, Outcomes
<1> HIDE DEF r, i, n
<1>7. /\ row' \in [Actions -> Row]
      /\ row'[a] = r
      /\ \A b \in Actions : b # a => row'[b] = row[b]
  BY <1>2, <1>4, TypedParts, RowSet
<1>8. /\ worker' \in [Workers -> Invocation]
      /\ worker'[w] = i
      /\ \A v \in Workers : v # w => worker'[v] = worker[v]
  BY <1>5, <1>6, TypedParts DEF WorkerOK
<1>9. WorkerOK'
  BY <1>6, <1>8, TypedParts DEF WorkerOK
<1>10. QED
  BY <1>3, <1>6, <1>7, <1>8, <1>9 DEF Claim, n

(* A reopened carrier waits again, one retry and one reopening later.      *)
LEMMA ReopenEffect ==
  ASSUME TypeOK, NEW a \in Actions, ReopenDeadLetter(a)
  PROVE  /\ a \in Relinks
         /\ row' \in [Actions -> Row]
         /\ row[a].status = "failed"
         /\ row'[a].status = "pending"
         /\ row'[a].claims = row[a].claims
         /\ row'[a].retries = row[a].retries + 1
         /\ row'[a].defers = row[a].defers
         /\ row'[a].reopens = row[a].reopens + 1
         /\ row'[a].bound = row[a].bound
         /\ row'[a].intent = row[a].intent
         /\ \A b \in Actions : b # a => row'[b] = row[b]
         /\ worker' = worker
<1> DEFINE q == Requeued(row[a], FALSE)
           n == row[a].reopens + 1
           r == [q EXCEPT !.reopens = n]
<1>1. /\ q \in Row /\ q.status = "pending" /\ q.claims = row[a].claims
      /\ q.retries = row[a].retries + 1 /\ q.defers = row[a].defers
      /\ q.bound = row[a].bound /\ q.intent = row[a].intent
  BY TypedParts, RequeuedRow
<1>2. n \in Nat
  BY TypedParts DEF Row
<1>3. row' = [row EXCEPT ![a] = r]
  BY DEF ReopenDeadLetter
<1> HIDE DEF q, n
<1>4. r \in Row
  BY <1>1, <1>2, ReopenedEdit
<1>5. /\ r.status = "pending" /\ r.claims = row[a].claims
      /\ r.retries = row[a].retries + 1 /\ r.defers = row[a].defers /\ r.reopens = n
      /\ r.bound = row[a].bound /\ r.intent = row[a].intent
  BY <1>1, <1>2 DEF Row
<1> HIDE DEF r
<1>6. /\ row' \in [Actions -> Row]
      /\ row'[a] = r
      /\ \A b \in Actions : b # a => row'[b] = row[b]
  BY <1>3, <1>4, TypedParts, RowSet
<1>7. QED
  BY <1>5, <1>6 DEF ReopenDeadLetter, n

(* A handler that settles, or fails before it sends, only moves on.        *)
LEMMA SettlesEffect ==
  ASSUME TypeOK, NEW w \in Workers, HandlerReturns(w) \/ PrepareFails(w)
  PROVE  /\ row' = row
         /\ worker[w].at = "run"
         /\ \E o \in Outcomes :
              /\ HandlerResult(w, o)
              /\ HandlerReturns(w) => worker[w].job \notin Receipts
              /\ PrepareFails(w) => o # "success"
  BY DEF HandlerReturns, PrepareFails, Outcomes

LEMMA DeferEffect ==
  ASSUME TypeOK, NEW w \in Workers, HandlerDefers(w)
  PROVE  /\ worker[w].at = "run"
         /\ worker[w].job \in Actions \ Receipts
         /\ Rest(w)
         /\ row' \in [Actions -> Row]
         /\ \/ row' = row
            \/ /\ HoldsClaim(w)
               /\ row'[worker[w].job].status = "pending"
               /\ row'[worker[w].job].token = 0
               /\ row'[worker[w].job].claims = Job(w).claims
               /\ row'[worker[w].job].retries = Job(w).retries
               /\ row'[worker[w].job].defers = Job(w).defers + 1
               /\ row'[worker[w].job].reopens = Job(w).reopens
               /\ row'[worker[w].job].bound = Job(w).bound
               /\ row'[worker[w].job].intent = Job(w).intent
               /\ \A b \in Actions : b # worker[w].job => row'[b] = row[b]
<1>1. worker[w].job \in Actions /\ Job(w) \in Row
  BY TypedParts, BegunRow DEF HandlerDefers
<1>2. worker[w].job \in Actions \ Receipts /\ worker[w].at = "run" /\ Rest(w)
  BY QueueAssumption DEF HandlerDefers
<1>3. CASE ~HoldsClaim(w)
  BY <1>2, <1>3, TypedParts DEF HandlerDefers
<1>4. CASE HoldsClaim(w)
  <2> DEFINE l == Leave(Job(w), "pending")
             n == Job(w).defers + 1
             r == [l EXCEPT !.parked = TRUE, !.defers = n]
  <2>1. /\ l \in Row /\ l.status = "pending" /\ l.token = 0 /\ l.claims = Job(w).claims
        /\ l.retries = Job(w).retries /\ l.reopens = Job(w).reopens
        /\ l.bound = Job(w).bound /\ l.intent = Job(w).intent
    BY <1>1, LeftRow DEF Statuses
  <2>2. n \in Nat
    BY <1>1 DEF Row
  <2>3. row' = [row EXCEPT ![worker[w].job] = r]
    BY <1>4 DEF HandlerDefers
  <2> HIDE DEF l, n
  <2>4. r \in Row
    BY <2>1, <2>2, ParkedEdit
  <2>5. /\ r.status = "pending" /\ r.token = 0 /\ r.claims = Job(w).claims
        /\ r.retries = Job(w).retries /\ r.defers = n /\ r.reopens = Job(w).reopens
        /\ r.bound = Job(w).bound /\ r.intent = Job(w).intent
    BY <2>1, <2>2 DEF Row
  <2> HIDE DEF r
  <2>6. /\ row' \in [Actions -> Row]
        /\ row'[worker[w].job] = r
        /\ \A b \in Actions : b # worker[w].job => row'[b] = row[b]
    BY <1>1, <2>3, <2>4, TypedParts, RowSet
  <2>7. QED
    BY <1>2, <1>4, <2>5, <2>6 DEF n
<1>5. QED
  BY <1>3, <1>4

LEMMA BindEffect ==
  ASSUME TypeOK, NEW w \in Workers, BindGeneration(w)
  PROVE  /\ worker[w].at = "run"
         /\ worker[w].job \in Actions
         /\ worker[w].job \in Receipts
         /\ HoldsClaim(w)
         /\ \/ Become(w, "bound", "none")
            \/ HandlerResult(w, "transient")
            \/ HandlerResult(w, "permanent")
         /\ row' \in [Actions -> Row]
         /\ row'[worker[w].job] = [Job(w) EXCEPT !.bound = TRUE]
         /\ \A b \in Actions : b # worker[w].job => row'[b] = row[b]
<1>1. worker[w].at = "run" /\ worker[w].job \in Actions /\ Job(w) \in Row
  BY TypedParts, BegunRow DEF BindGeneration
<1>2. row' = [row EXCEPT ![worker[w].job] = [Job(w) EXCEPT !.bound = TRUE]]
  BY <1>1 DEF TypeOK, BindGeneration, Job
<1>3. [Job(w) EXCEPT !.bound = TRUE] \in Row
  BY <1>1, BoundEdit
<1>4. /\ row' \in [Actions -> Row]
      /\ row'[worker[w].job] = [Job(w) EXCEPT !.bound = TRUE]
      /\ \A b \in Actions : b # worker[w].job => row'[b] = row[b]
  BY <1>1, <1>2, <1>3, RowSet, TypedParts
<1>5. QED
  BY <1>1, <1>4 DEF BindGeneration

LEMMA BeginEffect ==
  ASSUME TypeOK, NEW w \in Workers, BeginOutward(w)
  PROVE  /\ worker[w].at = "bound"
         /\ worker[w].job \in Actions
         /\ worker[w].job \in Receipts
         /\ row' \in [Actions -> Row]
         /\ \/ row' = row
            \/ /\ row'[worker[w].job] = Begun(w)
               /\ \A b \in Actions : b # worker[w].job => row'[b] = row[b]
         /\ alerted' \subseteq Receipts
         /\ \/ HandlerResult(w, "transient")
            \/ HandlerResult(w, "permanent")
            \/ /\ HandlerResult(w, "success")
               /\ row'[worker[w].job] = Begun(w)
               /\ HoldsClaim(w)
               /\ Begun(w).intent = "sent"
            \/ /\ Become(w, "send", "none")
               /\ row'[worker[w].job] = Begun(w)
               /\ HoldsClaim(w)
               /\ Begun(w).intent = "sending"
<1>1. worker[w].at = "bound"
  BY DEF BeginOutward
<1>2. worker[w].job \in Actions /\ Begun(w) \in Row /\ worker[w].job \in Receipts
  BY <1>1, TypedParts, BegunRow DEF WorkerOK
<1>3. CASE HandlerResult(w, "transient") /\ UNCHANGED <<row, alerted>>
  BY <1>1, <1>2, <1>3, TypedParts DEF TypeOK
<1>4. CASE /\ row' = [row EXCEPT ![worker[w].job] = Begun(w)]
           /\ alerted' = IF HoldsClaim(w) /\ Begun(w).intent = "uncertain"
                         THEN alerted \cup {worker[w].job} ELSE alerted
           /\ \/ /\ HoldsClaim(w)
                 /\ CASE Begun(w).intent = "sending" -> Become(w, "send", "none")
                      [] Begun(w).intent = "sent"    -> HandlerResult(w, "success")
                      [] OTHER                       -> HandlerResult(w, "permanent")
              \/ HandlerResult(w, "transient")
  <2>1. /\ row' \in [Actions -> Row]
        /\ row'[worker[w].job] = Begun(w)
        /\ \A b \in Actions : b # worker[w].job => row'[b] = row[b]
    BY <1>2, <1>4, RowSet, TypedParts
  <2>2. alerted' \subseteq Receipts
    BY <1>2, <1>4 DEF TypeOK
  <2>3. \/ HandlerResult(w, "transient")
        \/ HandlerResult(w, "permanent")
        \/ HoldsClaim(w) /\ Begun(w).intent = "sent" /\ HandlerResult(w, "success")
        \/ HoldsClaim(w) /\ Begun(w).intent = "sending" /\ Become(w, "send", "none")
    BY <1>4
  <2>4. QED
    BY <1>1, <1>2, <2>1, <2>2, <2>3
<1>5. QED
  BY <1>3, <1>4 DEF BeginOutward

LEMMA DispatchEffect ==
  ASSUME TypeOK, NEW w \in Workers, Dispatch(w)
  PROVE  /\ worker[w].at = "send"
         /\ worker[w].job \in Actions
         /\ worker[w].job \in Receipts
         /\ row' = row
         /\ \E accepted \in BOOLEAN, n \in {0, 1} :
              /\ accepted => n = 1
              /\ delivered' = [delivered EXCEPT ![worker[w].job] = @ + n]
              /\ Become(w, "report", IF accepted THEN "accepted" ELSE "unsure")
<1>1. worker[w].at = "send" /\ worker[w].job \in Actions /\ worker[w].job \in Receipts /\ row' = row
  BY TypedParts DEF Dispatch, WorkerOK
<1>2. PICK accepted, arrived \in BOOLEAN :
        /\ accepted => arrived
        /\ delivered' = [delivered EXCEPT ![worker[w].job] = @ + (IF arrived THEN 1 ELSE 0)]
        /\ Become(w, "report", IF accepted THEN "accepted" ELSE "unsure")
  BY DEF Dispatch
<1>3. CASE arrived
  BY <1>1, <1>2, <1>3
<1>4. CASE ~arrived
  BY <1>1, <1>2, <1>4
<1>5. QED
  BY <1>3, <1>4

LEMMA ReportEffect ==
  ASSUME TypeOK, NEW w \in Workers, FinishOutward(w)
  PROVE  /\ worker[w].at = "report"
         /\ worker[w].job \in Actions
         /\ worker[w].job \in Receipts
         /\ row' \in [Actions -> Row]
         /\ \/ row' = row
            \/ /\ row'[worker[w].job] = Reported(w)
               /\ \A b \in Actions : b # worker[w].job => row'[b] = row[b]
         /\ alerted' \subseteq Receipts
         /\ \/ HandlerResult(w, "transient")
            \/ HandlerResult(w, "permanent")
            \/ /\ HandlerResult(w, "success")
               /\ row'[worker[w].job].intent = "sent"
<1>1. worker[w].at = "report"
  BY DEF FinishOutward
<1>2. worker[w].job \in Actions /\ Reported(w) \in Row /\ worker[w].job \in Receipts
  BY <1>1, TypedParts, BegunRow DEF WorkerOK
<1>3. CASE HandlerResult(w, "transient") /\ UNCHANGED <<row, alerted>>
  BY <1>1, <1>2, <1>3, TypedParts DEF TypeOK
<1>4. CASE /\ row' = [row EXCEPT ![worker[w].job] = Reported(w)]
           /\ alerted' = IF Reported(w).intent = "uncertain"
                         THEN alerted \cup {worker[w].job} ELSE alerted
           /\ \/ HandlerResult(w, CASE worker[w].outcome = "accepted"
                                      /\ Reported(w).intent = "sent" -> "success"
                                 [] worker[w].outcome = "unsure"
                                      /\ Reported(w).intent = "uncertain" -> "permanent"
                                 [] OTHER -> "transient")
              \/ HandlerResult(w, "transient")
  <2>1. /\ row' \in [Actions -> Row]
        /\ row'[worker[w].job] = Reported(w)
        /\ \A b \in Actions : b # worker[w].job => row'[b] = row[b]
    BY <1>2, <1>4, RowSet, TypedParts
  <2>2. alerted' \subseteq Receipts
    BY <1>2, <1>4 DEF TypeOK
  <2>3. \/ HandlerResult(w, "transient")
        \/ HandlerResult(w, "permanent")
        \/ HandlerResult(w, "success") /\ Reported(w).intent = "sent"
    BY <1>4
  <2>4. QED
    BY <1>1, <1>2, <2>1, <2>2, <2>3
<1>5. QED
  BY <1>3, <1>4 DEF FinishOutward

(* The transition RPCs settle a claimed row, or touch nothing.             *)
LEMMA TransitionEffect ==
  ASSUME TypeOK, NEW w \in Workers, RetryClaim(w) \/ FinishClaim(w)
  PROVE  /\ worker[w].at \in {"retry", "finish"}
         /\ worker[w].job \in Actions
         /\ Job(w) \in Row
         /\ \/ Rest(w) /\ UNCHANGED <<row, dlq, alerted>>
            \/ /\ HoldsClaim(w)
               /\ \E t \in Settlements(Job(w)) :
                    /\ RetryClaim(w) => t = AfterRetry(Job(w))
                    /\ FinishClaim(w) =>
                         t = AfterFinish(Job(w), worker[w].outcome = "success")
                    /\ Transition(w, t)
                    /\ DeadLetterJob(w, t)
<1>1. worker[w].at \in {"retry", "finish"}
  BY DEF RetryClaim, FinishClaim
<1>2. worker[w].job \in Actions /\ Job(w) \in Row
  BY <1>1, TypedParts, BegunRow
<1>3. ASSUME RetryClaim(w)
      PROVE  \/ Rest(w) /\ UNCHANGED <<row, dlq, alerted>>
             \/ /\ HoldsClaim(w)
                /\ Transition(w, AfterRetry(Job(w)))
                /\ DeadLetterJob(w, AfterRetry(Job(w)))
  BY <1>3 DEF RetryClaim
<1>4. ASSUME FinishClaim(w)
      PROVE  \/ Rest(w) /\ UNCHANGED <<row, dlq, alerted>>
             \/ /\ HoldsClaim(w)
                /\ Transition(w, AfterFinish(Job(w), worker[w].outcome = "success"))
                /\ DeadLetterJob(w, AfterFinish(Job(w), worker[w].outcome = "success"))
  BY <1>4 DEF FinishClaim
<1>5. RetryClaim(w) => ~FinishClaim(w)
  BY DEF RetryClaim, FinishClaim
<1>6. AfterRetry(Job(w)) \in Settlements(Job(w))
      /\ AfterFinish(Job(w), worker[w].outcome = "success") \in Settlements(Job(w))
  BY DEF Settlements
<1>7. QED
  BY <1>1, <1>2, <1>3, <1>4, <1>5, <1>6

(* Recovery settles the stale rows and no other.                           *)
LEMMA RecoveryEffect ==
  ASSUME TypeOK, RecoverStale
  PROVE  /\ row' \in [Actions -> Row]
         /\ \A a \in Actions :
              \/ row'[a] = row[a]
              \/ /\ row[a].status = "processing"
                 /\ row'[a] = AfterRecovery(row[a])
                 /\ row'[a] \in Settlements(row[a])
         /\ dlq' \in [Actions -> {"none", "open", "retried"}]
         /\ alerted' \subseteq Receipts
         /\ worker' = worker
<1>1. \A a \in Actions : AfterRecovery(row[a]) \in Settlements(row[a])
  BY DEF Settlements
<1>2. \A a \in Actions : AfterRecovery(row[a]) \in Row
  BY <1>1, SettledRow, TypedParts
<1>3. row' = [a \in Actions |-> IF a \in StaleRows THEN AfterRecovery(row[a]) ELSE row[a]]
      /\ worker' = worker
      /\ DeadLetter({a \in StaleRows : AfterRecovery(row[a]).status = "failed"})
  BY DEF RecoverStale
<1>4. row' \in [Actions -> Row]
  BY <1>2, <1>3, TypedParts
<1>5. \A a \in StaleRows : a \in Actions /\ row[a].status = "processing"
  BY DEF StaleRows
<1>6. {a \in StaleRows : AfterRecovery(row[a]).status = "failed"} \in SUBSET Actions
  BY <1>5
<1>7. /\ dlq' \in [Actions -> {"none", "open", "retried"}]
      /\ alerted' \subseteq Receipts
  BY <1>3, <1>6, DeadLettered
<1>8. \A a \in Actions :
        row'[a] = row[a] \/ (a \in StaleRows /\ row'[a] = AfterRecovery(row[a]))
  BY <1>3
<1>9. QED
  BY <1>1, <1>3, <1>4, <1>5, <1>7, <1>8

----------------------------------------------------------------------------
(* Type correctness.                                                       *)

(* TypeOK is put together from the rows, the invocations and the rest.     *)
LEMMA TypedNext ==
  ASSUME TypeOK,
         row' \in [Actions -> Row], WorkerOK',
         dlq' \in [Actions -> {"none", "open", "retried"}], alerted' \subseteq Receipts,
         delivered' \in [Actions -> Nat],
         audit' \in [Actions -> {"none", "completed", "failed", "twice"}],
         faults' \in 0..MaxFaults
  PROVE  TypeOK'
  BY DEF TypeOK, WorkerOK

(* Every step keeps the queue's state well typed.                          *)
LEMMA TypeStep ==
  ASSUME TypeOK, [Next]_vars
  PROVE  TypeOK'
<1>1. ASSUME NEW a \in Actions, Insert(a) PROVE TypeOK'
  BY <1>1 DEF TypeOK, Insert, Row, Statuses
<1>2. ASSUME NEW a \in Actions, ReleaseStaged(a) PROVE TypeOK'
  BY <1>2 DEF TypeOK, ReleaseStaged, Row, Statuses
<1>3. ASSUME NEW a \in Actions, BecomeStale(a) PROVE TypeOK'
  BY <1>3 DEF TypeOK, BecomeStale, Row
<1>4. ASSUME NEW a \in Actions, BackoffElapses(a) PROVE TypeOK'
  <2>1. row[a] \in Row /\ row' = [row EXCEPT ![a] = [row[a] EXCEPT !.parked = FALSE]]
    BY <1>4, TypedParts DEF TypeOK, BackoffElapses
  <2>2. [row[a] EXCEPT !.parked = FALSE] \in Row
    BY <2>1 DEF Row
  <2>3. row' \in [Actions -> Row]
    BY <2>1, <2>2, TypedParts
  <2>4. QED
    BY <1>4, <2>3, TypedParts, TypedNext DEF TypeOK, BackoffElapses, WorkerOK
<1>5. ASSUME NEW a \in Actions, NEW b \in Actions, RetryDeadLetter(a, b) PROVE TypeOK'
  BY <1>5 DEF TypeOK, RetryDeadLetter, Row, Statuses
<1>6. ASSUME NEW w \in Workers, NEW a \in Actions, Claim(w, a) PROVE TypeOK'
  <2>1. row' \in [Actions -> Row] /\ WorkerOK'
    BY <1>6, ClaimEffect
  <2>2. QED
    BY <1>6, <2>1, TypedNext DEF TypeOK, Claim
<1>7. ASSUME NEW w \in Workers, HandlerReturns(w) \/ PrepareFails(w) PROVE TypeOK'
  <2>1. row' = row /\ worker[w].at = "run"
    BY <1>7, SettlesEffect
  <2>2. PICK o \in Outcomes : HandlerResult(w, o)
    BY <1>7, SettlesEffect
  <2>3. WorkerOK'
    BY <2>1, <2>2, TypedParts, Resulted
  <2>4. QED
    BY <1>7, <2>1, <2>3, TypedNext DEF TypeOK, HandlerReturns, PrepareFails
<1>8. ASSUME NEW w \in Workers, HandlerDefers(w) PROVE TypeOK'
  <2>1. row' \in [Actions -> Row] /\ Rest(w)
    BY <1>8, DeferEffect
  <2>2. WorkerOK'
    BY <2>1, TypedParts, Rested
  <2>3. QED
    BY <1>8, <2>1, <2>2, TypedNext DEF TypeOK, HandlerDefers
<1>9. ASSUME NEW w \in Workers, BindGeneration(w) PROVE TypeOK'
  <2>1. /\ worker[w].at # "idle" /\ worker[w].job \in Receipts /\ row' \in [Actions -> Row]
        /\ \/ Become(w, "bound", "none")
           \/ HandlerResult(w, "transient")
           \/ HandlerResult(w, "permanent")
    BY <1>9, BindEffect
  <2>2. WorkerOK'
    BY <2>1, TypedParts, Moved, Resulted DEF Steps, Outcomes
  <2>3. QED
    BY <1>9, <2>1, <2>2, TypedNext DEF TypeOK, BindGeneration
<1>10. ASSUME NEW w \in Workers, BeginOutward(w) PROVE TypeOK'
  <2>1. /\ worker[w].at # "idle" /\ worker[w].job \in Receipts
        /\ row' \in [Actions -> Row] /\ alerted' \subseteq Receipts
        /\ \/ \E o \in Outcomes : HandlerResult(w, o)
           \/ Become(w, "send", "none")
    BY <1>10, BeginEffect DEF Outcomes
  <2>2. WorkerOK'
    BY <2>1, TypedParts, Moved, Resulted DEF Steps, Outcomes
  <2>3. QED
    BY <1>10, <2>1, <2>2, TypedNext DEF TypeOK, BeginOutward
<1>11. ASSUME NEW w \in Workers, Dispatch(w) PROVE TypeOK'
  <2>1. worker[w].at # "idle" /\ worker[w].job \in Receipts /\ row' = row
    BY <1>11, DispatchEffect
  <2>2. PICK accepted \in BOOLEAN, n \in {0, 1} :
          /\ delivered' = [delivered EXCEPT ![worker[w].job] = @ + n]
          /\ Become(w, "report", IF accepted THEN "accepted" ELSE "unsure")
    BY <1>11, DispatchEffect
  <2>3. "report" \in Steps \ {"idle"} /\ (IF accepted THEN "accepted" ELSE "unsure") \in Outcomes
    BY DEF Steps, Outcomes
  <2>4. WorkerOK'
    BY <2>1, <2>2, <2>3, TypedParts, Moved
  <2>5. delivered' \in [Actions -> Nat]
    <3>1. \A m \in Nat : m + n \in Nat
      OBVIOUS
    <3>2. QED
      BY <2>1, <2>2, <3>1 DEF TypeOK
  <2>6. QED
    BY <1>11, <2>1, <2>4, <2>5, TypedNext DEF TypeOK, Dispatch
<1>12. ASSUME NEW w \in Workers, FinishOutward(w) PROVE TypeOK'
  <2>1. /\ worker[w].at # "idle"
        /\ row' \in [Actions -> Row] /\ alerted' \subseteq Receipts
        /\ \E o \in Outcomes : HandlerResult(w, o)
    BY <1>12, ReportEffect DEF Outcomes
  <2>2. WorkerOK'
    BY <2>1, TypedParts, Resulted
  <2>3. QED
    BY <1>12, <2>1, <2>2, TypedNext DEF TypeOK, FinishOutward
<1>13. ASSUME NEW w \in Workers, RetryClaim(w) \/ FinishClaim(w) PROVE TypeOK'
  <2>1. UNCHANGED <<delivered, audit, faults>> /\ worker[w].at # "idle"
    BY <1>13 DEF RetryClaim, FinishClaim
  <2>2. CASE Rest(w) /\ UNCHANGED <<row, dlq, alerted>>
    <3>1. WorkerOK'
      BY <2>2, TypedParts, Rested
    <3>2. QED
      BY <2>1, <2>2, <3>1, TypedNext DEF TypeOK
  <2>3. CASE \E t \in Settlements(Job(w)) : Transition(w, t) /\ DeadLetterJob(w, t)
    <3>1. /\ row' \in [Actions -> Row] /\ WorkerOK'
          /\ dlq' \in [Actions -> {"none", "open", "retried"}] /\ alerted' \subseteq Receipts
      BY <2>1, <2>3, Transitioned
    <3>2. QED
      BY <2>1, <3>1, TypedNext DEF TypeOK
  <2>4. QED
    BY <1>13, <2>2, <2>3, TransitionEffect
<1>14. ASSUME NEW w \in Workers, WriteAudit(w) PROVE TypeOK'
  <2>1. Rest(w) /\ worker[w].at = "audit"
    BY <1>14 DEF WriteAudit
  <2>2. WorkerOK'
    BY <2>1, TypedParts, Rested
  <2>3. QED
    <3>1. worker[w].outcome \in {"completed", "failed"}
      BY <2>1, TypedParts DEF WorkerOK, Final
    <3>2. QED
      BY <1>14, <2>2, <3>1, TypedNext DEF TypeOK, WriteAudit
<1>15. ASSUME NEW w \in Workers, GiveUp(w) PROVE TypeOK'
  <2>1. Rest(w) /\ faults' \in 0..MaxFaults
    BY <1>15, QueueAssumption DEF GiveUp, TypeOK
  <2>2. WorkerOK'
    BY <2>1, TypedParts, Rested
  <2>3. QED
    BY <1>15, <2>1, <2>2, TypedNext DEF TypeOK, GiveUp
<1>16. ASSUME RecoverStale PROVE TypeOK'
  <2>1. /\ row' \in [Actions -> Row] /\ worker' = worker
        /\ dlq' \in [Actions -> {"none", "open", "retried"}] /\ alerted' \subseteq Receipts
    BY <1>16, RecoveryEffect
  <2>2. WorkerOK'
    BY <2>1, TypedParts DEF WorkerOK
  <2>3. QED
    BY <1>16, <2>1, <2>2, TypedNext DEF TypeOK, RecoverStale
<1>17. ASSUME Crash PROVE TypeOK'
  BY <1>17, QueueAssumption DEF TypeOK, Crash, Idle, Invocation, Steps, Outcomes
<1>18. CASE UNCHANGED vars
  BY <1>18 DEF TypeOK, vars
<1>19. ASSUME NEW a \in Actions, ReopenDeadLetter(a) PROVE TypeOK'
  <2>1. row' \in [Actions -> Row] /\ worker' = worker
    BY <1>19, ReopenEffect
  <2>2. WorkerOK'
    BY <2>1, TypedParts DEF WorkerOK
  <2>3. QED
    BY <1>19, <2>1, <2>2, TypedNext DEF TypeOK, ReopenDeadLetter
<1>20. QED
  BY <1>1, <1>2, <1>3, <1>4, <1>5, <1>6, <1>7, <1>8, <1>9, <1>10, <1>11, <1>12, <1>13,
     <1>14, <1>15, <1>16, <1>17, <1>18, <1>19 DEF Next, Step

(* The queue's state is well typed in every reachable state.               *)
THEOREM TypeCorrect == Spec => []TypeOK
<1>1. Init => TypeOK
  <2> SUFFICES ASSUME Init PROVE TypeOK
    OBVIOUS
  <2>1. AbsentRow \in Row
    BY DEF AbsentRow, Row, Statuses, Intents
  <2>2. Idle \in Invocation
    BY DEF Idle, Invocation, Steps, Outcomes
  <2>3. QED
    BY <2>1, <2>2, QueueAssumption DEF Init, TypeOK, Idle
<1>2. TypeOK /\ [Next]_vars => TypeOK'
  BY TypeStep
<1>3. QED
  BY <1>1, <1>2, PTL DEF Spec

=============================================================================
