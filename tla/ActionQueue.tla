---------------------------- MODULE ActionQueue ----------------------------
(***************************************************************************)
(* The durable bot action queue: rows of bot_action_queue, the claim-token *)
(* RPCs that move them, and the processAction invocations of the bot.      *)
(*                                                                         *)
(* One step is one database transaction (an RPC), one effect on Discord,   *)
(* or one local decision of an invocation between two awaits.  Whatever    *)
(* hands a row to an invocation (Realtime event, sweep, retry timer, stale *)
(* recovery) supplies a candidate id only, so a dispatch is the choice of  *)
(* the row in Claim.                                                       *)
(*                                                                         *)
(* A definition just before Classify, HoldsClaim, Claim, ... whose name    *)
(* continues theirs is a faulty variant of it.  No behaviour here uses it: *)
(* put in its place it must break the property PROJECT.json pairs it with. *)
(***************************************************************************)
EXTENDS Naturals

CONSTANTS
  Actions,            (* ids of queue rows                                 *)
  Receipts,           (* the rows whose action is deliver_receipt          *)
  Relinks,            (* carriers whose handler may defer to a dependency  *)
  Workers,            (* concurrent invocations of processAction           *)
  NoJob,              (* the job of an idle invocation                     *)
  HandlerMaxRetries,  (* retries of a failed handler by the bot            *)
  MaxRetries,         (* retry budget of a row in the database             *)
  MaxDefers,          (* bound: deferrals of one row                       *)
  MaxReopens,         (* bound: times an operator reopens one row          *)
  MaxFaults           (* bound: crashes and lost RPC answers               *)

ASSUME QueueAssumption ==
  /\ Receipts \subseteq Actions
  /\ Relinks \subseteq Actions \ Receipts
  /\ NoJob \notin Actions
  /\ HandlerMaxRetries \in Nat
  /\ MaxRetries \in Nat
  /\ HandlerMaxRetries <= MaxRetries
  /\ MaxDefers \in Nat
  /\ MaxReopens \in Nat
  /\ MaxFaults \in Nat

VARIABLES
  row,        (* bot_action_queue, with the receipt's outward intent       *)
  dlq,        (* the newest action_queue_dlq entry of each row             *)
  alerted,    (* rows an operator alert names                              *)
  worker,     (* the invocations of processAction                          *)
  delivered,  (* history: receipt DMs Discord delivered, per row           *)
  audit,      (* audit_logs: the final verdict written for each row        *)
  faults      (* crashes and lost answers so far                           *)

vars == <<row, dlq, alerted, worker, delivered, audit, faults>>

----------------------------------------------------------------------------
(* Rows.  Token 0 is SQL NULL; claims counts the tokens minted for the row,*)
(* so that each gen_random_uuid() is a number never used before.           *)

Statuses == {"absent", "staged", "pending", "processing", "completed", "failed"}
Intents  == {"absent", "sending", "sent", "uncertain"}

Row == [status  : Statuses,
        token   : Nat,      \* claim_token
        claims  : Nat,      \* tokens minted so far
        retries : Nat,      \* retry_count
        defers  : Nat,      \* history: deferrals so far
        reopens : Nat,      \* history: times an operator reopened it
        parked  : BOOLEAN,  \* next_retry_at lies in the future
        stale   : BOOLEAN,  \* started_at is older than the recovery timeout
        bound   : BOOLEAN,  \* outward_generation_id is set
        intent  : Intents,  \* state of the receipt_dm outward intent
        attempt : Nat]      \* its attempt_token, named after the minting claim

AbsentRow == [status |-> "absent", token |-> 0, claims |-> 0, retries |-> 0,
              defers |-> 0, reopens |-> 0, parked |-> FALSE, stale |-> FALSE,
              bound |-> FALSE, intent |-> "absent", attempt |-> 0]

Final == {"completed", "failed"}

(* The claim-generation trigger clears the token of a row that leaves      *)
(* processing; started_at goes with it.                                    *)
Leave(r, s) == [r EXCEPT !.status = s, !.token = 0, !.stale = FALSE]

Requeued(r, backoff) ==
  [Leave(r, "pending") EXCEPT !.retries = r.retries + 1, !.parked = backoff]

ClassifyIgnoringSending(r) ==
  IF ~r.bound THEN "delegate"
  ELSE CASE r.intent = "uncertain" -> "operator_held"
         [] r.intent = "sent"      -> "complete"
         [] OTHER                  -> "requeue"

ClassifyMissingAsDone(r) ==
  IF ~r.bound THEN "delegate"
  ELSE CASE r.intent \in {"sending", "uncertain"} -> "operator_held"
         [] OTHER                               -> "complete"

(***************************************************************************)
(* commerce_classify_action_outward_state.  It owns the row, so an attempt *)
(* it finds in flight can never be reported as accepted afterwards: the    *)
(* intent becomes uncertain (Observed) and the carrier is held.            *)
(***************************************************************************)
Classify(r) ==
  IF ~r.bound THEN "delegate"
  ELSE CASE r.intent \in {"sending", "uncertain"} -> "operator_held"
         [] r.intent = "sent"                   -> "complete"
         [] OTHER                               -> "requeue"

Observed(r) ==
  IF r.bound /\ r.intent = "sending"
  THEN [r EXCEPT !.intent = "uncertain", !.attempt = 0]
  ELSE r

(* commerce_hold_action_outward_uncertain, and every other way to fail.    *)
Held(r) == Leave(Observed(r), "failed")

(* bot_action_queue_retry_claim: the row after a transient failure.        *)
AfterRetry(r) ==
  CASE Classify(r) = "complete"      -> Leave(r, "completed")
    [] Classify(r) = "operator_held" -> Held(r)
    [] Classify(r) = "requeue" /\ r.retries >= MaxRetries -> Held(r)
    [] OTHER                         -> Requeued(r, TRUE)

(* bot_action_queue_finish_claim: durable outward evidence overrides what  *)
(* the handler reported.                                                   *)
AfterFinish(r, success) ==
  CASE Classify(r) = "delegate" ->
         Leave(r, IF success THEN "completed" ELSE "failed")
    [] Classify(r) = "complete"      -> Leave(r, "completed")
    [] Classify(r) = "operator_held" -> Held(r)
    [] Classify(r) = "requeue"       ->
         IF r.retries >= MaxRetries THEN Held(r) ELSE Requeued(r, FALSE)

AfterRecoveryUnbounded(r) ==
  CASE Classify(r) = "complete"      -> Leave(r, "completed")
    [] Classify(r) = "operator_held" -> Held(r)
    [] OTHER                         -> Requeued(r, FALSE)

(* bot_action_queue_recover_stale, for one stale row.                      *)
AfterRecovery(r) ==
  CASE Classify(r) = "complete"      -> Leave(r, "completed")
    [] Classify(r) = "operator_held" -> Held(r)
    [] OTHER -> IF r.retries < MaxRetries THEN Requeued(r, FALSE) ELSE Held(r)

----------------------------------------------------------------------------
(* Invocations of processAction.                                           *)

Steps    == {"idle", "run", "bound", "send", "report", "retry", "finish", "audit"}
Outcomes == {"none", "success", "transient", "permanent",
             "accepted", "unsure", "completed", "failed"}

Invocation == [at      : Steps,
               job     : Actions \cup {NoJob},
               token   : Nat,      \* claim_token of the claim it was given
               retries : Nat,      \* retry_count of that claim
               outcome : Outcomes]

Idle == [at |-> "idle", job |-> NoJob, token |-> 0, retries |-> 0, outcome |-> "none"]

Job(w) == row[worker[w].job]

HoldsTheRow(w) == worker[w].job \in Actions

(* Every transition RPC updates only the row that is still processing      *)
(* under the token the invocation was given.                               *)
HoldsClaim(w) ==
  /\ Job(w).status = "processing"
  /\ Job(w).token = worker[w].token

Become(w, step, o) ==
  worker' = [worker EXCEPT ![w].at = step, ![w].outcome = o]

Rest(w) == worker' = [worker EXCEPT ![w] = Idle]

(* What processAction does with the handler's result.                      *)
HandlerResult(w, o) ==
  Become(w, IF o = "transient" /\ worker[w].retries + 1 <= HandlerMaxRetries
            THEN "retry" ELSE "finish", o)

(* A transition RPC reports the row's new status; only a final one is      *)
(* audited.                                                                *)
Transition(w, r) ==
  /\ row' = [row EXCEPT ![worker[w].job] = r]
  /\ IF r.status \in Final THEN Become(w, "audit", r.status) ELSE Rest(w)

DeadLetterAlertingAll(failing) ==
  /\ dlq' = [a \in Actions |-> IF a \in failing THEN "open" ELSE dlq[a]]
  /\ alerted' = alerted \cup failing

DeadLetterOnlyHeld(failing) ==
  /\ dlq' = [a \in Actions |-> IF a \in failing /\ row[a].bound THEN "open" ELSE dlq[a]]
  /\ alerted' = alerted \cup (failing \cap Receipts)

(* A failed row gets a dead-letter entry unless an unretried one exists,   *)
(* and a failed receipt an operator alert.                                 *)
DeadLetter(failing) ==
  /\ dlq' = [a \in Actions |-> IF a \in failing THEN "open" ELSE dlq[a]]
  /\ alerted' = alerted \cup (failing \cap Receipts)

DeadLetterJob(w, r) == DeadLetter(IF r.status = "failed" THEN {worker[w].job} ELSE {})

----------------------------------------------------------------------------
(* Producers.                                                              *)

(* An INSERT by a dashboard route, a webhook or a feature; rows that wait  *)
(* for the order transaction are inserted staged.                          *)
Insert(a) ==
  /\ row[a].status = "absent"
  /\ \E s \in {"staged", "pending"} : row' = [row EXCEPT ![a].status = s]
  /\ UNCHANGED <<dlq, alerted, worker, delivered, audit, faults>>

ReleaseStaged(a) ==
  /\ row[a].status = "staged"
  /\ row' = [row EXCEPT ![a].status = "pending"]
  /\ UNCHANGED <<dlq, alerted, worker, delivered, audit, faults>>

(* bot_action_queue_retry_dlq for most actions: the operator clones a dead *)
(* letter into a fresh row b of the same action.                           *)
RetryDeadLetter(a, b) ==
  /\ dlq[a] = "open"
  /\ row[b].status = "absent"
  /\ (a \in Receipts) = (b \in Receipts)
  /\ {a, b} \cap Relinks = {}
  /\ row' = [row EXCEPT ![b].status = "pending"]
  /\ dlq' = [dlq EXCEPT ![a] = "retried"]
  /\ UNCHANGED <<alerted, worker, delivered, audit, faults>>

(* bot_action_queue_retry_dlq for a carrier: the same row is reopened, which*)
(* counts as a retry but asks no budget.                                   *)
ReopenDeadLetter(a) ==
  /\ a \in Relinks
  /\ dlq[a] = "open"
  /\ row[a].status = "failed"
  /\ row[a].reopens < MaxReopens
  /\ row' = [row EXCEPT ![a] =
               [Requeued(row[a], FALSE) EXCEPT !.reopens = row[a].reopens + 1]]
  /\ dlq' = [dlq EXCEPT ![a] = "retried"]
  /\ UNCHANGED <<alerted, worker, delivered, audit, faults>>

----------------------------------------------------------------------------
(* processAction.                                                          *)

ClaimKeepingToken(w, a) ==
  /\ worker[w].at = "idle"
  /\ row[a].status = "pending"
  /\ ~row[a].parked
  /\ row' = [row EXCEPT ![a].status = "processing", ![a].stale = FALSE,
                        ![a].token = 1, ![a].claims = 1]
  /\ worker' = [worker EXCEPT ![w] =
       [at |-> "run", job |-> a, token |-> 1,
        retries |-> row[a].retries, outcome |-> "none"]]
  /\ UNCHANGED <<dlq, alerted, delivered, audit, faults>>

ClaimAnyStatus(w, a) ==
  /\ worker[w].at = "idle"
  /\ row[a].status \notin {"absent", "staged", "processing"}
  /\ ~row[a].parked
  /\ row' = [row EXCEPT ![a].status = "processing", ![a].stale = FALSE,
                        ![a].token = row[a].claims + 1,
                        ![a].claims = row[a].claims + 1]
  /\ worker' = [worker EXCEPT ![w] =
       [at |-> "run", job |-> a, token |-> row[a].claims + 1,
        retries |-> row[a].retries, outcome |-> "none"]]
  /\ UNCHANGED <<dlq, alerted, delivered, audit, faults>>

(* bot_action_queue_claim: a row that is not pending or not yet due        *)
(* answers no row, and nothing changes.                                    *)
Claim(w, a) ==
  /\ worker[w].at = "idle"
  /\ row[a].status = "pending"
  /\ ~row[a].parked
  /\ row' = [row EXCEPT ![a].status = "processing", ![a].stale = FALSE,
                        ![a].token = row[a].claims + 1,
                        ![a].claims = row[a].claims + 1]
  /\ worker' = [worker EXCEPT ![w] =
       [at |-> "run", job |-> a, token |-> row[a].claims + 1,
        retries |-> row[a].retries, outcome |-> "none"]]
  /\ UNCHANGED <<dlq, alerted, delivered, audit, faults>>

(* The handler of an action without outward evidence settles.              *)
HandlerReturns(w) ==
  /\ worker[w].at = "run"
  /\ worker[w].job \notin Receipts
  /\ \E o \in {"success", "transient", "permanent"} : HandlerResult(w, o)
  /\ UNCHANGED <<row, dlq, alerted, delivered, audit, faults>>

(* A relink carrier gives its claim back without consuming a retry; with a *)
(* retired claim the RPC changes nothing.  Either way the worker is done.  *)
HandlerDefers(w) ==
  /\ worker[w].at = "run"
  /\ worker[w].job \in Relinks
  /\ Job(w).defers < MaxDefers
  /\ row' = IF HoldsClaim(w)
            THEN [row EXCEPT ![worker[w].job] =
                   [Leave(Job(w), "pending") EXCEPT !.parked = TRUE,
                                                    !.defers = Job(w).defers + 1]]
            ELSE row
  /\ Rest(w)
  /\ UNCHANGED <<dlq, alerted, delivered, audit, faults>>

(* handleDeliverReceipt before anything is sent: the brand kit, the user   *)
(* or the DM channel cannot be prepared, or the generation is rejected.    *)
PrepareFails(w) ==
  /\ worker[w].at = "run"
  /\ worker[w].job \in Receipts
  /\ \E o \in {"transient", "permanent"} : HandlerResult(w, o)
  /\ UNCHANGED <<row, dlq, alerted, delivered, audit, faults>>

(* commerce_prepare_action_outward_generation binds the generation once;   *)
(* a later claim of the row replays it.  Its answer may be lost (transient)*)
(* or malformed (permanent).                                               *)
BindGeneration(w) ==
  /\ worker[w].at = "run"
  /\ worker[w].job \in Receipts
  /\ HoldsClaim(w)
  /\ row' = [row EXCEPT ![worker[w].job].bound = TRUE]
  /\ \/ Become(w, "bound", "none")
     \/ \E o \in {"transient", "permanent"} : HandlerResult(w, o)
  /\ UNCHANGED <<dlq, alerted, delivered, audit, faults>>

(* The row after commerce_begin_fulfillment_outward_intent, which mints an *)
(* absent intent only under the current claim and never resends.           *)
Begun(w) ==
  IF ~HoldsClaim(w) THEN Job(w)
  ELSE IF Job(w).intent = "absent"
       THEN [Job(w) EXCEPT !.intent = "sending", !.attempt = worker[w].token]
       ELSE Observed(Job(w))

BeginOutwardUpserting(w) ==
  /\ worker[w].at = "bound"
  /\ row' = [row EXCEPT ![worker[w].job].intent = "sending",
                        ![worker[w].job].attempt = worker[w].token]
  /\ Become(w, "send", "none")
  /\ UNCHANGED <<dlq, alerted, delivered, audit, faults>>

(* runCommerceOutwardIntent, first RPC.  A malformed or lost answer, the   *)
(* answer "absent" to a retired claim, and an RPC that fails before it     *)
(* commits throw into the handler's catch.                                 *)
BeginOutward(w) ==
  /\ worker[w].at = "bound"
  /\ \/ /\ row' = [row EXCEPT ![worker[w].job] = Begun(w)]
        /\ alerted' = IF HoldsClaim(w) /\ Begun(w).intent = "uncertain"
                      THEN alerted \cup {worker[w].job} ELSE alerted
        /\ \/ /\ HoldsClaim(w)
              /\ CASE Begun(w).intent = "sending" -> Become(w, "send", "none")
                   [] Begun(w).intent = "sent"    -> HandlerResult(w, "success")
                   [] OTHER                       -> HandlerResult(w, "permanent")
           \/ HandlerResult(w, "transient")
     \/ /\ HandlerResult(w, "transient")
        /\ UNCHANGED <<row, alerted>>
  /\ UNCHANGED <<dlq, delivered, audit, faults>>

(* The receipt DM.  A dispatch that throws may still have reached the      *)
(* customer.                                                               *)
Dispatch(w) ==
  /\ worker[w].at = "send"
  /\ \E accepted, arrived \in BOOLEAN :
       /\ accepted => arrived
       /\ delivered' = [delivered EXCEPT ![worker[w].job] = @ + (IF arrived THEN 1 ELSE 0)]
       /\ Become(w, "report", IF accepted THEN "accepted" ELSE "unsure")
  /\ UNCHANGED <<row, dlq, alerted, audit, faults>>

ReportedOverwriting(w) ==
  [Job(w) EXCEPT
     !.intent = IF worker[w].outcome = "accepted" THEN "sent" ELSE "uncertain",
     !.attempt = 0]

(* The row after commerce_finish_fulfillment_outward_intent; an attempt    *)
(* that is no longer sending keeps what was recorded for it.               *)
Reported(w) ==
  IF Job(w).intent = "sending" /\ Job(w).attempt = worker[w].token
  THEN [Job(w) EXCEPT
          !.intent = IF worker[w].outcome = "accepted" THEN "sent" ELSE "uncertain",
          !.attempt = 0]
  ELSE Job(w)

(* runCommerceOutwardIntent, second RPC.  An answer that contradicts the   *)
(* outcome, or a lost answer, throws; the RPC may also fail before it      *)
(* commits, and the intent deliberately stays sending.                     *)
FinishOutward(w) ==
  /\ worker[w].at = "report"
  /\ \/ /\ row' = [row EXCEPT ![worker[w].job] = Reported(w)]
        /\ alerted' = IF Reported(w).intent = "uncertain"
                      THEN alerted \cup {worker[w].job} ELSE alerted
        /\ \/ HandlerResult(w, CASE worker[w].outcome = "accepted"
                                      /\ Reported(w).intent = "sent" -> "success"
                                 [] worker[w].outcome = "unsure"
                                      /\ Reported(w).intent = "uncertain" -> "permanent"
                                 [] OTHER -> "transient")
           \/ HandlerResult(w, "transient")
     \/ /\ HandlerResult(w, "transient")
        /\ UNCHANGED <<row, alerted>>
  /\ UNCHANGED <<dlq, delivered, audit, faults>>

RetryClaim(w) ==
  /\ worker[w].at = "retry"
  /\ IF HoldsClaim(w)
     THEN /\ Transition(w, AfterRetry(Job(w)))
          /\ DeadLetterJob(w, AfterRetry(Job(w)))
     ELSE Rest(w) /\ UNCHANGED <<row, dlq, alerted>>
  /\ UNCHANGED <<delivered, audit, faults>>

FinishClaim(w) ==
  /\ worker[w].at = "finish"
  /\ IF HoldsClaim(w)
     THEN LET r == AfterFinish(Job(w), worker[w].outcome = "success")
          IN  Transition(w, r) /\ DeadLetterJob(w, r)
     ELSE Rest(w) /\ UNCHANGED <<row, dlq, alerted>>
  /\ UNCHANGED <<delivered, audit, faults>>

(* The audit entry of a final transition; "twice" if one was there.        *)
WriteAudit(w) ==
  /\ worker[w].at = "audit"
  /\ audit' = [audit EXCEPT ![worker[w].job] =
                 IF @ = "none" THEN worker[w].outcome ELSE "twice"]
  /\ Rest(w)
  /\ UNCHANGED <<row, dlq, alerted, delivered, faults>>

----------------------------------------------------------------------------
(* Recovery, time and faults.                                              *)

StaleBoundRows ==
  {a \in Actions : row[a].status = "processing" /\ row[a].stale /\ row[a].bound}

StaleRows == {a \in Actions : row[a].status = "processing" /\ row[a].stale}

(* bot_action_queue_recover_stale treats all stale rows in one transaction.*)
RecoverStale ==
  /\ StaleRows # {}
  /\ row' = [a \in Actions |-> IF a \in StaleRows THEN AfterRecovery(row[a]) ELSE row[a]]
  /\ DeadLetter({a \in StaleRows : AfterRecovery(row[a]).status = "failed"})
  /\ UNCHANGED <<worker, delivered, audit, faults>>

(* Five minutes pass since the claim; the claimant may be slow or dead.    *)
BecomeStale(a) ==
  /\ row[a].status = "processing"
  /\ ~row[a].stale
  /\ row' = [row EXCEPT ![a].stale = TRUE]
  /\ UNCHANGED <<dlq, alerted, worker, delivered, audit, faults>>

BackoffElapses(a) ==
  /\ row[a].parked
  /\ row' = [row EXCEPT ![a].parked = FALSE]
  /\ UNCHANGED <<dlq, alerted, worker, delivered, audit, faults>>

(* An RPC fails, or its answer is lost or malformed: the invocation gives  *)
(* up and leaves the row to recovery.                                      *)
GiveUp(w) ==
  /\ faults < MaxFaults
  /\ worker[w].at \in {"run", "retry", "finish", "audit"}
  /\ Rest(w)
  /\ faults' = faults + 1
  /\ UNCHANGED <<row, dlq, alerted, delivered, audit>>

(* The bot process dies with all its invocations.                          *)
Crash ==
  /\ faults < MaxFaults
  /\ worker' = [w \in Workers |-> Idle]
  /\ faults' = faults + 1
  /\ UNCHANGED <<row, dlq, alerted, delivered, audit>>

----------------------------------------------------------------------------
Init ==
  /\ row = [a \in Actions |-> AbsentRow]
  /\ dlq = [a \in Actions |-> "none"]
  /\ alerted = {}
  /\ worker = [w \in Workers |-> Idle]
  /\ delivered = [a \in Actions |-> 0]
  /\ audit = [a \in Actions |-> "none"]
  /\ faults = 0

Step(w) ==
  \/ HandlerReturns(w)
  \/ HandlerDefers(w)
  \/ PrepareFails(w)
  \/ BindGeneration(w)
  \/ BeginOutward(w)
  \/ Dispatch(w)
  \/ FinishOutward(w)
  \/ RetryClaim(w)
  \/ FinishClaim(w)
  \/ WriteAudit(w)

Next ==
  \/ \E a \in Actions : \/ Insert(a) \/ ReleaseStaged(a) \/ ReopenDeadLetter(a)
                         \/ BecomeStale(a) \/ BackoffElapses(a)
  \/ \E a, b \in Actions : RetryDeadLetter(a, b)
  \/ \E w \in Workers, a \in Actions : Claim(w, a)
  \/ \E w \in Workers : Step(w) \/ GiveUp(w)
  \/ RecoverStale
  \/ Crash

Spec == Init /\ [][Next]_vars

(***************************************************************************)
(* Fairness: the minute timer keeps recovering and sweeping, a promise a   *)
(* handler awaits settles, and time passes.  Producers, operators and      *)
(* faults owe nothing.                                                     *)
(***************************************************************************)
Fairness ==
  /\ \A a \in Actions : /\ WF_vars(BecomeStale(a))
                        /\ WF_vars(BackoffElapses(a))
                        /\ WF_vars(\E w \in Workers : Claim(w, a))
  /\ \A w \in Workers : WF_vars(Step(w))
  /\ WF_vars(RecoverStale)

FairSpec == Spec /\ Fairness
----------------------------------------------------------------------------
(* What the queue promises.                                                *)

TypeOK ==
  /\ row \in [Actions -> Row]
  /\ dlq \in [Actions -> {"none", "open", "retried"}]
  /\ alerted \subseteq Receipts
  /\ worker \in [Workers -> Invocation]
  /\ \A w \in Workers :
       /\ worker[w].at # "idle" => worker[w].job \in Actions
       /\ worker[w].at \in {"bound", "send", "report"} => worker[w].job \in Receipts
       /\ worker[w].at = "audit" => worker[w].outcome \in Final
  /\ delivered \in [Actions -> Nat]
  /\ audit \in [Actions -> {"none", "completed", "failed", "twice"}]
  /\ faults \in 0..MaxFaults

(* At most one invocation holds the live claim of a row, whatever raced to *)
(* dispatch it and however slow a predecessor is: the claim RPC and the    *)
(* claim-generation trigger retire every earlier token.                    *)
OneOwner ==
  \A v, w \in Workers :
    ( /\ worker[v].at # "idle"
      /\ worker[w].at # "idle"
      /\ worker[v].job = worker[w].job
      /\ HoldsClaim(v)
      /\ HoldsClaim(w) ) => v = w

(* The retry budget counts every way back to pending (handler retry, an    *)
(* incomplete finish, stale recovery), only an operator exceeds it, and a  *)
(* row is run at most once more than it was sent back.                     *)
RetryBudget ==
  \A a \in Actions : /\ row[a].retries <= MaxRetries + row[a].reopens
                      /\ row[a].claims <= row[a].retries + row[a].defers + 1

(* Only an operator revises a verdict: no late transition of a slow        *)
(* invocation and no recovery touches a completed or failed row.           *)
VerdictIsFinal ==
  [][\A a \in Actions :
       row[a].status \in Final =>
         row'[a].status = row[a].status \/ ReopenDeadLetter(a)]_vars

(* One receipt row sends at most one DM over all its claims, retries and   *)
(* recoveries (runCommerceOutwardIntent never resends an attempt).         *)
AtMostOneDelivery == \A a \in Actions : delivered[a] <= 1

(* The verdict on a receipt follows the durable outward evidence and not   *)
(* what the handler said: completed only when the DM was recorded sent and *)
(* did arrive, failed only when it was never begun or its fate is unknown. *)
VerdictFollowsEvidence ==
  \A a \in Receipts :
    /\ row[a].status = "completed" => row[a].intent = "sent" /\ delivered[a] = 1
    /\ row[a].status = "failed" => row[a].intent \in {"absent", "uncertain"}

(* A receipt whose delivery is unresolved is never put back in the queue:  *)
(* it is with its claimant or held for an operator.                        *)
UnresolvedIsNotRequeued ==
  \A a \in Receipts :
    (row[a].intent \in {"sending", "uncertain"}) => (row[a].status \in {"processing", "failed"})

(* No failure is silent: the transaction that fails a row leaves a dead    *)
(* letter, and for a receipt an operator alert.                            *)
FailureIsVisible ==
  \A a \in Actions :
    row[a].status = "failed" => /\ dlq[a] # "none"
                                /\ (a \in Receipts) => (a \in alerted)

(* The audit trail holds at most one verdict per row, the row's own, even  *)
(* with retired invocations finishing late, unless an operator reopens it. *)
AuditAgrees ==
  \A a \in Actions : row[a].reopens = 0 => audit[a] \in {"none", row[a].status}

Verdict(a) ==
  CASE row[a].status = "completed" -> "completed"
    [] row[a].status = "failed"    -> "held"
    [] OTHER                       -> "open"

Contract == INSTANCE ReceiptContract
              WITH verdict <- [a \in Receipts |-> Verdict(a)],
                   arrived <- [a \in Receipts |-> delivered[a]]

(* The queue, its claims, retries and recoveries implement the contract a  *)
(* customer and an operator rely on for every receipt row.                 *)
KeepsReceiptContract == Contract!Spec

(* Every queued row is settled in the end: the sweeps, the backoffs and    *)
(* stale recovery together leave no row behind, whatever is lost or dies.  *)
EventuallySettled ==
  \A a \in Actions : (row[a].status = "pending") ~> (row[a].status \in Final)
=============================================================================
