------------------------ MODULE PayPalWebhookProofs ------------------------
(***************************************************************************)
(* Proofs about the PayPal webhook, for any orders, refunds, handlers and  *)
(* replayable events, and any number of faults.                            *)
(***************************************************************************)
EXTENDS PayPalWebhook, FiniteSetTheorems, TLAPS

Steps == CaptureSteps \cup RefundSteps \cup {"idle", "finish", "fail"}

Runs == [event : Events \cup {NoEvent}, token : 0..MaxFaults,
         heard : BOOLEAN, known : BOOLEAN, at : Steps]

(* A handler at work has an event.                                         *)
BusyHasEvent ==
  \A w \in Workers : run[w].at # "idle" => run[w].event \in Events

(* A handler that has recorded a refund knows that its payment exists.     *)
RefundsHavePayments ==
  /\ \A o \in Orders : order[o] = "refunded" => payment[o] # "none"
  /\ \A w \in Workers :
       run[w].at \in {"expire", "revoke", "settle"} =>
         payment[Target] # "none"

(* Access is granted, and is about to be granted, only to the winner of    *)
(* the claim.                                                              *)
AccessFollowsClaim ==
  \A o \in Orders :
    \/ access[o] = "live"
    \/ queue[o] = "processing" /\ access[o] = "none"
    => claim = o

(* The purchase is on its way to the bot, or held, refunded or handed to   *)
(* the recovery.                                                           *)
Accounted(o) ==
  \/ queue[o] \in {"pending", "processing", "done"}
  \/ o \in held \/ o \in recovery \/ order[o] = "refunded"

(* Whoever says that a capture is done, or is about to, has accounted for  *)
(* it.                                                                     *)
DoneIsAccounted ==
  /\ \A o \in Orders : o \in acked \/ result[o] = "success" => Accounted(o)
  /\ \A w \in Workers, o \in Orders :
       run[w].event = o =>
         /\ run[w].at \in {"mark", "finish"} => Accounted(o)
         /\ run[w].at \in {"key", "release"} => queue[o] # "none"

----------------------------------------------------------------------------
(* Types.                                                                  *)

LEMMA GoTyped ==
  ASSUME TypeOK, NEW w \in Workers, NEW step \in Steps, Go(w, step)
  PROVE  run' \in [Workers -> Runs]
  BY DEF Go, TypeOK, Runs, Steps

(* What a handler that starts changes: it is at its first step.            *)
LEMMA StartEffect ==
  ASSUME TypeOK, NEW e \in Events, NEW t \in 0..MaxFaults, Start(e, t),
         SomeoneIdle
  PROVE  /\ run' \in [Workers -> Runs]
         /\ \A w \in Workers :
              \/ run'[w].at \in {"check", "record"} /\ run'[w].event = e
              \/ run'[w].event = run[w].event /\ run'[w].at = run[w].at
<1> DEFINE new == CHOOSE w \in Workers : run[w].at = "idle"
<1>1. run' = [w \in Workers |->
        IF w = new
        THEN [event |-> e, at |-> IF e \in Orders THEN "check" ELSE "record",
              token |-> t, heard |-> t = 0, known |-> FALSE]
        ELSE [run[w] EXCEPT !.heard = @ /\ (run[w].event = e => t # 0)]]
  BY DEF Start
<1> HIDE DEF new
<1>2. ASSUME NEW w \in Workers
      PROVE  /\ run'[w] \in Runs
             /\ \/ run'[w].at \in {"check", "record"} /\ run'[w].event = e
                \/ run'[w].event = run[w].event /\ run'[w].at = run[w].at
  <2>1. CASE w = new
    BY <1>1, <2>1 DEF Runs, Steps, CaptureSteps, RefundSteps
  <2>2. CASE w # new
    <3>1. run'[w] = [run[w] EXCEPT
            !.heard = run[w].heard /\ (run[w].event = e => t # 0)]
      BY <1>1, <2>2
    <3>2. run[w] \in Runs
      BY DEF TypeOK, Runs, Steps
    <3>3. QED
      BY <3>1, <3>2 DEF Runs
  <2>3. QED
    BY <2>1, <2>2
<1>3. QED
  BY <1>1, <1>2

LEMMA WebhookTypeInit == Init => TypeOK
  BY WebhookAssumption DEF Init, TypeOK, Idle, Events

(* Steps of the event rows.                                                *)
LEMMA EventStepTyped ==
  ASSUME TypeOK, NEW e \in Events,
         Deliver(e) \/ Duplicate(e) \/ Replay(e) \/ Abandon(e)
  PROVE  TypeOK'
<1> USE WebhookAssumption
<1>1. CASE Deliver(e)
  <2>1. run' \in [Workers -> Runs]
    BY <1>1, StartEffect DEF Deliver, TypeOK
  <2>2. faults' \in 0..MaxFaults
    BY <1>1 DEF Deliver, Stale, TypeOK
  <2>3. QED
    BY <1>1, <2>1, <2>2
       DEF Deliver, TypeOK, money, goods, Runs, Steps
<1>2. CASE Duplicate(e)
  BY <1>2 DEF Duplicate, TypeOK, money, goods
<1>3. CASE Replay(e)
  <2>1. faults' \in 0..MaxFaults
    BY <1>3 DEF Replay, TypeOK
  <2>2. run' \in [Workers -> Runs]
    BY <1>3, <2>1, StartEffect DEF Replay
  <2>3. QED
    BY <1>3, <2>1, <2>2 DEF Replay, TypeOK, money, goods, Runs, Steps
<1>4. CASE Abandon(e)
  BY <1>4 DEF Abandon, TypeOK, money, goods
<1>5. QED
  BY <1>1, <1>2, <1>3, <1>4

(* What the end of a handler changes.                                      *)
LEMMA CompleteEffect ==
  ASSUME TypeOK, NEW w \in Workers, NEW outcome \in {"success", "error"},
         run[w].at # "idle", run[w].event \in Events, Complete(w, outcome)
  PROVE  /\ TypeOK'
         /\ UNCHANGED <<money, goods, faults>>
         /\ run' = [run EXCEPT ![w] = Idle]
         /\ \A e \in Events :
              /\ result'[e] = "success" =>
                   \/ result[e] = "success"
                   \/ e = run[w].event /\ outcome = "success"
              /\ e \in acked' =>
                   \/ e \in acked
                   \/ e = run[w].event /\ outcome = "success"
<1> DEFINE e == run[w].event
<1>1. Idle \in Runs
  BY WebhookAssumption DEF Idle, Runs, Steps
<1>2. run' = [run EXCEPT ![w] = Idle] /\ UNCHANGED <<money, goods, faults>>
  BY DEF Complete
<1>3. acked' = acked \cup
        (IF run[w].heard /\ outcome = "success" THEN {e} ELSE {})
  BY DEF Complete
<1>4. \/ result' = [result EXCEPT ![e] = outcome] \/ result' = result
  BY DEF Complete, TypeOK
<1>5. \/ token' = [token EXCEPT ![e] = 0] \/ token' = token
  BY DEF Complete, TypeOK
<1>6. TypeOK'
  BY <1>1, <1>2, <1>3, <1>4, <1>5, WebhookAssumption
     DEF TypeOK, money, goods, Runs, Steps
<1>7. QED
  BY <1>2, <1>3, <1>4, <1>6 DEF TypeOK

LEMMA FaultTyped ==
  ASSUME TypeOK, NEW w \in Workers, Fault(w)
  PROVE  TypeOK'
<1>1. Idle \in Runs
  BY WebhookAssumption DEF Idle, Runs, Steps
<1>2. run' \in [Workers -> Runs]
  <2>1. CASE Go(w, "fail")
    BY <2>1, GoTyped DEF Steps
  <2>2. CASE run' = [run EXCEPT ![w] = Idle]
    BY <1>1, <2>2 DEF TypeOK, Runs, Steps
  <2>3. QED
    BY <2>1, <2>2 DEF Fault
<1>3. faults' \in 0..MaxFaults
  BY WebhookAssumption DEF Fault, TypeOK
<1>4. QED
  BY <1>2, <1>3 DEF Fault, TypeOK, money, goods, events, Runs, Steps

LEMMA CaptureTyped ==
  ASSUME TypeOK, NEW w \in Workers, NEW o \in Orders, Capture(w, o)
  PROVE  TypeOK'
<1> USE DEF Steps, CaptureSteps
<1>1. CASE CheckIntent(w, o)
  <2>1. run' \in [Workers -> Runs]
    <3>1. CASE intent[o] \in {"expired", "cancelled"}
      BY <1>1, <3>1, GoTyped DEF CheckIntent
    <3>2. CASE intent[o] \notin {"expired", "cancelled"}
      BY <1>1, <3>2 DEF CheckIntent, TypeOK, Runs
    <3>3. QED
      BY <3>1, <3>2
  <2>2. QED
    BY <1>1, <2>1 DEF CheckIntent, TypeOK, money, goods, events, Runs
<1>2. CASE FindOrder(w, o)
  <2>1. run' \in [Workers -> Runs]
    BY <1>2, GoTyped DEF FindOrder
  <2>2. recovery' \subseteq Orders
    BY <1>2 DEF FindOrder, TypeOK
  <2>3. QED
    BY <1>2, <2>1, <2>2 DEF FindOrder, TypeOK, money, events, Runs
<1>3. CASE Finalize(w, o)
  <2>1. run' \in [Workers -> Runs]
    BY <1>3, GoTyped DEF Finalize
  <2>2. /\ order' \in [Orders -> {"pending", "completed", "refunded"}]
        /\ payment' \in [Orders -> {"none", "completed", "refunded"}]
        /\ totals' \in Nat
    BY <1>3 DEF Finalize, TypeOK
  <2>3. QED
    BY <1>3, <2>1, <2>2 DEF Finalize, TypeOK, goods, events, Runs
<1>4. CASE ClaimFulfillment(w, o)
  <2>1. run' \in [Workers -> Runs]
    BY <1>4, GoTyped DEF ClaimFulfillment
  <2>2. claim' \in Orders \cup {NoOrder} /\ held' \subseteq Orders
    BY <1>4 DEF ClaimFulfillment, Arbitrate, TypeOK
  <2>3. QED
    BY <1>4, <2>1, <2>2 DEF ClaimFulfillment, TypeOK, money, events, Runs
<1>5. CASE Stage(w, o)
  <2>1. run' \in [Workers -> Runs]
    BY <1>5, GoTyped DEF Stage
  <2>2. QED
    BY <1>5, <2>1 DEF Stage, TypeOK, money, events, Runs
<1>6. CASE EnsureKey(w, o)
  <2>1. run' \in [Workers -> Runs]
    BY <1>6, GoTyped DEF EnsureKey
  <2>2. key' \in [Orders -> {"none", "live", "revoked"}]
    BY <1>6 DEF EnsureKey, TypeOK
  <2>3. QED
    BY <1>6, <2>1, <2>2 DEF EnsureKey, TypeOK, money, events, Runs
<1>7. CASE Release(w, o)
  <2>1. run' \in [Workers -> Runs]
    BY <1>7, GoTyped DEF Release
  <2>2. QED
    BY <1>7, <2>1 DEF Release, TypeOK, money, events, Runs
<1>8. CASE MarkCaptured(w, o)
  <2>1. run' \in [Workers -> Runs]
    BY <1>8, GoTyped DEF MarkCaptured
  <2>2. intent' \in
          [Orders -> {"bound", "expired", "cancelled", "captured"}]
    BY <1>8 DEF MarkCaptured, TypeOK
  <2>3. QED
    BY <1>8, <2>1, <2>2 DEF MarkCaptured, TypeOK, goods, events, Runs
<1>9. QED
  BY <1>1, <1>2, <1>3, <1>4, <1>5, <1>6, <1>7, <1>8 DEF Capture

LEMMA RefundTyped ==
  ASSUME TypeOK, NEW w \in Workers, NEW r \in Refunds, Refund(w, r)
  PROVE  TypeOK'
<1> USE DEF Steps, RefundSteps
<1>1. run' \in [Workers -> Runs]
  BY GoTyped DEF Refund, RecordRefund, ExpireAccess, RevokeKeys, Settle
<1>2. CASE RecordRefund(w, r)
  BY <1>1, <1>2 DEF RecordRefund, TypeOK, goods, events, Runs
<1>3. CASE ExpireAccess(w, r)
  BY <1>1, <1>3 DEF ExpireAccess, TypeOK, money, events, Runs
<1>4. CASE RevokeKeys(w, r)
  BY <1>1, <1>4 DEF RevokeKeys, TypeOK, money, events, Runs
<1>5. CASE Settle(w, r)
  BY <1>1, <1>5 DEF Settle, TypeOK, goods, events, Runs
<1>6. QED
  BY <1>2, <1>3, <1>4, <1>5 DEF Refund

LEMMA OrderStepTyped ==
  ASSUME TypeOK, NEW o \in Orders,
         IntentExpires(o) \/ BotTakes(o) \/ BotGrants(o)
  PROVE  TypeOK'
<1>1. CASE IntentExpires(o)
  <2>1. /\ intent' \in
             [Orders -> {"bound", "expired", "cancelled", "captured"}]
        /\ faults' \in 0..MaxFaults
    BY <1>1, WebhookAssumption DEF IntentExpires, TypeOK
  <2>2. QED
    BY <1>1, <2>1 DEF IntentExpires, TypeOK, goods, events
<1>2. CASE BotTakes(o)
  <2>1. /\ queue' \in
             [Orders -> {"none", "staged", "pending", "processing", "done"}]
        /\ claim' \in Orders \cup {NoOrder}
        /\ held' \subseteq Orders
    BY <1>2 DEF BotTakes, Arbitrate, TypeOK
  <2>2. QED
    BY <1>2, <2>1 DEF BotTakes, TypeOK, money, events
<1>3. CASE BotGrants(o)
  <2>1. /\ queue' \in
             [Orders -> {"none", "staged", "pending", "processing", "done"}]
        /\ access' \in [Orders -> {"none", "live", "ended"}]
    <3>1. CASE access[o] = "none" /\ order[o] # "completed"
      BY <1>3, <3>1 DEF BotGrants, TypeOK
    <3>2. CASE ~(access[o] = "none" /\ order[o] # "completed")
      BY <1>3, <3>2 DEF BotGrants, TypeOK
    <3>3. QED
      BY <3>1, <3>2
  <2>2. QED
    BY <1>3, <2>1 DEF BotGrants, TypeOK, money, events
<1>4. QED
  BY <1>1, <1>2, <1>3

(* A step of a handler leaves the other handlers alone; its own goes on    *)
(* with its event or ends.                                                 *)
LEMMA HandlerFrame ==
  ASSUME TypeOK, NEW w \in Workers, Handle(w) \/ Fault(w)
  PROVE  /\ run[w].at # "idle"
         /\ \A v \in Workers \ {w} : run'[v] = run[v]
         /\ run'[w] = Idle \/ run'[w].event = run[w].event
<1>1. ASSUME NEW o \in Orders, Capture(w, o)
      PROVE  /\ run[w].at # "idle"
             /\ \A v \in Workers \ {w} : run'[v] = run[v]
             /\ run'[w].event = run[w].event
  BY <1>1 DEF Capture, CheckIntent, FindOrder, Finalize, ClaimFulfillment,
              Stage, EnsureKey, Release, MarkCaptured, At, Go, TypeOK
<1>2. ASSUME NEW r \in Refunds, Refund(w, r)
      PROVE  /\ run[w].at # "idle"
             /\ \A v \in Workers \ {w} : run'[v] = run[v]
             /\ run'[w].event = run[w].event
  BY <1>2 DEF Refund, RecordRefund, ExpireAccess, RevokeKeys, Settle, At, Go,
              TypeOK
<1>3. CASE Succeed(w) \/ Fail(w)
  BY <1>3 DEF Succeed, Fail, Complete, TypeOK
<1>4. CASE Fault(w)
  BY <1>4 DEF Fault, Go, CaptureSteps, RefundSteps, TypeOK
<1>5. QED
  BY <1>1, <1>2, <1>3, <1>4 DEF Handle

----------------------------------------------------------------------------
(* The type invariant.                                                     *)
TypeInv == TypeOK /\ BusyHasEvent

LEMMA EventStepBusy ==
  ASSUME TypeInv, NEW e \in Events,
         Deliver(e) \/ Duplicate(e) \/ Replay(e) \/ Abandon(e)
  PROVE  BusyHasEvent'
<1> USE DEF TypeInv
<1>1. CASE Deliver(e)
  BY <1>1, WebhookAssumption, StartEffect DEF Deliver, BusyHasEvent
<1>2. CASE Replay(e)
  <2>1. faults' \in 0..MaxFaults
    BY <1>2, WebhookAssumption DEF Replay, TypeOK
  <2>2. QED
    BY <1>2, <2>1, StartEffect DEF Replay, BusyHasEvent
<1>3. CASE Duplicate(e) \/ Abandon(e)
  BY <1>3 DEF Duplicate, Abandon, BusyHasEvent
<1>4. QED
  BY <1>1, <1>2, <1>3

LEMMA TypeKept ==
  ASSUME TypeInv, [Next]_vars
  PROVE  TypeInv'
<1> USE DEF TypeInv
<1>1. ASSUME NEW e \in Events,
             Deliver(e) \/ Duplicate(e) \/ Replay(e) \/ Abandon(e)
      PROVE  TypeInv'
  BY <1>1, EventStepTyped, EventStepBusy
<1>2. ASSUME NEW w \in Workers, Handle(w) \/ Fault(w)
      PROVE  TypeInv'
  <2>1. BusyHasEvent'
    BY <1>2, HandlerFrame DEF BusyHasEvent, Idle
  <2>2. CASE Succeed(w) \/ Fail(w)
    BY <2>1, <2>2, CompleteEffect DEF Succeed, Fail, BusyHasEvent
  <2>3. QED
    BY <1>2, <2>1, <2>2, CaptureTyped, RefundTyped, FaultTyped DEF Handle
<1>3. ASSUME NEW o \in Orders,
             IntentExpires(o) \/ BotTakes(o) \/ BotGrants(o)
      PROVE  TypeInv'
  <2>1. run' = run
    BY <1>3 DEF IntentExpires, BotTakes, BotGrants
  <2>2. QED
    BY <1>3, <2>1, OrderStepTyped DEF BusyHasEvent
<1>4. CASE UNCHANGED vars
  BY <1>4 DEF TypeOK, BusyHasEvent, vars, money, goods, events
<1>5. QED
  BY <1>1, <1>2, <1>3, <1>4 DEF Next

(* Every variable of the webhook holds a value of its type.                *)
THEOREM WebhookTypeOK == Spec => []TypeOK
<1>1. Init => TypeInv
  BY WebhookTypeInit DEF Init, TypeInv, BusyHasEvent, Idle
<1>2. TypeInv /\ [Next]_vars => TypeInv'
  BY TypeKept
<1>3. TypeInv => TypeOK
  BY DEF TypeInv
<1>4. QED
  BY <1>1, <1>2, <1>3, PTL DEF Spec

----------------------------------------------------------------------------
(* What the steps that are not of a handler's own work change.             *)
LEMMA EventStepMoney ==
  ASSUME NEW e \in Events,
         Deliver(e) \/ Duplicate(e) \/ Replay(e) \/ Abandon(e)
  PROVE  UNCHANGED <<money, goods>>
  BY DEF Deliver, Duplicate, Replay, Abandon

LEMMA EndMoney ==
  ASSUME NEW w \in Workers, Succeed(w) \/ Fail(w) \/ Fault(w)
  PROVE  UNCHANGED <<money, goods>>
  BY DEF Succeed, Fail, Complete, Fault

----------------------------------------------------------------------------
(* Access and keys against the refund.                                     *)
LEMMA RefundedKept ==
  ASSUME TypeInv, RefundedHasNothing, [Next]_vars
  PROVE  RefundedHasNothing'
<1> USE DEF TypeInv, RefundedHasNothing
<1>1. ASSUME UNCHANGED <<money, goods>>
      PROVE  RefundedHasNothing'
  BY <1>1 DEF money, goods
<1>2. ASSUME NEW w \in Workers, NEW o \in Orders, Capture(w, o)
      PROVE  RefundedHasNothing'
  <2>1. CASE Finalize(w, o)
    BY <2>1 DEF Finalize, goods, TypeOK
  <2>2. CASE EnsureKey(w, o)
    BY <2>2 DEF EnsureKey, money, TypeOK
  <2>3. CASE ~Finalize(w, o) /\ ~EnsureKey(w, o)
    <3>1. UNCHANGED <<order, access, key>>
      BY <1>2, <2>3
         DEF Capture, CheckIntent, FindOrder, ClaimFulfillment, Stage,
             Release, MarkCaptured, money, goods
    <3>2. QED
      BY <3>1
  <2>4. QED
    BY <2>1, <2>2, <2>3
<1>3. ASSUME NEW w \in Workers, NEW r \in Refunds, Refund(w, r)
      PROVE  RefundedHasNothing'
  <2>1. CASE RecordRefund(w, r)
    BY <2>1 DEF RecordRefund, goods
  <2>2. CASE ExpireAccess(w, r)
    BY <2>2 DEF ExpireAccess, money, TypeOK
  <2>3. CASE RevokeKeys(w, r)
    BY <2>3 DEF RevokeKeys, money, TypeOK
  <2>4. CASE Settle(w, r)
    BY <2>4 DEF Settle, goods, TypeOK
  <2>5. QED
    BY <1>3, <2>1, <2>2, <2>3, <2>4 DEF Refund
<1>4. ASSUME NEW o \in Orders,
             IntentExpires(o) \/ BotTakes(o) \/ BotGrants(o)
      PROVE  RefundedHasNothing'
  BY <1>4 DEF IntentExpires, BotTakes, BotGrants, money, goods, TypeOK
<1>5. CASE UNCHANGED vars
  BY <1>1, <1>5 DEF vars
<1>6. QED
  BY <1>1, <1>2, <1>3, <1>4, <1>5, EventStepMoney, EndMoney DEF Next, Handle

(* No handler, replay or bot leaves live access or a live key behind an    *)
(* order that has been refunded, nor revives them.                         *)
THEOREM WebhookRefunds == Spec => []RefundedHasNothing
<1>1. Init => TypeInv /\ RefundedHasNothing
  BY WebhookTypeInit
     DEF Init, TypeInv, BusyHasEvent, Idle, RefundedHasNothing
<1>2. TypeInv /\ RefundedHasNothing /\ [Next]_vars
        => (TypeInv /\ RefundedHasNothing)'
  BY TypeKept, RefundedKept
<1>3. QED
  BY <1>1, <1>2, PTL DEF Spec

----------------------------------------------------------------------------
(* The customer's totals.                                                  *)
PaidOrders == {o \in Orders : payment[o] # "none"}

MoneyInv == TypeInv /\ RefundsHavePayments /\ MoneyCountedOnce

(* A step that pays for no order leaves the count as it is.                *)
LEMMA CountUnchanged ==
  ASSUME MoneyCountedOnce, totals' = totals,
         \A o \in Orders : payment'[o] = "none" <=> payment[o] = "none"
  PROVE  MoneyCountedOnce'
<1>1. PaidOrders' = PaidOrders
  BY DEF PaidOrders
<1>2. QED
  BY <1>1 DEF MoneyCountedOnce, PaidOrders

LEMMA FinalizeCounts ==
  ASSUME MoneyInv, NEW w \in Workers, NEW o \in Orders, Finalize(w, o)
  PROVE  MoneyCountedOnce'
<1>1. CASE payment[o] = "none"
  <2>1. PaidOrders' = PaidOrders \cup {o} /\ o \notin PaidOrders
    BY <1>1 DEF Finalize, PaidOrders, MoneyInv, TypeInv, TypeOK
  <2>2. IsFiniteSet(PaidOrders)
    BY WebhookAssumption, FS_Subset DEF PaidOrders
  <2>3. Cardinality(PaidOrders \cup {o}) = Cardinality(PaidOrders) + 1
    BY <2>1, <2>2, FS_AddElement
  <2>4. totals' = totals + 1
    BY <1>1 DEF Finalize
  <2>5. QED
    BY <2>1, <2>3, <2>4 DEF MoneyInv, MoneyCountedOnce, PaidOrders
<1>2. CASE payment[o] # "none"
  BY <1>2, CountUnchanged DEF Finalize, MoneyInv
<1>3. QED
  BY <1>1, <1>2

(* A payment, once recorded, stays.                                        *)
LEMMA PaymentsStay ==
  ASSUME TypeInv, [Next]_vars, NEW o \in Orders, payment[o] # "none"
  PROVE  payment'[o] # "none"
<1> USE DEF TypeInv
<1>1. ASSUME UNCHANGED payment
      PROVE  payment'[o] # "none"
  BY <1>1
<1>2. ASSUME NEW w \in Workers, NEW p \in Orders, Capture(w, p)
      PROVE  payment'[o] # "none"
  BY <1>2 DEF Capture, CheckIntent, FindOrder, Finalize, ClaimFulfillment,
              Stage, EnsureKey, Release, MarkCaptured, money, TypeOK
<1>3. ASSUME NEW w \in Workers, NEW r \in Refunds, Refund(w, r)
      PROVE  payment'[o] # "none"
  BY <1>3 DEF Refund, RecordRefund, ExpireAccess, RevokeKeys, Settle, money,
              TypeOK
<1>4. ASSUME NEW p \in Orders,
             IntentExpires(p) \/ BotTakes(p) \/ BotGrants(p)
      PROVE  payment'[o] # "none"
  BY <1>4 DEF IntentExpires, BotTakes, BotGrants, money
<1>5. CASE UNCHANGED vars
  BY <1>1, <1>5 DEF vars, money
<1>6. QED
  BY <1>2, <1>3, <1>4, <1>5, EventStepMoney, EndMoney
     DEF Next, Handle, money

LEMMA RefundsHavePaymentsKept ==
  ASSUME TypeInv, RefundsHavePayments, [Next]_vars
  PROVE  RefundsHavePayments'
<1> USE DEF TypeInv
<1> DEFINE Refunding(w) == run[w].at \in {"expire", "revoke", "settle"}
<1>1. ASSUME NEW o \in Orders, order'[o] = "refunded"
      PROVE  payment'[o] # "none"
  <2>1. CASE order[o] = "refunded"
    BY <2>1, PaymentsStay DEF RefundsHavePayments
  <2>2. CASE order[o] # "refunded"
    <3>1. PICK w \in Workers, r \in Refunds : Settle(w, r)
      <4>1. ASSUME NEW w \in Workers, NEW p \in Orders, Capture(w, p)
            PROVE  order'[o] # "refunded"
        BY <2>2, <4>1
           DEF Capture, CheckIntent, FindOrder, Finalize, ClaimFulfillment,
               Stage, EnsureKey, Release, MarkCaptured, money, TypeOK
      <4>2. ASSUME NEW w \in Workers, NEW r \in Refunds, Refund(w, r),
                   ~Settle(w, r)
            PROVE  order'[o] # "refunded"
        BY <2>2, <4>2 DEF Refund, RecordRefund, ExpireAccess, RevokeKeys,
                          money
      <4>3. ASSUME NEW p \in Orders,
                   IntentExpires(p) \/ BotTakes(p) \/ BotGrants(p)
            PROVE  order'[o] # "refunded"
        BY <2>2, <4>3 DEF IntentExpires, BotTakes, BotGrants, money
      <4>4. CASE UNCHANGED vars
        BY <1>1, <2>2, <4>4 DEF vars, money
      <4>5. QED
        BY <1>1, <2>2, <4>1, <4>2, <4>3, <4>4, EventStepMoney, EndMoney
           DEF Next, Handle, money
    <3>2. QED
      BY <1>1, <2>2, <3>1 DEF Settle, TypeOK
  <2>3. QED
    BY <2>1, <2>2
<1>2. ASSUME NEW w \in Workers, Refunding(w)'
      PROVE  payment'[Target] # "none"
  <2>1. CASE Refunding(w)
    BY <2>1, PaymentsStay, WebhookAssumption DEF RefundsHavePayments
  <2>2. CASE ~Refunding(w)
    <3>1. ASSUME NEW v \in Workers, Handle(v) \/ Fault(v)
          PROVE  v = w
      BY <1>2, <2>2, <3>1, HandlerFrame
    <3>2. ASSUME NEW p \in Orders, Capture(w, p)
          PROVE  FALSE
      BY <1>2, <2>2, <3>2
         DEF Capture, CheckIntent, FindOrder, Finalize, ClaimFulfillment,
             Stage, EnsureKey, Release, MarkCaptured, Go, TypeOK
    <3>3. CASE Succeed(w) \/ Fail(w) \/ Fault(w)
      BY <1>2, <3>3 DEF Succeed, Fail, Fault, Complete, Go, Idle, TypeOK
    <3>4. ASSUME NEW r \in Refunds, Refund(w, r)
          PROVE  RecordRefund(w, r) /\ run'[w].at = "expire"
      BY <1>2, <2>2, <3>4
         DEF Refund, RecordRefund, ExpireAccess, RevokeKeys, Settle, At, Go,
             TypeOK
    <3>5. ASSUME NEW r \in Refunds, RecordRefund(w, r),
                 run'[w].at = "expire"
          PROVE  payment'[Target] # "none"
      BY <3>5 DEF RecordRefund, Go, TypeOK
    <3>6. ASSUME NEW e \in Events,
                 Deliver(e) \/ Duplicate(e) \/ Replay(e) \/ Abandon(e)
          PROVE  FALSE
      <4>1. CASE Deliver(e)
        BY <1>2, <2>2, <4>1, StartEffect, WebhookAssumption DEF Deliver
      <4>2. CASE Replay(e)
        <5>1. faults' \in 0..MaxFaults
          BY <4>2, WebhookAssumption DEF Replay, TypeOK
        <5>2. QED
          BY <1>2, <2>2, <4>2, <5>1, StartEffect DEF Replay
      <4>3. CASE Duplicate(e) \/ Abandon(e)
        BY <1>2, <2>2, <4>3 DEF Duplicate, Abandon
      <4>4. QED
        BY <3>6, <4>1, <4>2, <4>3
    <3>7. ASSUME NEW p \in Orders,
                 IntentExpires(p) \/ BotTakes(p) \/ BotGrants(p)
          PROVE  FALSE
      BY <1>2, <2>2, <3>7 DEF IntentExpires, BotTakes, BotGrants
    <3>8. CASE UNCHANGED vars
      BY <1>2, <2>2, <3>8 DEF vars
    <3>9. QED
      BY <3>1, <3>2, <3>3, <3>4, <3>5, <3>6, <3>7, <3>8 DEF Next, Handle
  <2>3. QED
    BY <2>1, <2>2
<1>3. QED
  BY <1>1, <1>2 DEF RefundsHavePayments

LEMMA MoneyKept ==
  ASSUME MoneyInv, [Next]_vars
  PROVE  MoneyCountedOnce'
<1> USE DEF MoneyInv, TypeInv
<1>1. ASSUME UNCHANGED money
      PROVE  MoneyCountedOnce'
  BY <1>1, CountUnchanged DEF money
<1>2. ASSUME NEW w \in Workers, NEW o \in Orders, Capture(w, o)
      PROVE  MoneyCountedOnce'
  <2>1. CASE Finalize(w, o)
    BY <2>1, FinalizeCounts
  <2>2. CASE ~Finalize(w, o)
    <3>1. UNCHANGED <<payment, totals>>
      BY <1>2, <2>2
         DEF Capture, CheckIntent, FindOrder, ClaimFulfillment, Stage,
             EnsureKey, Release, MarkCaptured, money
    <3>2. QED
      BY <3>1, CountUnchanged
  <2>3. QED
    BY <2>1, <2>2
<1>3. ASSUME NEW w \in Workers, NEW r \in Refunds, Refund(w, r)
      PROVE  MoneyCountedOnce'
  <2>1. CASE Settle(w, r)
    <3>1. payment[Target] # "none"
      BY <2>1 DEF Settle, At, RefundsHavePayments
    <3>2. \A o \in Orders : payment'[o] = "none" <=> payment[o] = "none"
      BY <2>1, <3>1 DEF Settle, TypeOK
    <3>3. QED
      BY <2>1, <3>2, CountUnchanged DEF Settle
  <2>2. CASE ~Settle(w, r)
    <3>1. UNCHANGED <<payment, totals>>
      BY <1>3, <2>2
         DEF Refund, RecordRefund, ExpireAccess, RevokeKeys, money
    <3>2. QED
      BY <3>1, CountUnchanged
  <2>3. QED
    BY <2>1, <2>2
<1>4. ASSUME NEW o \in Orders,
             IntentExpires(o) \/ BotTakes(o) \/ BotGrants(o)
      PROVE  MoneyCountedOnce'
  <2>1. UNCHANGED <<payment, totals>>
    BY <1>4 DEF IntentExpires, BotTakes, BotGrants, money
  <2>2. QED
    BY <2>1, CountUnchanged
<1>5. CASE UNCHANGED vars
  BY <1>1, <1>5 DEF vars
<1>6. QED
  BY <1>1, <1>2, <1>3, <1>4, <1>5, EventStepMoney, EndMoney DEF Next, Handle

LEMMA MoneyInit == Init => MoneyInv
<1>1. SUFFICES ASSUME Init PROVE MoneyInv
  OBVIOUS
<1>2. PaidOrders = {}
  BY <1>1 DEF Init, PaidOrders
<1>3. MoneyCountedOnce
  BY <1>1, <1>2, FS_EmptySet DEF Init, MoneyCountedOnce, PaidOrders
<1>4. QED
  BY <1>1, <1>3, WebhookTypeInit
     DEF Init, MoneyInv, TypeInv, BusyHasEvent, Idle, RefundsHavePayments

(* A capture is counted once, however many handlers work on it.            *)
THEOREM WebhookMoney == Spec => []MoneyCountedOnce
<1>1. MoneyInv /\ [Next]_vars => MoneyInv'
  BY TypeKept, RefundsHavePaymentsKept, MoneyKept DEF MoneyInv
<1>2. MoneyInv => MoneyCountedOnce
  BY DEF MoneyInv
<1>3. QED
  BY MoneyInit, <1>1, <1>2, PTL DEF Spec

----------------------------------------------------------------------------
(* The winner of the claim, and live access.                               *)
AccessInv == TypeInv /\ AccessFollowsClaim

(* Arbitration moves the claim only away from an order that has no access, *)
(* and whose row the bot does not process.                                 *)
LEMMA ArbitrateEffect ==
  ASSUME AccessInv, NEW o \in Orders, Arbitrate(o)
  PROVE  /\ claim' \in Orders \cup {NoOrder}
         /\ \A p \in Orders :
              \/ access[p] = "live"
              \/ queue[p] = "processing" /\ access[p] = "none"
              => claim' = p
         /\ Wins(o) => access[o] = "live" \/ claim' = o
<1> USE DEF AccessInv, TypeInv, AccessFollowsClaim
<1>1. CASE ~Wins(o)
  BY <1>1 DEF Arbitrate, TypeOK
<1>2. CASE Wins(o) /\ o \in Live /\ claim # NoOrder
  BY <1>2 DEF Arbitrate, Live, TypeOK
<1>3. CASE Wins(o) /\ o \in Live /\ claim = NoOrder
  BY <1>3, WebhookAssumption DEF Live
<1>4. CASE Wins(o) /\ o \notin Live
  <2>1. claim' = o
    BY <1>4 DEF Arbitrate
  <2>2. Live = {} /\ (claim \in {o, NoOrder} \/ Releasable(claim))
    BY <1>4 DEF Wins
  <2>3. ASSUME NEW p \in Orders, queue[p] = "processing",
               access[p] = "none"
        PROVE  p = o
    BY <2>2, <2>3, WebhookAssumption DEF Releasable
  <2>4. QED
    BY <2>1, <2>2, <2>3 DEF Live
<1>5. QED
  BY <1>1, <1>2, <1>3, <1>4

LEMMA AccessKept ==
  ASSUME AccessInv, [Next]_vars
  PROVE  AccessFollowsClaim'
<1> USE DEF AccessInv, TypeInv
<1>1. ASSUME UNCHANGED <<claim, queue, access>>
      PROVE  AccessFollowsClaim'
  BY <1>1 DEF AccessFollowsClaim
<1>2. ASSUME NEW w \in Workers, NEW o \in Orders, Capture(w, o)
      PROVE  AccessFollowsClaim'
  <2>1. CASE ClaimFulfillment(w, o)
    <3>1. CASE Payable(o)
      BY <2>1, <3>1, ArbitrateEffect DEF ClaimFulfillment, AccessFollowsClaim
    <3>2. CASE ~Payable(o)
      BY <1>1, <2>1, <3>2 DEF ClaimFulfillment
    <3>3. QED
      BY <3>1, <3>2
  <2>2. CASE Stage(w, o) \/ Release(w, o)
    BY <2>2 DEF Stage, Release, AccessFollowsClaim, TypeOK
  <2>3. CASE ~(ClaimFulfillment(w, o) \/ Stage(w, o) \/ Release(w, o))
    BY <1>1, <1>2, <2>3
       DEF Capture, CheckIntent, FindOrder, Finalize, EnsureKey,
           MarkCaptured, goods
  <2>4. QED
    BY <2>1, <2>2, <2>3
<1>3. ASSUME NEW w \in Workers, NEW r \in Refunds, Refund(w, r)
      PROVE  AccessFollowsClaim'
  <2>1. CASE ExpireAccess(w, r)
    BY <2>1 DEF ExpireAccess, AccessFollowsClaim, TypeOK
  <2>2. CASE ~ExpireAccess(w, r)
    BY <1>1, <1>3, <2>2 DEF Refund, RecordRefund, RevokeKeys, Settle, goods
  <2>3. QED
    BY <2>1, <2>2
<1>4. ASSUME NEW o \in Orders, BotTakes(o)
      PROVE  AccessFollowsClaim'
  <2>1. CASE Payable(o)
    BY <1>4, <2>1, ArbitrateEffect DEF BotTakes, AccessFollowsClaim, TypeOK
  <2>2. CASE ~Payable(o)
    BY <1>4, <2>2 DEF BotTakes, AccessFollowsClaim, TypeOK
  <2>3. QED
    BY <2>1, <2>2
<1>5. ASSUME NEW o \in Orders, BotGrants(o)
      PROVE  AccessFollowsClaim'
  BY <1>5 DEF BotGrants, AccessFollowsClaim, TypeOK
<1>6. ASSUME NEW o \in Orders, IntentExpires(o)
      PROVE  AccessFollowsClaim'
  BY <1>1, <1>6 DEF IntentExpires, goods
<1>7. CASE UNCHANGED vars
  BY <1>1, <1>7 DEF vars, goods
<1>8. QED
  BY <1>1, <1>2, <1>3, <1>4, <1>5, <1>6, <1>7, EventStepMoney, EndMoney
     DEF Next, Handle, goods

(* The customer never has live access from two orders of the product.      *)
THEOREM WebhookOneAccess == Spec => []OneLiveAccess
<1>1. Init => AccessInv
  BY WebhookTypeInit
     DEF Init, AccessInv, TypeInv, BusyHasEvent, Idle, AccessFollowsClaim
<1>2. AccessInv /\ [Next]_vars => AccessInv'
  BY TypeKept, AccessKept DEF AccessInv
<1>3. AccessInv => OneLiveAccess
  <2>1. SUFFICES ASSUME AccessInv PROVE Cardinality(Live) <= 1
    BY DEF OneLiveAccess
  <2>2. Live \in SUBSET {claim}
    BY <2>1 DEF Live, AccessInv, AccessFollowsClaim
  <2>3. IsFiniteSet({claim}) /\ Cardinality({claim}) = 1
    BY FS_Singleton
  <2>4. Cardinality(Live) <= Cardinality({claim})
    BY <2>2, <2>3, FS_Subset
  <2>5. QED
    BY <2>3, <2>4
<1>4. QED
  BY <1>1, <1>2, <1>3, PTL DEF Spec

----------------------------------------------------------------------------
(* What PayPal is told.                                                    *)
AckInv == TypeInv /\ RefundsHavePayments /\ DoneIsAccounted

(* A row that is staged stays, and one that is released stays released.    *)
LEMMA QueueStays ==
  ASSUME TypeInv, [Next]_vars, NEW o \in Orders
  PROVE  /\ queue[o] # "none" => queue'[o] # "none"
         /\ queue[o] \in {"pending", "processing", "done"} =>
              queue'[o] \in {"pending", "processing", "done"}
<1> USE DEF TypeInv
<1>1. ASSUME NEW w \in Workers, NEW p \in Orders, Capture(w, p)
      PROVE  queue' = queue \/ Stage(w, p) \/ Release(w, p)
  BY <1>1 DEF Capture, CheckIntent, FindOrder, Finalize, ClaimFulfillment,
              EnsureKey, MarkCaptured, goods
<1>2. ASSUME NEW w \in Workers, NEW r \in Refunds, Refund(w, r)
      PROVE  queue' = queue
  BY <1>2 DEF Refund, RecordRefund, ExpireAccess, RevokeKeys, Settle, goods
<1>3. ASSUME NEW w \in Workers, NEW p \in Orders,
             Stage(w, p) \/ Release(w, p)
      PROVE  /\ queue[o] # "none" => queue'[o] # "none"
             /\ queue[o] \in {"pending", "processing", "done"} =>
                  queue'[o] \in {"pending", "processing", "done"}
  BY <1>3 DEF Stage, Release, TypeOK
<1>4. ASSUME NEW p \in Orders, BotTakes(p) \/ BotGrants(p)
      PROVE  /\ queue[o] # "none" => queue'[o] # "none"
             /\ queue[o] \in {"pending", "processing", "done"} =>
                  queue'[o] \in {"pending", "processing", "done"}
  BY <1>4 DEF BotTakes, BotGrants, TypeOK
<1>5. ASSUME NEW p \in Orders, IntentExpires(p)
      PROVE  queue' = queue
  BY <1>5 DEF IntentExpires, goods
<1>6. CASE UNCHANGED vars
  BY <1>6 DEF vars, goods
<1>7. QED
  BY <1>1, <1>2, <1>3, <1>4, <1>5, <1>6, EventStepMoney, EndMoney
     DEF Next, Handle, goods

(* An order that is held or handed to the recovery stays so.               *)
LEMMA HeldStays ==
  ASSUME [Next]_vars
  PROVE  held \subseteq held' /\ recovery \subseteq recovery'
<1>1. ASSUME NEW w \in Workers, NEW p \in Orders, Capture(w, p)
      PROVE  held \subseteq held' /\ recovery \subseteq recovery'
  BY <1>1 DEF Capture, CheckIntent, FindOrder, Finalize, ClaimFulfillment,
              Arbitrate, Stage, EnsureKey, Release, MarkCaptured, goods
<1>2. ASSUME NEW w \in Workers, NEW r \in Refunds, Refund(w, r)
      PROVE  held \subseteq held' /\ recovery \subseteq recovery'
  BY <1>2 DEF Refund, RecordRefund, ExpireAccess, RevokeKeys, Settle, goods
<1>3. ASSUME NEW p \in Orders,
             IntentExpires(p) \/ BotTakes(p) \/ BotGrants(p)
      PROVE  held \subseteq held' /\ recovery \subseteq recovery'
  BY <1>3 DEF IntentExpires, BotTakes, Arbitrate, BotGrants, goods
<1>4. CASE UNCHANGED vars
  BY <1>4 DEF vars, goods
<1>5. QED
  BY <1>1, <1>2, <1>3, <1>4, EventStepMoney, EndMoney
     DEF Next, Handle, goods

(* A refunded order stays refunded: its payment exists, so that no capture *)
(* completes it again.                                                     *)
LEMMA RefundStays ==
  ASSUME TypeInv, RefundsHavePayments, [Next]_vars, NEW o \in Orders,
         order[o] = "refunded"
  PROVE  order'[o] = "refunded"
<1> USE DEF TypeInv
<1>1. ASSUME NEW w \in Workers, NEW p \in Orders, Capture(w, p)
      PROVE  order'[o] = "refunded"
  <2>1. CASE Finalize(w, p)
    BY <2>1 DEF Finalize, RefundsHavePayments, TypeOK
  <2>2. CASE ~Finalize(w, p)
    BY <1>1, <2>2
       DEF Capture, CheckIntent, FindOrder, ClaimFulfillment, Stage,
           EnsureKey, Release, MarkCaptured, money
  <2>3. QED
    BY <2>1, <2>2
<1>2. ASSUME NEW w \in Workers, NEW r \in Refunds, Refund(w, r)
      PROVE  order'[o] = "refunded"
  BY <1>2 DEF Refund, RecordRefund, ExpireAccess, RevokeKeys, Settle, money,
              TypeOK
<1>3. ASSUME NEW p \in Orders,
             IntentExpires(p) \/ BotTakes(p) \/ BotGrants(p)
      PROVE  order'[o] = "refunded"
  BY <1>3 DEF IntentExpires, BotTakes, BotGrants, money
<1>4. CASE UNCHANGED vars
  BY <1>4 DEF vars, money
<1>5. QED
  BY <1>1, <1>2, <1>3, <1>4, EventStepMoney, EndMoney
     DEF Next, Handle, money

LEMMA AccountedStays ==
  ASSUME TypeInv, RefundsHavePayments, [Next]_vars, NEW o \in Orders,
         Accounted(o)
  PROVE  Accounted(o)'
<1>1. CASE queue[o] \in {"pending", "processing", "done"}
  BY <1>1, QueueStays DEF Accounted
<1>2. CASE o \in held \/ o \in recovery
  BY <1>2, HeldStays DEF Accounted
<1>3. CASE order[o] = "refunded"
  BY <1>3, RefundStays DEF Accounted
<1>4. QED
  BY <1>1, <1>2, <1>3 DEF Accounted

(* A handler of a capture reaches its last steps only when the capture is  *)
(* accounted for, and those of the licence only when its row is there.     *)
LEMMA HandlersAccount ==
  ASSUME AckInv, [Next]_vars, NEW w \in Workers, NEW o \in Orders,
         run'[w].event = o
  PROVE  /\ run'[w].at \in {"mark", "finish"} => Accounted(o)'
         /\ run'[w].at \in {"key", "release"} => queue'[o] # "none"
<1> USE DEF AckInv, TypeInv
<1> DEFINE Good == /\ run'[w].at \in {"mark", "finish"} => Accounted(o)'
                   /\ run'[w].at \in {"key", "release"} => queue'[o] # "none"
<1>1. ASSUME run'[w].event = run[w].event, run'[w].at = run[w].at
      PROVE  Good
  BY <1>1, AccountedStays, QueueStays DEF DoneIsAccounted
<1>2. ASSUME run'[w].at \in {"check", "record", "idle", "fail"}
      PROVE  Good
  BY <1>2
<1>3. ASSUME NEW e \in Events,
             Deliver(e) \/ Duplicate(e) \/ Replay(e) \/ Abandon(e)
      PROVE  Good
  <2>1. CASE Deliver(e)
    <3>1. \/ run'[w].at \in {"check", "record"}
          \/ run'[w].event = run[w].event /\ run'[w].at = run[w].at
      BY <2>1, StartEffect, WebhookAssumption DEF Deliver
    <3>2. QED
      BY <1>1, <1>2, <3>1
  <2>2. CASE Replay(e)
    <3>1. faults' \in 0..MaxFaults
      BY <2>2, WebhookAssumption DEF Replay, TypeOK
    <3>2. \/ run'[w].at \in {"check", "record"}
          \/ run'[w].event = run[w].event /\ run'[w].at = run[w].at
      BY <2>2, <3>1, StartEffect DEF Replay
    <3>3. QED
      BY <1>1, <1>2, <3>2
  <2>3. CASE Duplicate(e) \/ Abandon(e)
    BY <1>1, <2>3 DEF Duplicate, Abandon
  <2>4. QED
    BY <1>3, <2>1, <2>2, <2>3
<1>4. ASSUME NEW v \in Workers, Handle(v) \/ Fault(v), v # w
      PROVE  Good
  BY <1>1, <1>4, HandlerFrame
<1>5. CASE Succeed(w) \/ Fail(w) \/ Fault(w)
  <2>1. run'[w].at \in {"idle", "fail"}
    BY <1>5 DEF Succeed, Fail, Fault, Complete, Go, Idle, TypeOK
  <2>2. QED
    BY <1>2, <2>1
<1>6. ASSUME NEW p \in Orders, Capture(w, p)
      PROVE  Good
  <2>1. p = o /\ run[w].event = o
    BY <1>6, HandlerFrame, WebhookAssumption
       DEF Handle, Capture, CheckIntent, FindOrder, Finalize,
           ClaimFulfillment, Stage, EnsureKey, Release, MarkCaptured, At, Go,
           TypeOK
  <2>2. CASE CheckIntent(w, o)
    BY <2>2 DEF CheckIntent, Go, TypeOK
  <2>3. CASE FindOrder(w, o)
    BY <2>3 DEF FindOrder, Go, TypeOK, Accounted
  <2>4. CASE Finalize(w, o)
    BY <2>4 DEF Finalize, Go, TypeOK, Accounted
  <2>5. CASE ClaimFulfillment(w, o)
    BY <2>5 DEF ClaimFulfillment, Arbitrate, Go, TypeOK, Accounted
  <2>6. CASE Stage(w, o)
    BY <2>6 DEF Stage, Go, TypeOK
  <2>7. CASE EnsureKey(w, o)
    <3>1. queue[o] # "none"
      BY <2>1, <2>7 DEF EnsureKey, At, DoneIsAccounted
    <3>2. queue' = queue /\ run'[w].at \in {"fail", "release"}
      BY <2>7 DEF EnsureKey, Go, TypeOK
    <3>3. QED
      BY <3>1, <3>2
  <2>8. CASE Release(w, o)
    <3>1. queue[o] # "none"
      BY <2>1, <2>8 DEF Release, At, DoneIsAccounted
    <3>2. queue'[o] \in {"pending", "processing", "done"}
      BY <2>8, <3>1 DEF Release, TypeOK
    <3>3. run'[w].at = "mark"
      BY <2>8 DEF Release, Go, TypeOK
    <3>4. QED
      BY <3>2, <3>3 DEF Accounted
  <2>9. CASE MarkCaptured(w, o)
    <3>1. Accounted(o)'
      BY <2>1, <2>9, AccountedStays DEF MarkCaptured, At, DoneIsAccounted
    <3>2. run'[w].at \in {"fail", "finish"}
      BY <2>9 DEF MarkCaptured, Go, TypeOK
    <3>3. QED
      BY <3>1, <3>2
  <2>10. QED
    BY <1>6, <2>1, <2>2, <2>3, <2>4, <2>5, <2>6, <2>7, <2>8, <2>9
       DEF Capture
<1>7. ASSUME NEW r \in Refunds, Refund(w, r)
      PROVE  Good
  <2>1. run'[w].event = r
    BY <1>7 DEF Refund, RecordRefund, ExpireAccess, RevokeKeys, Settle, At,
                Go, TypeOK
  <2>2. QED
    BY <2>1, WebhookAssumption
<1>8. ASSUME NEW p \in Orders,
             IntentExpires(p) \/ BotTakes(p) \/ BotGrants(p)
      PROVE  Good
  BY <1>1, <1>8 DEF IntentExpires, BotTakes, BotGrants
<1>9. CASE UNCHANGED vars
  BY <1>1, <1>9 DEF vars
<1>10. Good
  BY <1>3, <1>4, <1>5, <1>6, <1>7, <1>8, <1>9 DEF Next, Handle
<1>11. QED
  BY <1>10

(* Who is acknowledged, or succeeds, was already done, or its handler was. *)
LEMMA NewlyDone ==
  ASSUME AckInv, [Next]_vars, NEW o \in Orders,
         o \in acked' \/ result'[o] = "success"
  PROVE  \/ o \in acked \/ result[o] = "success"
         \/ \E w \in Workers : run[w].event = o /\ run[w].at = "finish"
<1> USE DEF AckInv, TypeInv
<1>1. ASSUME NEW e \in Events,
             Deliver(e) \/ Duplicate(e) \/ Replay(e) \/ Abandon(e)
      PROVE  o \in acked \/ result[o] = "success"
  BY <1>1, WebhookAssumption
     DEF Deliver, Duplicate, Replay, Abandon, TypeOK, Events
<1>2. ASSUME NEW w \in Workers, Succeed(w)
      PROVE  \/ o \in acked \/ result[o] = "success"
             \/ run[w].event = o /\ run[w].at = "finish"
  <2>1. run[w].at # "idle" /\ run[w].event \in Events /\ o \in Events
    BY <1>2 DEF Succeed, BusyHasEvent, Events
  <2>2. QED
    BY <1>2, <2>1, CompleteEffect DEF Succeed
<1>3. ASSUME NEW w \in Workers, Fail(w)
      PROVE  o \in acked \/ result[o] = "success"
  <2>1. run[w].at # "idle" /\ run[w].event \in Events /\ o \in Events
    BY <1>3 DEF Fail, BusyHasEvent, Events
  <2>2. QED
    BY <1>3, <2>1, CompleteEffect DEF Fail
<1>4. ASSUME UNCHANGED events
      PROVE  o \in acked \/ result[o] = "success"
  BY <1>4 DEF events
<1>5. ASSUME NEW w \in Workers, NEW p \in Orders, Capture(w, p)
      PROVE  UNCHANGED events
  BY <1>5 DEF Capture, CheckIntent, FindOrder, Finalize, ClaimFulfillment,
              Stage, EnsureKey, Release, MarkCaptured
<1>6. ASSUME NEW w \in Workers, NEW r \in Refunds, Refund(w, r)
      PROVE  UNCHANGED events
  BY <1>6 DEF Refund, RecordRefund, ExpireAccess, RevokeKeys, Settle
<1>7. ASSUME NEW w \in Workers, Fault(w)
      PROVE  UNCHANGED events
  BY <1>7 DEF Fault
<1>8. ASSUME NEW p \in Orders,
             IntentExpires(p) \/ BotTakes(p) \/ BotGrants(p)
      PROVE  UNCHANGED events
  BY <1>8 DEF IntentExpires, BotTakes, BotGrants
<1>9. CASE UNCHANGED vars
  BY <1>4, <1>9 DEF vars
<1>10. QED
  BY <1>1, <1>2, <1>3, <1>4, <1>5, <1>6, <1>7, <1>8, <1>9 DEF Next, Handle

LEMMA AckKept ==
  ASSUME AckInv, [Next]_vars
  PROVE  DoneIsAccounted'
<1>1. ASSUME NEW o \in Orders, o \in acked' \/ result'[o] = "success"
      PROVE  Accounted(o)'
  <2>1. Accounted(o)
    BY <1>1, NewlyDone DEF AckInv, DoneIsAccounted
  <2>2. QED
    BY <2>1, AccountedStays DEF AckInv
<1>2. QED
  BY <1>1, HandlersAccount DEF DoneIsAccounted

(* PayPal is told 200 for a capture only once the money is accounted for.  *)
THEOREM WebhookAcked == Spec => []AckedCaptureNotLost
<1>1. Init => AckInv
  BY WebhookTypeInit
     DEF Init, AckInv, TypeInv, BusyHasEvent, Idle, RefundsHavePayments,
         DoneIsAccounted, Events
<1>2. AckInv /\ [Next]_vars => AckInv'
  BY TypeKept, RefundsHavePaymentsKept, AckKept DEF AckInv
<1>3. AckInv => AckedCaptureNotLost
  BY DEF AckInv, DoneIsAccounted, Accounted, AckedCaptureNotLost
<1>4. QED
  BY <1>1, <1>2, <1>3, PTL DEF Spec
=============================================================================
