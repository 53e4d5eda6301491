--------------------------- MODULE PayPalWebhook ---------------------------
(***************************************************************************)
(* The PayPal webhook of the dashboard for one-time purchases: deliveries, *)
(* redeliveries and operator replays of capture and refund events, each    *)
(* run by a handler that other handlers overlap, up to the bot's grant of  *)
(* the access that was paid for.                                           *)
(*                                                                         *)
(* A step is one database call of a handler; a database function is one    *)
(* transaction.  The orders are orders of one customer for one product.    *)
(***************************************************************************)
EXTENDS Integers, FiniteSets

CONSTANTS
  Orders,      (* paid orders; an order also names its capture event       *)
  Licensed,    (* orders with delivery_type_snapshot license_key           *)
  Expirable,   (* orders whose checkout intent may expire                  *)
  Target,      (* the order whose payment is refunded                      *)
  Refunds,     (* PAYMENT.CAPTURE.REFUNDED events of Target, each of the   *)
               (* whole payment                                            *)
  Workers,     (* handlers that can run at once                            *)
  Replayed,    (* events an operator may replay                            *)
  MaxFaults    (* bound: handlers that crash, fail at a call or are slow,  *)
               (* replays, and checkout intents that expire                *)

Events  == Orders \cup Refunds
NoOrder == "no order"
NoEvent == "no event"

ASSUME WebhookAssumption ==
  /\ IsFiniteSet(Orders) /\ NoOrder \notin Orders
  /\ Licensed \subseteq Orders /\ Expirable \subseteq Orders
  /\ Target \in Orders /\ Orders \cap Refunds = {}
  /\ Replayed \subseteq Events
  /\ MaxFaults \in Nat

VARIABLES
  order,     (* orders.status                                              *)
  payment,   (* payments.status of the capture, or "none"                  *)
  totals,    (* customers.total_orders                                     *)
  intent,    (* commerce_checkout_intents.status, or "expired" when bound  *)
             (* past its expires_at                                        *)
  witness,   (* the refund recorded with is_terminal_event_witness         *)
  claim,     (* the winner in commerce_fulfillment_claims                  *)
  held,      (* commerce_fulfillment_holds                                 *)
  queue,     (* status of the order's fulfill_purchase row                 *)
  key,       (* license_keys.status                                        *)
  access,    (* entitlements.status                                        *)
  recovery,  (* commerce_provider_money_recovery                           *)
  result,    (* webhook_events.result, "none" without a row                *)
  token,     (* replay_claim_token, 0 for NULL                             *)
  acked,     (* events PayPal has been answered 200 for                    *)
  run,       (* what each handler runs                                     *)
  faults     (* faults so far                                              *)

money  == <<order, payment, totals, intent, witness>>
goods  == <<claim, held, queue, key, access, recovery>>
events == <<result, token, acked>>
vars   == <<money, goods, events, run, faults>>

----------------------------------------------------------------------------
(* State.                                                                  *)

CaptureSteps == {"check", "find", "finalize", "claim", "stage", "key",
                 "release", "mark"}
RefundSteps  == {"record", "expire", "revoke", "settle"}

(* heard: PayPal still waits for the answer, which it does not do for a    *)
(* replay, nor once it has delivered the event again.                      *)
(* known: the handler has found a payment of its capture.                  *)
Idle == [event |-> NoEvent, at |-> "idle", token |-> 0, heard |-> FALSE,
         known |-> FALSE]

Init ==
  /\ order = [o \in Orders |-> "pending"]
  /\ payment = [o \in Orders |-> "none"]
  /\ totals = 0
  /\ intent = [o \in Orders |-> "bound"]
  /\ witness = NoEvent
  /\ claim = NoOrder
  /\ held = {}
  /\ queue = [o \in Orders |-> "none"]
  /\ key = [o \in Orders |-> "none"]
  /\ access = [o \in Orders |-> "none"]
  /\ recovery = {}
  /\ result = [e \in Events |-> "none"]
  /\ token = [e \in Events |-> 0]
  /\ acked = {}
  /\ run = [w \in Workers |-> Idle]
  /\ faults = 0

At(w, e, step) == run[w].event = e /\ run[w].at = step

Go(w, step) == run' = [run EXCEPT ![w].at = step]

(* A handler starts on event e, with a replay's token t or 0; which of the *)
(* idle ones does not matter.                                              *)
Start(e, t) ==
  LET new == CHOOSE w \in Workers : run[w].at = "idle"
  IN  run' = [w \in Workers |->
        IF w = new
        THEN [event |-> e, at |-> IF e \in Orders THEN "check" ELSE "record",
              token |-> t, heard |-> t = 0, known |-> FALSE]
        ELSE [run[w] EXCEPT !.heard = @ /\ (run[w].event = e => t # 0)]]

SomeoneIdle == \E w \in Workers : run[w].at = "idle"

----------------------------------------------------------------------------
(* Without a replay's token, an unfinished event is stale after            *)
(* webhookStaleProcessingMs, although its handler may only be slow.        *)
Stale(e) ==
  /\ result[e] = "null" /\ token[e] = 0
  /\ LET slow == IF \E w \in Workers : run[w].event = e THEN 1 ELSE 0
     IN  faults + slow <= MaxFaults /\ faults' = faults + slow

(* POST /api/paypal/webhook: deliveries by PayPal, which repeats an event  *)
(* until it is answered 200.                                               *)
Deliver(e) ==
  /\ e \notin acked
  /\ SomeoneIdle
  /\ \/ result[e] \in {"none", "error"} /\ UNCHANGED faults
     \/ Stale(e)
  /\ result' = [result EXCEPT ![e] = "null"]
  /\ Start(e, 0)
  /\ UNCHANGED <<money, goods, token, acked>>

(* An event that succeeded meanwhile is a duplicate.                       *)
Duplicate(e) ==
  /\ e \notin acked
  /\ result[e] = "success"
  /\ acked' = acked \cup {e}
  /\ UNCHANGED <<money, goods, result, token, run, faults>>

(* POST /api/webhooks/[id]/replay: a fresh token fences the event.  A      *)
(* replay that loses its token before it starts ends there.                *)
Replay(e) ==
  /\ e \in Replayed /\ faults < MaxFaults
  /\ SomeoneIdle
  /\ result[e] # "none" /\ (result[e] = "null" => token[e] = 0)
  /\ faults' = faults + 1
  /\ result' = [result EXCEPT ![e] = "null"]
  /\ token' = [token EXCEPT ![e] = faults']
  /\ Start(e, faults')
  /\ UNCHANGED <<money, goods, acked>>

(* The operator gives up a replay: its token is released.                  *)
Abandon(e) ==
  /\ result[e] = "null" /\ token[e] # 0
  /\ result' = [result EXCEPT ![e] = "error"]
  /\ token' = [token EXCEPT ![e] = 0]
  /\ UNCHANGED <<money, goods, acked, run, faults>>

(* A handler is done: a delivery writes its result whatever the row says   *)
(* by now, a replay only under its token.                                  *)
Complete(w, outcome) ==
  LET e == run[w].event
      fenced == result[e] = "null" /\ token[e] = run[w].token
  IN  /\ IF run[w].token = 0
         THEN /\ result' = [result EXCEPT ![e] = outcome]
              /\ UNCHANGED token
         ELSE /\ result' = [result EXCEPT ![e] = IF fenced THEN outcome ELSE @]
              /\ token' = [token EXCEPT ![e] = IF fenced THEN 0 ELSE @]
      /\ acked' = acked \cup
           (IF run[w].heard /\ outcome = "success" THEN {e} ELSE {})
      /\ run' = [run EXCEPT ![w] = Idle]
      /\ UNCHANGED <<money, goods, faults>>

Succeed(w) == run[w].at = "finish" /\ Complete(w, "success")

Fail(w) == run[w].at = "fail" /\ Complete(w, "error")

(* A call of a handler fails, or its process ends.                         *)
Fault(w) ==
  /\ run[w].at \in CaptureSteps \cup RefundSteps \cup {"finish"}
  /\ faults < MaxFaults
  /\ faults' = faults + 1
  /\ \/ Go(w, "fail")
     \/ run' = [run EXCEPT ![w] = Idle]
  /\ UNCHANGED <<money, goods, events>>

----------------------------------------------------------------------------
(* handlePaymentCaptured.                                                  *)

(* The checkout identity is checked and the payment looked up.  The        *)
(* incident of an intent that has expired is refused by the database: its  *)
(* reason is not one commerce_record_provider_incident takes.              *)
CheckIntent(w, o) ==
  /\ At(w, o, "check")
  /\ IF intent[o] \in {"expired", "cancelled"}
     THEN Go(w, "fail")
     ELSE run' = [run EXCEPT ![w].at = "find",
                             ![w].known = payment[o] # "none"]
  /\ UNCHANGED <<money, goods, events, faults>>

(* Without a payment the order must still be pending; otherwise the        *)
(* capture is handed to the recovery, which refunds it.                    *)
FindOrderSilent(w, o) ==
  /\ At(w, o, "find")
  /\ Go(w, IF run[w].known \/ order[o] = "pending"
           THEN "finalize" ELSE "finish")
  /\ UNCHANGED <<money, goods, events, faults>>

FindOrder(w, o) ==
  /\ At(w, o, "find")
  /\ IF run[w].known \/ order[o] = "pending"
     THEN Go(w, "finalize") /\ UNCHANGED recovery
     ELSE Go(w, "finish") /\ recovery' = recovery \cup {o}
  /\ UNCHANGED <<money, claim, held, queue, key, access, events, faults>>

(* commerce_finalize_paypal_capture: payment, totals and order in one      *)
(* transaction, or the exact payment another handler recorded.             *)
FinalizeBlind(w, o) ==
  /\ At(w, o, "finalize")
  /\ IF ~run[w].known
     THEN /\ payment' = [payment EXCEPT ![o] = "completed"]
          /\ order' = [order EXCEPT ![o] = "completed"]
          /\ totals' = totals + 1
     ELSE UNCHANGED <<payment, order, totals>>
  /\ Go(w, IF order'[o] = "refunded" THEN "finish" ELSE "claim")
  /\ UNCHANGED <<intent, witness, goods, events, faults>>

FinalizeOnce(w, o) ==
  /\ At(w, o, "finalize")
  /\ IF payment[o] = "none"
     THEN /\ payment' = [payment EXCEPT ![o] = "completed"]
          /\ order' = [order EXCEPT ![o] = "completed"]
          /\ totals' = totals + 1
          /\ Go(w, "claim")
     ELSE Go(w, "finish") /\ UNCHANGED <<payment, order, totals>>
  /\ UNCHANGED <<intent, witness, goods, events, faults>>

Finalize(w, o) ==
  /\ At(w, o, "finalize")
  /\ IF payment[o] = "none"
     THEN /\ payment' = [payment EXCEPT ![o] = "completed"]
          /\ order' = [order EXCEPT ![o] = "completed"]
          /\ totals' = totals + 1
     ELSE UNCHANGED <<payment, order, totals>>
  /\ Go(w, IF order'[o] = "refunded" THEN "finish" ELSE "claim")
  /\ UNCHANGED <<intent, witness, goods, events, faults>>

----------------------------------------------------------------------------
(* commerce_claim_paid_fulfillment: of the paid orders of one customer and *)
(* product one is fulfilled, and the others are held.                      *)

Live == {o \in Orders : access[o] = "live"}

(* The winner no longer stands in the way of another order.                *)
Releasable(o) ==
  /\ queue[o] \notin {"staged", "pending", "processing"}
  /\ Live = {}
  /\ \/ order[o] = "refunded"
     \/ order[o] = "completed" /\ access[o] # "none"

WinsByAccess(o) == o \notin held /\ (o \in Live \/ Live = {})

Wins(o) ==
  /\ o \notin held
  /\ \/ o \in Live
     \/ Live = {} /\ (claim \in {o, NoOrder} \/ Releasable(claim))

Payable(o) == order[o] = "completed" /\ payment[o] = "completed"

Arbitrate(o) ==
  IF Wins(o)
  THEN /\ claim' = IF o \in Live /\ claim # NoOrder THEN claim ELSE o
       /\ UNCHANGED held
  ELSE held' = held \cup {o} /\ UNCHANGED claim

ClaimFulfillment(w, o) ==
  /\ At(w, o, "claim")
  /\ IF ~Payable(o)
     THEN Go(w, "fail") /\ UNCHANGED <<claim, held>>
     ELSE Arbitrate(o) /\ Go(w, IF Wins(o) THEN "stage" ELSE "finish")
  /\ UNCHANGED <<money, queue, key, access, recovery, events, faults>>

(* stageFulfillment inserts the row, or finds the one of its key.          *)
Stage(w, o) ==
  /\ At(w, o, "stage")
  /\ queue' = [queue EXCEPT ![o] = IF @ = "none" THEN "staged" ELSE @]
  /\ Go(w, IF o \in Licensed THEN "key" ELSE "release")
  /\ UNCHANGED <<money, claim, held, key, access, recovery, events, faults>>

(* ensureStagedLicenseKey: a live key needs a completed order.             *)
EnsureKey(w, o) ==
  /\ At(w, o, "key")
  /\ IF key[o] = "none" /\ order[o] = "completed"
     THEN key' = [key EXCEPT ![o] = "live"] ELSE UNCHANGED key
  /\ Go(w, IF key'[o] = "none" THEN "fail" ELSE "release")
  /\ UNCHANGED <<money, claim, held, queue, access, recovery, events, faults>>

(* bot_action_queue_release_staged.                                        *)
Release(w, o) ==
  /\ At(w, o, "release")
  /\ queue' = [queue EXCEPT ![o] = IF @ = "staged" THEN "pending" ELSE @]
  /\ Go(w, "mark")
  /\ UNCHANGED <<money, claim, held, key, access, recovery, events, faults>>

(* markCheckoutIntentCaptured takes a bound intent, past its expiry too.   *)
MarkCaptured(w, o) ==
  /\ At(w, o, "mark")
  /\ IF intent[o] = "cancelled"
     THEN Go(w, "fail") /\ UNCHANGED intent
     ELSE Go(w, "finish") /\ intent' = [intent EXCEPT ![o] = "captured"]
  /\ UNCHANGED <<order, payment, totals, witness, goods, events, faults>>

(* expires_at passes, and the customer's next checkout cancels the intent. *)
IntentExpires(o) ==
  /\ o \in Expirable
  /\ \/ /\ intent[o] = "bound" /\ faults < MaxFaults
        /\ intent' = [intent EXCEPT ![o] = "expired"]
        /\ faults' = faults + 1
     \/ /\ intent[o] = "expired"
        /\ intent' = [intent EXCEPT ![o] = "cancelled"]
        /\ UNCHANGED faults
  /\ UNCHANGED <<order, payment, totals, witness, goods, events, run>>

----------------------------------------------------------------------------
(* handleExternalPaymentRefunded.                                          *)

(* commerce_record_paypal_refund_event.  A refund of the whole payment     *)
(* fills its ledger: it becomes the terminal witness, and another one is   *)
(* refused.  A payment already refunded acknowledges its own witness.      *)
RecordRefundOnce(w, r) ==
  /\ At(w, r, "record")
  /\ IF payment[Target] = "none" \/ witness \notin {NoEvent, r}
     THEN Go(w, "fail") /\ UNCHANGED witness
     ELSE /\ witness' = r
          /\ Go(w, IF witness = r THEN "finish" ELSE "expire")
  /\ UNCHANGED <<order, payment, totals, intent, goods, events, faults>>

RecordRefund(w, r) ==
  /\ At(w, r, "record")
  /\ IF payment[Target] = "none" \/ witness \notin {NoEvent, r}
     THEN Go(w, "fail") /\ UNCHANGED witness
     ELSE /\ witness' = r
          /\ Go(w, IF payment[Target] = "refunded" THEN "finish" ELSE "expire")
  /\ UNCHANGED <<order, payment, totals, intent, goods, events, faults>>

ExpireAccess(w, r) ==
  /\ At(w, r, "expire")
  /\ access' = [access EXCEPT ![Target] = IF @ = "live" THEN "ended" ELSE @]
  /\ Go(w, "revoke")
  /\ UNCHANGED <<money, claim, held, queue, key, recovery, events, faults>>

RevokeKeysAsEnded(w, r) ==
  /\ At(w, r, "revoke")
  /\ key' = [key EXCEPT ![Target] = IF @ = "live" THEN "ended" ELSE @]
  /\ Go(w, "settle")
  /\ UNCHANGED <<money, claim, held, queue, access, recovery, events, faults>>

RevokeKeys(w, r) ==
  /\ At(w, r, "revoke")
  /\ key' = [key EXCEPT ![Target] = IF @ = "live" THEN "revoked" ELSE @]
  /\ Go(w, "settle")
  /\ UNCHANGED <<money, claim, held, queue, access, recovery, events, faults>>

(* commerce_finalize_paypal_refund_status, which the foreign keys of live  *)
(* access and live keys refuse.                                            *)
SettleUnguarded(w, r) ==
  /\ At(w, r, "settle")
  /\ order' = [order EXCEPT ![Target] = "refunded"]
  /\ payment' = [payment EXCEPT ![Target] = "refunded"]
  /\ Go(w, "finish")
  /\ UNCHANGED <<totals, intent, witness, goods, events, faults>>

Settle(w, r) ==
  /\ At(w, r, "settle")
  /\ IF access[Target] # "live" /\ key[Target] # "live"
     THEN /\ order' = [order EXCEPT ![Target] = "refunded"]
          /\ payment' = [payment EXCEPT ![Target] = "refunded"]
          /\ Go(w, "finish")
     ELSE Go(w, "fail") /\ UNCHANGED <<order, payment>>
  /\ UNCHANGED <<totals, intent, witness, goods, events, faults>>

----------------------------------------------------------------------------
(* The bot, when it claims the released row: handleOneTimePurchase reads   *)
(* the order and arbitrates once more, then grants the entitlement, which  *)
(* a foreign key refuses to an order that is not completed.                *)
BotTakes(o) ==
  /\ queue[o] = "pending"
  /\ IF ~Payable(o)
     THEN queue' = [queue EXCEPT ![o] = "done"] /\ UNCHANGED <<claim, held>>
     ELSE /\ Arbitrate(o)
          /\ queue' = [queue EXCEPT ![o] =
               IF Wins(o) THEN "processing" ELSE "done"]
  /\ UNCHANGED <<money, key, access, recovery, events, run, faults>>

BotGrants(o) ==
  /\ queue[o] = "processing"
  /\ IF access[o] = "none" /\ order[o] # "completed"
     THEN queue' = [queue EXCEPT ![o] = "pending"] /\ UNCHANGED access
     ELSE /\ queue' = [queue EXCEPT ![o] = "done"]
          /\ access' = [access EXCEPT ![o] = IF @ = "none" THEN "live" ELSE @]
  /\ UNCHANGED <<money, claim, held, key, recovery, events, run,
                 faults>>

----------------------------------------------------------------------------
Capture(w, o) ==
  \/ CheckIntent(w, o) \/ FindOrder(w, o) \/ Finalize(w, o)
  \/ ClaimFulfillment(w, o) \/ Stage(w, o) \/ EnsureKey(w, o)
  \/ Release(w, o) \/ MarkCaptured(w, o)

Refund(w, r) ==
  \/ RecordRefund(w, r) \/ ExpireAccess(w, r) \/ RevokeKeys(w, r)
  \/ Settle(w, r)

Handle(w) ==
  \/ \E o \in Orders : Capture(w, o)
  \/ \E r \in Refunds : Refund(w, r)
  \/ Succeed(w) \/ Fail(w)

Next ==
  \/ \E e \in Events : Deliver(e) \/ Duplicate(e) \/ Replay(e) \/ Abandon(e)
  \/ \E w \in Workers : Handle(w) \/ Fault(w)
  \/ \E o \in Orders : IntentExpires(o) \/ BotTakes(o) \/ BotGrants(o)

Spec == Init /\ [][Next]_vars

(* PayPal repeats an event until it is answered 200, and a handler is free *)
(* for it now and then; handlers and the bot's queue make progress.        *)
Fairness ==
  /\ \A e \in Events : SF_vars(Deliver(e) \/ Duplicate(e))
  /\ \A w \in Workers : WF_vars(Handle(w))
  /\ \A o \in Orders : WF_vars(BotTakes(o) \/ BotGrants(o))

FairSpec == Spec /\ Fairness

----------------------------------------------------------------------------
(* Every variable holds a value of its type.                               *)
TypeOK ==
  /\ order \in [Orders -> {"pending", "completed", "refunded"}]
  /\ payment \in [Orders -> {"none", "completed", "refunded"}]
  /\ totals \in Nat
  /\ intent \in [Orders -> {"bound", "expired", "cancelled", "captured"}]
  /\ witness \in Refunds \cup {NoEvent}
  /\ claim \in Orders \cup {NoOrder}
  /\ held \subseteq Orders
  /\ queue \in [Orders -> {"none", "staged", "pending", "processing", "done"}]
  /\ key \in [Orders -> {"none", "live", "revoked"}]
  /\ access \in [Orders -> {"none", "live", "ended"}]
  /\ recovery \subseteq Orders
  /\ result \in [Events -> {"none", "null", "success", "error"}]
  /\ token \in [Events -> 0..MaxFaults]
  /\ acked \subseteq Events
  /\ run \in [Workers ->
       [event : Events \cup {NoEvent}, token : 0..MaxFaults,
        heard : BOOLEAN, known : BOOLEAN,
        at : CaptureSteps \cup RefundSteps \cup {"idle", "finish", "fail"}]]
  /\ faults \in 0..MaxFaults

(* Whatever handlers overlap, the customer never has live access from two  *)
(* orders of the product: the one that loses is held.                      *)
OneLiveAccess == Cardinality(Live) <= 1

(* No handler, replay or bot leaves live access or a live key behind an    *)
(* order that has been refunded, nor revives them.                         *)
RefundedHasNothing ==
  \A o \in Orders :
    order[o] = "refunded" => access[o] # "live" /\ key[o] # "live"

(* A capture is counted once, however many handlers work on it.            *)
MoneyCountedOnce ==
  totals = Cardinality({o \in Orders : payment[o] # "none"})

(* PayPal is told 200 for a capture only once the money is accounted for:  *)
(* the purchase is on its way to the bot, or held, refunded or handed to   *)
(* the recovery.                                                           *)
AckedCaptureNotLost ==
  \A o \in Orders \cap acked :
    \/ queue[o] \in {"pending", "processing", "done"}
    \/ o \in held \/ o \in recovery \/ order[o] = "refunded"

(* Once a refund of the payment is recorded the order loses its access and *)
(* becomes refunded, unless a replay of the refund is left unfinished.     *)
RefundTakesEffect ==
  witness # NoEvent ~>
    order[Target] = "refunded" \/ \E r \in Refunds : token[r] # 0

(* A capture whose payment is recorded is fulfilled, held or refunded in   *)
(* the end, however many handlers fail meanwhile, as long as its checkout  *)
(* intent has not expired and no replay is left unfinished.                *)
CaptureSettles ==
  \A o \in Orders :
    payment[o] # "none" ~>
      \/ queue[o] = "done" \/ o \in held \/ order[o] = "refunded"
      \/ intent[o] \in {"expired", "cancelled"} \/ token[o] # 0

(* "any partial database/queue failure resumes": a capture whose payment   *)
(* is recorded is fulfilled, held or refunded in the end.                  *)
PartialFailureResumes ==
  \A o \in Orders :
    payment[o] # "none" ~>
      queue[o] = "done" \/ o \in held \/ order[o] = "refunded"
============================================================================
