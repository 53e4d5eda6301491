# Verification of SomniBot

TLA+ models of the parts of SomniBot whose correctness rests on the order in
which concurrent actors take their steps, TLC configurations that check them on
small instances, and TLAPS proofs about the core of them. Paths are relative to
the repository; `bot/` stands for `src/packages/bot/src/` and `migrations/` for
`src/packages/supabase/migrations/`.

## 1. The system

SomniBot is a Discord bot (`packages/bot`), a Next.js dashboard
(`packages/dashboard`), an Electron launcher (`packages/launcher`), a licence SDK
(`packages/license-sdk`) and a Postgres schema of 300 migrations
(`packages/supabase`). The processes share no memory. They meet in the database:
the dashboard and the webhooks insert rows, the bot is woken by Realtime or by
timers, and nearly every state change that matters is one PL/pgSQL function,
called through PostgREST, that compares and swaps on a token.

| component | state | operations | what is hard | what makes it correct |
|---|---|---|---|---|
| Durable action queue: `bot/services/action-queue.ts`, `bot_action_queue*` functions | rows with status, claim token, retry count, backoff; the dead-letter table; alerts; audit entries | insert, release staged, claim, retry, finish, defer, recover stale, retry or reopen a dead letter | four paths dispatch the same row; slow workers outlive their claim; crashes and lost answers anywhere | one owner per claim, bounded retries, final verdicts, visible failures, every row settles |
| Commerce outward delivery: `bot/services/commerce-outward.ts`, `commerce_*_outward_*` functions | a generation bound to a row, an intent per message (sending, sent, uncertain), an attempt token | bind, begin, dispatch, finish, classify, hold | Discord is not transactional: a send that throws may have arrived | a customer gets a receipt at most once; unknown is held for an operator, never guessed |
| Lane scheduler and listener: `bot/services/action-queue-lanes.ts`, end of `action-queue.ts` | slots and FIFO waiters per lane, retry timers, background promises | run, schedule, close, drain, sweep, stop | slots handed to continuations that run later; stop while sweeps and timers go on | slots neither leak nor double; commerce not starved; quiet after stop |
| Runtime lease: `bot/services/runtime-lease.ts`, `20260802020000_runtime_lease.sql` | one row with holder, session, expiry; a heartbeat timer per process | claim, heartbeat, release, lose | two clocks start at different ends of one RPC | one runtime on the gateway |
| Deploy requests: `bot/deploy/*`, `20260823053000_deploy_request_claim.sql` | one lifecycle row per guild, a claim with a lease, a heartbeat per execution | request, claim, renew, settle, fail interrupted | an executor that lost its lease keeps writing to Discord; a claim meets an earlier execution | one writer per guild, one execution per request, no request lost |
| Guild router: `bot/guild-router.ts` | contexts, initialisations, removals, last access | get, remove, evict, destroy all | initialisation racing removal, eviction and shutdown; teardowns that fail half-way | one context per guild, none handed out once its teardown began, none left after a drain |
| Role delivery, paid fulfilment: `bot/services/commerce-fulfillment.ts`, `commerce_role_delivery_*` | delivery intents with mutation tokens, owned and reserved roles | reserve, mutate, confirm, clean up | relinks, refunds and grants racing on one member | no role without an entitlement, no entitlement without its role |
| PayPal webhooks and payments: `dashboard/src/app/api/paypal/webhook/*` | webhook_events, orders, payments, claims, holds, keys, entitlements, subscriptions | record, resume, replay, capture, refund | duplicates, reordering, handlers that overlap or stop half-way, refund against grant | each effect once, whatever the order; no access without the money, no money without an account of it |
| PayPal reconciliation, portal cancellation: `dashboard/src/lib/*` | operations with provider outcome | sweep, cancel, reconcile | provider and database disagree | converge to the provider |
| Occurrence fences: `bot/services/occurrence-fence.ts` | a fence row per occurrence with a generation | reserve, create, adopt, release | a stalled creator meets the recovery that replaced it | one Discord object per occurrence |
| Automations, mass-action holds, scheduled messages: `bot/features/*` | executions, holds with leases, occurrences | claim, renew, complete, resume | leases and sentinels that expire under a slow owner | each action of an occurrence once |
| Economy, market, lottery, heist, giveaways | balances, escrow, rounds, entries | claim, pay, finalise | the three are separate calls | money is conserved |
| Sync engine and drift | desired state, drift details | batch, flush, repair | read and write around an await | no drift lost |
| Boot, shutdown, configuration, features, licence SDK, launcher | mostly one call each | | | |

The parts interact in three ways: rows of `bot_action_queue` (dashboard,
webhooks, giveaways and the entitlement triggers produce; the bot consumes), the
runtime lease (the launcher or a VPS may start a second bot), and in-process
calls (the listener feeds the lanes, the lanes call `processAction`, the receipt
handler calls `runCommerceOutwardIntent`).

`PROJECT.json` lists the components with their status and, under "hazards", what
is hard to test in each at the line where it bites.

## 2. Modules

| module | models | kind |
|---|---|---|
| `ActionQueue` | the queue rows, their RPCs, the invocations of `processAction` and the receipt's outward intent | specification |
| `ReceiptContract` | what a customer and an operator are promised about a receipt | abstract specification |
| `MCActionQueue` | symmetry for TLC | model |
| `ActionQueueProofs`, `ActionQueueSafety`, `ActionQueueDelivery` | theorems, each module extending the one before | proofs |
| `LaneScheduler` | the lane semaphore, sweeps, retry timers and `stop()` | specification |
| `LaneSchedulerProofs` | its theorems | proofs |
| `RuntimeLease` | the lease row, its RPCs in flight, the runtimes and time | specification |
| `RuntimeLeaseProofs` | its theorems | proofs |
| `DeployRequest` | the deployment row of a guild, its RPCs, the executions of each bot process and time | specification |
| `DeployContract` | what the operator of a guild is promised about its deployments | abstract specification |
| `DeployRequestProofs` | its theorems | proofs |
| `GuildRouter` | the contexts of the guilds, calls, teardowns, eviction and drain | specification |
| `GuildRouterProofs` | its theorems | proofs |
| `PayPalWebhook` | webhook events and their handlers, orders, payments, fulfilment claims, and the bot's grant | specification |
| `PayPalWebhookProofs` | its theorems | proofs |

A definition that precedes another and whose name continues its name
(`ClaimKeepingToken` before `Claim`) is a faulty variant. No behaviour uses it;
substituted for the original it breaks the property `PROJECT.json` names under
"mutants", which shows that the property depends on that piece of code.

### ActionQueue

A step is one database transaction, one effect on Discord, or one decision of an
invocation between two awaits.

State and code:

- `row[a]` is a row of `bot_action_queue` with, for a receipt, its generation
  (`bound`) and its `receipt_dm` intent (`intent`, `attempt`). Times become the
  two facts the code asks of them: `parked` (`next_retry_at` is in the future)
  and `stale` (`started_at` is more than 300 s old). A token is a number; the
  field `claims` counts the tokens minted, so a new one was never used before,
  as with `gen_random_uuid()`.
- `worker[w]` is an invocation of `processAction`: the await it is at, the row,
  the token and retry count its claim returned, and the outcome so far.
- `dlq`, `alerted`, `audit` are what `action_queue_dlq`, `alerts` and
  `audit_logs` say about each row. `delivered` is what Discord did, which the
  program cannot see.

Actions and code:

- `Insert`, `ReleaseStaged`, `RetryDeadLetter`, `ReopenDeadLetter`: producers and
  the operator. `bot_action_queue_retry_dlq` clones a dead letter into a fresh
  row, except for relink carriers, whose own row is reopened.
- `Claim`: `bot_action_queue_claim`. Realtime, sweeps, retry timers and recovery
  all supply a candidate id only, so the dispatch is the choice of the row.
- `HandlerReturns`, `HandlerDefers`, `PrepareFails`, `BindGeneration`,
  `BeginOutward`, `Dispatch`, `FinishOutward`: the handler. Handlers without
  outward evidence are one step with any outcome; the receipt handler is modelled
  RPC by RPC, with every answer lost, malformed or late.
- `RetryClaim`, `FinishClaim`, `WriteAudit`: the rest of `processAction`. The
  functions `AfterRetry`, `AfterFinish`, `AfterRecovery` are the SQL wrappers
  that let the outward evidence (`Classify`) override the handler; `Held` is
  `commerce_hold_action_outward_uncertain`.
- `RecoverStale`: one transaction over all stale rows, as in
  `bot_action_queue_recover_stale`.
- `BecomeStale`, `BackoffElapses`: time. `GiveUp`: an RPC of `processAction`
  fails or its answer is lost, and the invocation returns. `Crash`: the process
  dies with all its invocations.

A live invocation and recovery are not exclusive: a worker that takes more than
300 s loses its row and goes on. For a row without outward evidence the handler
may then run twice at the same time; the queue is at-least-once there, by design.

### LaneScheduler

`task[t]` is a call of `LaneScheduler.run`. `Enter` is `acquire`, `Leave` is
`release`, which hands the slot to the first waiter without freeing it: the
waiter is "granted" until its continuation runs (`Begin`). `TimerFires` is the
timer of `schedule`. `SweepStart`, `SweepTake`, `SweepAdvance`, `SweepEnd` are the
sweeps the listener tracks, which await one row after the other; the minute
interval starts new ones whatever the old ones do. `Stop` closes the scheduler
and then waits for the background work and the drain, in the code's order.

### RuntimeLease

The lease row holds the time it has left, each runtime the time since its last
success and until its next heartbeat, each RPC its age; `Tick` moves them all.
`ServeClaim`, `ServeHeartbeat`, `ServeRelease` are the SQL functions;
`ClaimReturns`, `HeartbeatReturns` the code after the await; `Lose` is a call that
fails before or after it was executed. `TimerFires` asks for the loss first and
sends the next heartbeat otherwise, as the interval callback does. `Login`,
`Signal`, `Disconnect`, `Release`, `Crash` are the parts of `index.ts` and
`bot-shutdown.ts` that put a runtime on the gateway and take it off.

### DeployRequest

State and code: `current`, `status` and `claim` are the lifecycle columns of
`guild_desired_state` for one guild (`status` also remembers the verdict on each
earlier request, which the row forgets). `answers` are claims granted by the
database and not yet seen by the process. `exec[p][r]` is a call of
`executeClaimedDeployment` with its heartbeat: the await the body is at, the
renewal in flight, who asked for it and how long ago, and whether the heartbeat
has aborted. `announced` is the terminal audit entry and event; `runs` is history.

- `Request`, `Claim`, `ServeRenewal`, `Settle`, `FailInterrupted` are the five SQL
  functions. The row found by Realtime, by the event bus or by the recovery pass
  differs in one thing, whether the pass waits for it (`swept`).
- `ClaimReturns` starts an execution, or drops the claim because `deployStatuses`
  says that one is running (`Busy`); `ClaimRefused` is a malformed row or a guild
  the bot cannot see, `ClaimLost` an error.
- `AskRenewal`, `RenewalReturns`, `RenewalFails` are `verify`: the body calls it
  before each fenced write and the interval at any time; the chain of promises
  lets one renewal run at a time. An answer later than 90 s aborts.
- `WriteEnds`, `Abort`, `HeartbeatStops`, `Settles`, `SettlesFatally`, `Announce`
  are the body: writes, the catch block, the two settlements, audit and events.
- `Crash` ends all of a process; `Tick` is 30 s.
- `KeepsDeployContract` maps a requested or running row to an open request (`Verdict`),
  the executions at a fenced write to the writers (`Writers`), and `runs` and
  `announced` to what was started and told. Claims, renewals that begin no write and
  the clock are stuttering steps of `DeployContract`.

### GuildRouter

A step is the code from one await to the next, since JavaScript runs to completion
in between.

State and code: `joined` is `client.guilds.cache`; `due` are the guilds the boot
loop or `guildCreate`, the only callers of `getContext`, have yet to ask for.
`context`, `starting` and `removing` are the three maps of the router, with what
became of the services (`half` is a teardown that threw); `starting` counts
initialisations, so that a second one would show. `access` is `lastAccess` against
`IDLE_TIMEOUT_MS`, `drain` is `destroyAllInProgress`, `calls[c]` a call of
`getContext` and the context it was given.

- `GetContext` and `Resume` are the two ways into the part of `getContext` after its
  wait for a teardown (`Enter`): at once, or when the teardown ends, behind the
  second check of `acceptingContexts`.
- `Publish` and `InitFails` are the end of the promise of an initialisation; the
  context is kept before the fence decides whether its callers get it.
- `Remove` is `remove` up to its first await, shared by `Leave` (`guildDelete`),
  `EvictIdle` and `DrainTakes`; `StopInitialised`, `RemoveEnds`, `RemoveFails` are
  the rest of it.
- `DestroyAll`, `DrainTakes`, `DrainEnds` are the three stretches of `destroyAll`; one
  that failed opens the router again, with the eviction timer gone.

### PayPalWebhook

A step is one call of a handler to the database; a PL/pgSQL function is one
transaction. All orders are paid orders of one customer for one product, the case in
which they compete.

State and code: `result` and `token` are the row of `webhook_events`; `order`,
`payment`, `totals`, `intent`, `claim`, `held`, `queue`, `key`, `access`, `recovery`
are the tables, reduced to the columns the handlers ask for, and `witness` the
terminal row of the refund ledger. `run[w]` is a running handler: its event, its next
call, its replay token, whether it has found a payment (`known`), and whether PayPal
still waits for its answer (`heard`).

- `Deliver` takes a new, a failed or a stale unfinished event; `Duplicate` answers one
  that succeeded; `Replay` and `Abandon` are the operator's, with the token that fences
  them; `Succeed` and `Fail` write the result; `Fault` is a call that fails or a
  process that ends.
- `CheckIntent` to `MarkCaptured` are `handlePaymentCaptured` in the order of its calls;
  `RecordRefund` to `Settle` are `handleExternalPaymentRefunded`.
- `Arbitrate` (`Wins`, `Releasable`) is `commerce_claim_paid_fulfillment`, called by the
  webhook and again by the bot.
- `BotTakes` and `BotGrants` are the part of `handleOneTimePurchase` that touches the
  order, the claim and the entitlement; the queue around it is `ActionQueue`'s.

## 3. Runs

| run | instance | distinct states | shows |
|---|---|---|---|
| `action_queue` | a receipt and a carrier, 2 workers, 1 handler retry, budget 1, 1 deferral, 1 fault | 156 193 | exclusive claims, at most one delivery, evidence before reports, audit, every row settles |
| `action_queue_receipts` | 2 receipts, 2 workers, 1 handler retry, budget 2, 2 faults, symmetry | 520 054 | visible failure, refinement of `ReceiptContract`, cloned dead letters |
| `action_queue_carriers` | 1 carrier, 2 workers, budget 2, 2 deferrals, 2 reopenings, 2 faults | 105 056 | budget and verdicts under an operator's reopening, settlement |
| `lane_scheduler` | 5 tasks, 2 of them commerce, 2 swept, 2 sweeps, budget 1 | 429 647 | slots, order, starvation, `stop()` |
| `runtime_lease` | 2 sessions, units of 2.5 s: TTL 18, heartbeat 4, deadline 14, round trip at most 1 | 934 778 | one runtime on the gateway, within its lease |
| `runtime_lease_slow_reply` | the same with round trips of up to 3 units | | counterexample, see section 6 |
| `deploy_requests` | 2 requests, 2 processes, units of 30 s: lease 4, window 3, a write at most 1; up to 2 writes | 1 310 465 | one execution per request, writes within the lease, final verdicts, true announcements, refinement of `DeployContract` |
| `deploy_settles` | 2 requests, 1 process | 69 959 | every request reaches a verdict |
| `deploy_dropped` | 2 requests, 1 process | | counterexample, see section 6 |
| `guild_router` | 2 guilds, one of them primary, 2 callers, 2 departures, 1 fault | 103 816 | one context per guild, publication fence, drain, a failed teardown is tried again |
| `paypal_webhook` | 2 orders, one with a licence key and an intent that may expire, the refund of that order, 2 handlers, 1 fault | 174 994 | one live access, nothing kept after a refund, money counted once, no acknowledged capture lost, refunds and captures take effect |
| `paypal_expired_intent` | 1 order, 1 handler, 2 faults | | counterexample, see section 6 |

Bounds and why they are enough. Two workers suffice for every conflict of claims:
the guards compare an invocation with the row, never three invocations.
Rows interact only through cloning and the single recovery transaction, so two
rows reach all of it. The budgets are smaller than the code's (3 and 5) but keep
their order, `HandlerMaxRetries <= MaxRetries`, and the handler's own budget is
exhausted before the database's in the instances where it is smaller; the theorems
hold for all values. `MaxFaults` counts crashes and lost answers; a failed RPC of
the receipt handler needs no fault because it is a case of those actions.
`MaxDefers` and `MaxReopens` bound what the code does not bound. With one slot per
lane, two commerce tasks and three game tasks fill and queue in both lanes. In
`RuntimeLease` the ratios of the three times are those of the code; two sessions
are the two bots that could meet, and a third could only claim when one of them
could. In `DeployRequest` two requests are a stale execution and its successor; a
third would meet the second as the second meets the first. `MaxCall` is an
assumption: the code fences the start of a write, so a write that takes longer
than the lease less the window (120 s less 90 s) may outlive the claim, and
`DeployAssumption` says how long it may be. One process is enough for
`EventuallySettled`, which has to cope with its crash: more processes only add
ways to recover. `GuildRouter`: two callers are enough for one that starts an
initialisation or a teardown and one that meets it; guilds share nothing but the
drain, and the theorems hold for any number; two departures let a guild leave,
rejoin and leave again. `PayPalWebhook`: two orders are a winner and a loser, and the
refund of one frees the claim for the other; two handlers are the slow one and the
one that overtakes it. `MaxFaults` is shared by crashes, failed calls, overlaps,
replays and expiries, so the run has each of them alone with every interleaving of
the rest; the counterexample needs two, a failure and an expiry.

Fairness. `ActionQueue`: the minute interval keeps recovering and sweeping
(`WF(RecoverStale)`, `WF` of a claim per row), a promise a handler awaits settles
(`WF(Step(w))`), and time passes (`WF(BecomeStale)`, `WF(BackoffElapses)`).
Producers, operators and faults owe nothing. Weak fairness of claims is enough
because the retry budget bounds how often a row can leave and re-enter "pending".
`LaneScheduler`: continuations run, timers fire, sweeps go on and commerce
handlers settle; game handlers owe nothing, which is the point of
`CommerceNotStarved`. `StopResolves` adds that they settle, since the code gives
handlers no timeout. `RuntimeLease` has no liveness property. `DeployRequest`: time
passes, the recovery interval of a process runs again and again (it claims what
is requested and fails what is interrupted), and calls and continuations end; a
renewal the body waits for is granted strong fairness because the chain of
promises serves it in its turn. How a call ends is left open: all may fail. `GuildRouter`:
promises settle, the eviction interval fires while it is set, time passes, and the
boot loop and `guildCreate` make their calls; leaving, joining, failing and shutting
down owe nothing. `PayPalWebhook`: PayPal repeats an event until it is answered 200,
and strong fairness of the delivery says that it now and then finds the event
unclaimed and a handler free; handlers and the queue of the bot make progress. The
operator and the faults owe nothing.

Deadlock is not checked: the systems may rest (every row settled, a scheduler
stopped, every session gone), or, in `DeployRequest`, wait for a write.

## 4. Proofs

Every specification of section 2 that is not abstract has its theorems: all 32
properties of the passing runs that are not liveness properties, invariants, action
properties and the refinements of `ReceiptContract` and `DeployContract`, are proved for every value of the
constants. What is left to TLC is named at the end of this section.

The theorems of the first three modules are about `Spec` of `ActionQueue` for any
finite or infinite sets of rows and workers and any values of the bounds that satisfy `QueueAssumption`
(receipts and carriers are disjoint sets of rows, the handler's retry budget is
at most the database's).

- `ActionQueueProofs`, `TypeCorrect`: type correctness. The lemmas say what each
  action does to one row (`ClaimEffect`, `BeginEffect`, `RecoveryEffect`, ...) and
  what the three settlements of a row can be (`SettlementCases`, `SettledRow`);
  everything later cites them instead of the definitions.
- `ActionQueueSafety`: `StepEndures` is the frame of the model (only a claim mints
  a token or starts an invocation; every other step continues one or ends it).
  `ClaimsAreExclusive` (`OneOwner`) is not inductive: it needs `Tokens`, that an
  invocation's token is at most the number of tokens minted for its row and that
  two invocations of one row have different ones. `VerdictsAreFinal`
  (`VerdictIsFinal`) follows because every transition asks for a processing row.
  `RetriesAreBounded` (`RetryBudget`) needs `Budget`: claims are paid for by
  retries and deferrals, an invocation with the live claim knows the row's retry
  count, and one about to retry is below the handler's budget. `FailuresAreVisible`
  (`FailureIsVisible`) is inductive as it stands; `FailureStep` is the step: a row
  becomes failed only in a transaction whose dead letters and alerts name it, and
  nothing unrecords them. `AuditIsTheVerdict` (`AuditAgrees`) needs `AuditTrail`: of
  a row no operator reopened, a written verdict is final, and an invocation about to
  write one is the only one, has the row's verdict, and finds none written. Without
  the last part a second invocation could write "twice".
- `ActionQueueDelivery`: the invariant `Delivery` joins the evidence of a row
  (an absent intent means nothing was sent, sent means exactly one message) with
  the errand of each invocation (one that may still send holds the attempt and is
  the only one). From it `DeliveredAtMostOnce`, `VerdictsFollowEvidence`,
  `UnresolvedStaysOut`, and, step by step in `ContractStep`, the refinement
  `QueueKeepsReceiptContract`.

- `GuildRouterProofs`, about `Spec` of `GuildRouter` for any sets of guilds and
  callers: the inductive invariant `RouterInv` adds to type correctness and
  `OneContextPerGuild` that a teardown and the services it stops keep step
  (`TeardownInStep`: a stopping context has its teardown, a guild without a context
  none that stops) and that a drain holds the router closed and has taken every
  context there is (`DrainInStep`). One lemma per action. From it `RouterTypeOK`,
  `RouterOneContext`, `RouterDrains` (`DrainLeavesNothing`) and
  `RouterHandsOutKept` (`HandedOutIsKept`).
- `PayPalWebhookProofs`, about `Spec` of `PayPalWebhook` for a finite set of orders and
  any refunds, handlers, replayable events and numbers of faults. `WebhookTypeOK` adds
  that a busy handler has an event (`BusyHasEvent`); `WebhookRefunds`
  (`RefundedHasNothing`) needs no more. `WebhookMoney` (`MoneyCountedOnce`) needs
  `RefundsHavePayments`, that a refund under way and a refunded order have a payment:
  without it settling a refund would create one that the totals do not count.
  `WebhookOneAccess` (`OneLiveAccess`) follows from `AccessFollowsClaim`: live access,
  and a grant the bot has begun, belong to the winner of the claim, and arbitration
  moves the claim only when there is neither. `WebhookAcked` (`AckedCaptureNotLost`)
  needs `DoneIsAccounted`: a handler past the release of the outbox row, a successful
  event and an acknowledged one are accounted for, which no later step undoes.
  A finite number of orders is what counting them takes.
- `DeployRequestProofs`, about `Spec` of `DeployRequest` for any requests, processes and
  times that satisfy `DeployAssumption` (a write is no longer than the lease less the
  safety window). `DeployTypeOK` adds `ExecutionsRegular`: at which awaits of the body a
  renewal may be in flight, and whose it is. `DeployRunsOnce` (`RunAtMostOnce`) needs
  `OneClaim`: nobody runs a request that is not claimed, a claimed request has at most
  one answer on its way and then nobody runs it yet, and at most one process runs it.
  `DeployVerdicts` (`VerdictIsFinal`) needs the types alone, since every settlement asks
  for a running row with its token. `DeployWritesWithinLease` (`WritesWithinLease`) needs
  `LeaseCovers`, that what is left of the lease and the age of a granted renewal, or the
  time a write has taken and the window, add up to the lease; here the assumption is used.
  `DeployAnnouncements` (`AnnouncementsAgree`) needs `VerdictKnown`, that an execution
  about to announce has the verdict from the row. `DeployKeepsContract`
  (`KeepsDeployContract`) is the refinement of `DeployContract`, one lemma per kind of
  step (`RenewalKeepsContract`, `BodyKeepsContract`, ...) joined in `ContractStep`. It
  joins these invariants: a writer owns the row (`LeaseCovers`) and a request has one
  execution (`OneClaim`), so there is one writer in the guild (`OneWriter`) and nobody
  else can settle its request while it writes; recovery fails a request only when the
  lease has run out, when nobody owns the row. New is `Turns`, that an open request is
  the row's and that who runs one has started it. The contract allows a start that comes
  after the verdict, as it does when recovery was faster than the answer of the claim:
  such an execution never writes.
- `RuntimeLeaseProofs`, about `Spec` of `RuntimeLease` for any sessions. `LeaseTypeOK`
  holds for all times. `LeaseGateway` (`GatewayWithinLease`) and `LeaseOneActive`
  (`OneActiveRuntime`) hold under the relation of the four times they state as their
  hypothesis, `TimelyLoss`: some multiple of the heartbeat period is at least
  the deadline plus one round trip, and more than a round trip below the lease. It is
  not an assumption of the model, because `runtime_lease_slow_reply` shows what happens
  without it. `CodeTimesFit` proves that the constants of the code satisfy it (45 s,
  10 s, 35 s) as long as round trips are shorter than 5 s; the run `runtime_lease` is
  such an instance, with round trips of 2.5 s. The inductive invariant `TimedInv` adds
  which calls can be in flight in which phase (`CallsInPhase`), that a granted call not
  yet answered has renewed the lease since it was sent (`CallsTimed`), and, for a
  runtime that still holds the lease, how many periods ago its last renewal was and what
  lease and deadline have left then (`LeaseCovers`). The clock enters only through `Tick`;
  every other action is a frame lemma.
- `LaneSchedulerProofs`, about `Spec` of `LaneScheduler` for any finite set of tasks, any
  sweeps and budget. The inductive invariant `Inv` adds that the queue of a lane lists
  its waiting tasks once each, that its counter is the number of tasks holding a slot,
  that a queue means a full lane (`LaneOK`), and what can no longer happen at each stage
  of `stop()` (`StopOK`). `ListsAppend` and `ListsTail` are the lemmas on queues. From it
  `LaneTypeOK`, `LaneSlots` (`SlotsAccounted`), `LaneQuietAfterStop` (`QuietAfterStop`)
  and `LaneNoBarging` (`NoBarging`). The queues are sequences of any length in `TypeOK`,
  and `LaneAssumption` says that the mark of a sweep that is off is no task.

The strengthenings were model-checked on the instances above before they were
proved, those of `PayPalWebhook` also with two faults (3 069 501 states), and that of
`RuntimeLease` also with a period of 2, a deadline of 5, round trips of 3 and a lease of
12, where the round trip is longer than the period.

Only model-checked: the liveness properties `EventuallySettled` (of the queue and of
deployments), `CommerceNotStarved`, `StopResolves`, `LeftGuildIsTornDown`,
`RefundTakesEffect` and `CaptureSettles`. They rest on fairness, and the proof system
supports neither fairness nor `ENABLED`. The three properties of section 6 are false and
have counterexamples.

## 5. Abstractions, and what is not modelled

- The role-delivery intents that fulfil and revoke actions carry: their handlers
  are one step with any outcome, and the answers `intent_raced` and
  `exact_carrier_required` do not occur.
- Outward kinds other than `receipt_dm`: superseded generations, event messages,
  rows of the legacy protocol.
- Two workers of one process and two processes look the same: an invocation
  belongs to no process, and a crash ends all of them.
- A handler that never settles: liveness assumes it does. The sweep the listener
  makes before it returns its handle is not modelled, nor is a second `stop()`.
- In `LaneScheduler` a task retries at most once. In `RuntimeLease` the database
  and the bots measure time at the same rate and timers are punctual.
- In `DeployRequest` a crash ends the writes of its process, although Discord may
  still carry one out; guilds are independent, except that one recovery pass
  serves them all in turn. What `deployer.ts` writes, and in which order, is not
  distinguished; an unfenced read is part of the step that follows it.
- In `GuildRouter` the services of a context are one unit. Events and `getContextSync`
  are left out: they read the map and change nothing. An initialisation that outlived
  `INIT_TIMEOUT_MS` goes on outside the router, which forgets it; so does the model.
- In `PayPalWebhook` amounts match, refunds are full, the delivery contract is known, and
  checkouts carry a v2 token. Not modelled: subscriptions, disputes, denied captures,
  partial refunds, reversals, gifts, legacy JSON identities, the approval event, licence
  sessions, the execution of a money recovery, access that ends otherwise than by the
  refund, and what the bot does after the grant. Freezing the grant snapshot is part of
  the order's lookup. The replay route checks its token once more before it starts a
  handler; a replay that loses it there ends without effect and is left out.
- Not modelled at all, and why: role delivery, PayPal reconciliation, occurrence fences,
  automations, scheduled messages, the economy, giveaways and drift are planned (section
  7). The feature modules, the dashboard's pages, the launcher, boot and configuration
  are mostly single calls without an order to get wrong.
- Contents of rows and messages, row locks (a function is atomic), and the checks
  that tie a row to its tenant.

## 6. Findings

`runtime_lease_slow_reply` shows two runtimes on the gateway. The database extends
the lease when it executes a heartbeat; the runtime takes the time of its last
success when the answer arrives (`runtime-lease.ts:76`), and compares it with 35 s
only at multiples of 10 s. If an answer takes 7.5 s and later heartbeats fail, the
check at 40 s still passes, the one at 50 s comes five seconds after the lease
expired. The margin of the three constants is 5 s: with round trips of up to 2.5 s
(`runtime_lease`) the property holds. The migration promises "One active bot
runtime per independently hosted SomniBot installation.".

`deploy_dropped` shows a claim nobody executes. An execution waits for a renewal
that takes longer than its lease; recovery fails the request and asks for an
explicit retry; the operator submits it, the same process claims it, and
`executeClaimedDeployment` returns at once because the first execution is still
marked running (`deploy-executor.ts:127`). It does not settle the claim, as it does
for a guild that is not available, so the retry stays "running" until its lease
expires and then fails with the same advice. `deploy-listener.ts:10-12` says that a
claimed request is deployed under a renewed lease and settled. Nothing is lost for
good: `deploy_settles`.

`paypal_expired_intent` shows a paid order that nothing takes care of. A capture's
handler records the payment and fails before it releases the outbox row. Its checkout
intent is still "bound", because it becomes "captured" only at the end
(`handlers.ts:2293-2302`). Forty-five minutes after the checkout, or when the customer's
next checkout cancels it, the check at the head of the handler (`handlers.ts:1881`) no
longer accepts the intent and records an incident whose reason
`commerce_record_provider_incident` refuses, so it throws, on every redelivery. The
comment at `route.ts:75-77` promises that "any partial database/queue failure resumes
the exact snapshot". `paypal_webhook` shows (`CaptureSettles`) that it does as long as
the intent has not expired.

Two more are recorded among the hazards without a run. A delivery that read no payment
and then stalls finds the order no longer pending once another delivery has completed
it, and hands a fulfilled capture to the money recovery. A first delivery that ends
during a replay writes its result whatever token the row holds.

## 7. Plan

In this order; modules marked with a star get theorems.

1. `RoleDelivery`*: delivery intents with mutation tokens and cleanup carriers,
   composed with `ActionQueue` (its handler outcomes become actions).
2. `PayPalWebhook`: subscriptions and partial refunds; `PortalCancellation`.
3. `OccurrenceFence`*, `MassActionHold`, `DriftDebouncer`: creators and recoveries
   around an await.
4. Outward kinds of cancellation and suspension in `ActionQueue`; economy
   settlement (`Heist`, `Lottery`, `Market`).
5. Proofs: an abstract specification of the gateway, with `RuntimeLease` shown to
   implement it from `TimedInv`; one of a lane, with `LaneScheduler` from `Inv`.
