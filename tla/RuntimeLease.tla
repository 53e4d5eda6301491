---------------------------- MODULE RuntimeLease ----------------------------
(***************************************************************************)
(* The lease that keeps one bot runtime active per installation: the       *)
(* runtime_leases row with its claim, heartbeat and release RPCs, and the  *)
(* runtimes that claim it, renew it on a timer and leave Discord when they *)
(* could not renew it for too long.                                        *)
(*                                                                         *)
(* Time is relative: every timer holds what is left of it, so the state    *)
(* space is finite without a clock.  One unit is 2.5 seconds.              *)
(***************************************************************************)
EXTENDS Naturals

CONSTANTS
  Sessions,      (* process incarnations, each with its own session_id     *)
  NoSession,     (* the holder of an absent lease row                      *)
  TTL,           (* TTL_SECONDS: 45 s                                      *)
  HeartbeatPeriod, (* HEARTBEAT_MS: 10 s                                   *)
  LossDeadline,  (* LOSS_DEADLINE_MS: 35 s                                 *)
  MaxDelay       (* bound: the longest round trip of an RPC                *)

ASSUME LeaseAssumption ==
  /\ NoSession \notin Sessions
  /\ TTL \in Nat \ {0}
  /\ HeartbeatPeriod \in Nat \ {0}
  /\ LossDeadline \in Nat \ {0}
  /\ MaxDelay \in Nat

VARIABLES
  lease,    (* the primary-bot row: its session and the time it has left   *)
  runtime,  (* the processes                                               *)
  calls     (* RPCs on their way to the database or back                   *)

vars == <<lease, runtime, calls>>

Phases == {"down", "claiming", "starting", "connected", "stopping",
           "disconnected", "gone"}

(* Phases in which the interval timer of acquireRuntimeLease runs.         *)
Holding == {"starting", "connected", "stopping", "disconnected"}

(* A runtime is on the Discord gateway until client.destroy().             *)
Gateway == {"connected", "stopping"}

Runtime == [phase : Phases,
            since : 0..LossDeadline,    \* now() - lastSuccess, up to the deadline
            due   : 0..HeartbeatPeriod, \* until the interval timer fires
            lost  : BOOLEAN]            \* lossReported

Call == [by     : Sessions,
         op     : {"claim", "heartbeat", "release"},
         age    : 0..MaxDelay,
         answer : {"none", "yes", "no"}]

OnGateway(s) == runtime[s].phase \in Gateway

Free == lease.holder = NoSession \/ lease.left = 0

Ask(s, o) == [by |-> s, op |-> o, age |-> 0, answer |-> "none"]
Answered(c, yes) == [c EXCEPT !.answer = IF yes THEN "yes" ELSE "no"]
Answer(c, yes) == calls' = (calls \ {c}) \cup {Answered(c, yes)}

Go(s, p) == runtime' = [runtime EXCEPT ![s].phase = p]

----------------------------------------------------------------------------
(* The database.                                                           *)

(* claim_somnibot_runtime: insert the row, or take over an expired one.    *)
ServeClaim(c) ==
  /\ c.op = "claim"
  /\ lease' = IF Free THEN [holder |-> c.by, left |-> TTL] ELSE lease
  /\ Answer(c, Free)

ServeHeartbeatExtending(c) ==
  /\ c.op = "heartbeat"
  /\ LET ok == lease.holder = c.by /\ lease.left > 0 IN
       /\ lease' = IF ok THEN [lease EXCEPT !.left = @ + TTL] ELSE lease
       /\ Answer(c, ok)

(* heartbeat_somnibot_runtime: only the session that holds an unexpired    *)
(* lease renews it.                                                        *)
ServeHeartbeat(c) ==
  /\ c.op = "heartbeat"
  /\ LET ok == lease.holder = c.by /\ lease.left > 0 IN
       /\ lease' = IF ok THEN [lease EXCEPT !.left = TTL] ELSE lease
       /\ Answer(c, ok)

ServeReleaseByName(c) ==
  /\ c.op = "release"
  /\ lease' = [holder |-> NoSession, left |-> 0]
  /\ calls' = calls \ {c}

(* release_somnibot_runtime; nobody awaits more than its end.              *)
ServeRelease(c) ==
  /\ c.op = "release"
  /\ lease' = IF lease.holder = c.by THEN [holder |-> NoSession, left |-> 0] ELSE lease
  /\ calls' = calls \ {c}

Serve(c) ==
  /\ c.answer = "none"
  /\ ServeClaim(c) \/ ServeHeartbeat(c) \/ ServeRelease(c)
  /\ UNCHANGED runtime

----------------------------------------------------------------------------
(* A runtime.                                                              *)

Start(s) ==
  /\ runtime[s].phase = "down"
  /\ Go(s, "claiming")
  /\ calls' = calls \cup {Ask(s, "claim")}
  /\ UNCHANGED lease

(* The answer to the claim: the interval timer starts, or the boot fails.  *)
ClaimReturns(c) ==
  /\ c.op = "claim"
  /\ runtime' = IF runtime[c.by].phase # "claiming" THEN runtime
                ELSE [runtime EXCEPT ![c.by] =
                       IF c.answer = "yes"
                       THEN [phase |-> "starting", since |-> 0,
                             due |-> HeartbeatPeriod, lost |-> FALSE]
                       ELSE [@ EXCEPT !.phase = "gone"]]

(* lastSuccess is the time the answer arrives, not the time of the renewal.*)
HeartbeatReturns(c) ==
  /\ c.op = "heartbeat"
  /\ runtime' = IF c.answer = "yes"
                THEN [runtime EXCEPT ![c.by].since = 0] ELSE runtime

Receive(c) ==
  /\ c.answer # "none"
  /\ ClaimReturns(c) \/ HeartbeatReturns(c)
  /\ calls' = calls \ {c}
  /\ UNCHANGED lease

(* A request or its answer is lost: the claim throws, a heartbeat logs.    *)
Lose(c) ==
  /\ calls' = calls \ {c}
  /\ IF c.op = "claim" /\ runtime[c.by].phase = "claiming"
     THEN Go(c.by, "gone") ELSE UNCHANGED runtime
  /\ UNCHANGED lease

TimerFiresBlindly(s) ==
  /\ runtime[s].phase \in Holding
  /\ runtime[s].due = 0
  /\ UNCHANGED lease
  /\ runtime' = [runtime EXCEPT ![s].due = HeartbeatPeriod]
  /\ calls' = calls \cup {Ask(s, "heartbeat")}

(* The interval timer: past the deadline onLost destroys the client once   *)
(* and starts the graceful shutdown; otherwise a heartbeat is sent.        *)
TimerFires(s) ==
  /\ runtime[s].phase \in Holding
  /\ runtime[s].due = 0
  /\ UNCHANGED lease
  /\ IF ~runtime[s].lost /\ runtime[s].since >= LossDeadline
     THEN /\ runtime' = [runtime EXCEPT ![s].due = HeartbeatPeriod,
                                        ![s].lost = TRUE,
                                        ![s].phase = "disconnected"]
          /\ UNCHANGED calls
     ELSE /\ runtime' = [runtime EXCEPT ![s].due = HeartbeatPeriod]
          /\ calls' = calls \cup {Ask(s, "heartbeat")}

Login(s) ==
  /\ runtime[s].phase = "starting"
  /\ Go(s, "connected")
  /\ UNCHANGED <<lease, calls>>

(* SIGINT or SIGTERM: guild services drain before the gateway is left.     *)
Signal(s) ==
  /\ runtime[s].phase \in {"starting", "connected"}
  /\ Go(s, "stopping")
  /\ UNCHANGED <<lease, calls>>

Disconnect(s) ==
  /\ runtime[s].phase = "stopping"
  /\ Go(s, "disconnected")
  /\ UNCHANGED <<lease, calls>>

(* The last step of a shutdown, and of a boot whose login failed.          *)
Release(s) ==
  /\ runtime[s].phase \in {"starting", "disconnected"}
  /\ Go(s, "gone")
  /\ calls' = calls \cup {Ask(s, "release")}
  /\ UNCHANGED lease

(* The process dies; its RPCs may still be served.                         *)
Crash(s) ==
  /\ runtime[s].phase \in Holding \cup {"claiming"}
  /\ Go(s, "gone")
  /\ UNCHANGED <<lease, calls>>

----------------------------------------------------------------------------
Less(n) == IF n = 0 THEN 0 ELSE n - 1

(* Time passes.  Timers fire on time, and no RPC takes longer than         *)
(* MaxDelay from its sending to its answer.                                *)
Tick ==
  /\ \A s \in Sessions : runtime[s].phase \in Holding => runtime[s].due > 0
  /\ \A c \in calls : c.age < MaxDelay
  /\ lease' = [lease EXCEPT !.left = Less(@)]
  /\ runtime' = [s \in Sessions |->
       IF runtime[s].phase \in Holding
       THEN [runtime[s] EXCEPT !.due = @ - 1,
                               !.since = IF @ < LossDeadline THEN @ + 1 ELSE @]
       ELSE runtime[s]]
  /\ calls' = {[c EXCEPT !.age = @ + 1] : c \in calls}

Init ==
  /\ lease = [holder |-> NoSession, left |-> 0]
  /\ runtime = [s \in Sessions |-> [phase |-> "down", since |-> 0, due |-> 0, lost |-> FALSE]]
  /\ calls = {}

Next ==
  \/ \E c \in calls : Serve(c) \/ Receive(c) \/ Lose(c)
  \/ \E s \in Sessions : \/ Start(s) \/ TimerFires(s) \/ Login(s)
                         \/ Signal(s) \/ Disconnect(s) \/ Release(s) \/ Crash(s)
  \/ Tick

Spec == Init /\ [][Next]_vars

----------------------------------------------------------------------------
(* What the lease promises.                                                *)

TypeOK ==
  /\ lease \in [holder : Sessions \cup {NoSession}, left : 0..TTL]
  /\ runtime \in [Sessions -> Runtime]
  /\ calls \subseteq Call

(* One active bot runtime per installation: never two on the gateway.      *)
OneActiveRuntime ==
  \A s, t \in Sessions : (OnGateway(s) /\ OnGateway(t)) => s = t

(* A runtime leaves the gateway before its lease lapses, and no release,   *)
(* heartbeat or claim of another session takes the row from under it.      *)
GatewayWithinLease ==
  \A s \in Sessions : OnGateway(s) => lease.holder = s /\ lease.left > 0
=============================================================================
