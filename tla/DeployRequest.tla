--------------------------- MODULE DeployRequest ---------------------------
(***************************************************************************)
(* Server deployments of one guild: the lifecycle row of                   *)
(* guild_desired_state with its request, claim, renewal, settlement and    *)
(* interruption functions, and the bot processes that claim a request and  *)
(* execute it against Discord under a renewed lease.                       *)
(*                                                                         *)
(* A step is one database transaction, the start or the end of a call, or  *)
(* one stretch of code between two awaits.  One unit of time is 30 s.      *)
(***************************************************************************)
EXTENDS Naturals

CONSTANTS
  Requests,   (* deploy_request_id values, one per submission              *)
  NoRequest,  (* the request of a guild that never deployed                *)
  Processes,  (* bot processes                                             *)
  Lease,      (* the claim lease: 2 minutes                                *)
  Safety,     (* LEASE_LOCAL_SAFETY_WINDOW_MS: 90 s                        *)
  Writes,     (* bound: the most fenced writes of one deployment           *)
  MaxCall     (* bound: the longest fenced write                           *)

ASSUME DeployAssumption ==
  /\ NoRequest \notin Requests
  /\ Lease \in Nat
  /\ Safety \in Nat
  /\ Writes \in Nat \ {0}
  /\ MaxCall \in Nat
  /\ Safety + MaxCall <= Lease

VARIABLES
  current,    (* deploy_request_id of the row                              *)
  status,     (* deploy_status, of the row for the current request and as  *)
              (* it was left for each earlier one                          *)
  claim,      (* deploy_claim_token (0 is NULL), tokens minted so far, and *)
              (* what is left of deploy_lease_expires_at                   *)
  answers,    (* claims granted whose answer is on its way to the process  *)
  exec,       (* the executions of each process                            *)
  announced,  (* the terminal audit entry and event of each request        *)
  runs        (* history: executions started for each request              *)

vars == <<current, status, claim, answers, exec, announced, runs>>

----------------------------------------------------------------------------
(* The lifecycle row.                                                      *)

Statuses == {"idle", "requested", "running", "success", "failed"}
Settled  == {"success", "failed"}

Answer == [by : Processes, request : Requests, token : Nat, swept : BOOLEAN]

Matches(r, token) ==
  /\ current = r
  /\ status[r] = "running"
  /\ claim.token = token
  /\ claim.left > 0

SettleUnowned(r, token, ok) ==
  /\ status' = [status EXCEPT ![r] = IF ok THEN "success" ELSE "failed"]
  /\ claim' = [claim EXCEPT !.token = 0, !.left = 0]

(* settle_deploy_request, when it finds the claim alive.                   *)
Settle(r, token, ok) ==
  /\ Matches(r, token)
  /\ status' = [status EXCEPT ![r] = IF ok THEN "success" ELSE "failed"]
  /\ claim' = [claim EXCEPT !.token = 0, !.left = 0]

(* A call of settle_deploy_request; found is its answer.                   *)
SettleCall(r, token, ok, found) ==
  \/ found /\ Settle(r, token, ok)
  \/ ~found /\ ~Matches(r, token) /\ UNCHANGED <<status, claim>>

(* A call whose answer is an error, whether or not it was executed.        *)
SettleLost(r, token, ok) == Settle(r, token, ok) \/ UNCHANGED <<status, claim>>

----------------------------------------------------------------------------
(* Executions.                                                             *)

(* "verify" and "close" wait for a renewal of their own, "write" is a      *)
(* fenced write under way, "abort" waits for the heartbeat to end, and     *)
(* "fatal" is the settlement of an execution that threw.                   *)
Steps == {"idle", "verify", "write", "close", "settle", "announce",
          "abort", "fatal", "obituary"}

Execution ==
  [at      : Steps,
   token   : Nat,              \* deploy_claim_token of the claimed row
   todo    : 0..Writes,        \* fenced writes left
   ok      : BOOLEAN,          \* result.success
   broken  : BOOLEAN,          \* failure: the heartbeat aborted
   swept   : BOOLEAN,          \* awaited by recoverPendingDeploys
   renewal : {"none", "asked", "yes", "no"},
   own     : BOOLEAN,          \* the renewal in flight is the body's
   age     : 0..Safety,        \* since renewalStartedAt, up to the window
   call    : 0..MaxCall]       \* since the fenced write began

NoExecution ==
  [at |-> "idle", token |-> 0, todo |-> 0, ok |-> FALSE, broken |-> FALSE,
   swept |-> FALSE, renewal |-> "none", own |-> FALSE, age |-> 0, call |-> 0]

(* deployStatuses holds "running" for the guild.                           *)
Busy(p) ==
  \E r \in Requests :
    exec[p][r].at \in {"verify", "write", "close", "settle", "announce", "abort"}

(* recoveryInFlight: the recovery pass awaits what it claimed.             *)
Recovering(p) ==
  \/ \E r \in Requests : exec[p][r].at # "idle" /\ exec[p][r].swept
  \/ \E c \in answers : c.by = p /\ c.swept

Owns(p, r) == Matches(r, exec[p][r].token)

Set(p, r, e) == exec' = [exec EXCEPT ![p][r] = e]
Go(p, r, at) == exec' = [exec EXCEPT ![p][r].at = at]
End(p, r)    == Set(p, r, NoExecution)

----------------------------------------------------------------------------
(* The dashboard: request_server_deployment refuses while a request is     *)
(* waiting or running.                                                     *)
Request(r) ==
  /\ status[r] = "idle"
  /\ current # NoRequest => status[current] \notin {"requested", "running"}
  /\ current' = r
  /\ status' = [status EXCEPT ![r] = "requested"]
  /\ claim' = [claim EXCEPT !.token = 0, !.left = 0]
  /\ UNCHANGED <<answers, exec, announced, runs>>

Claimed(p, r) ==
  /\ status' = [status EXCEPT ![r] = "running"]
  /\ claim' = [token |-> claim.minted + 1, minted |-> claim.minted + 1, left |-> Lease]
  /\ \E swept \in BOOLEAN :
       /\ swept => ~Recovering(p)
       /\ answers' = answers \cup
            {[by |-> p, request |-> r, token |-> claim.minted + 1, swept |-> swept]}
  /\ UNCHANGED <<current, exec, announced, runs>>

ClaimExpired(p, r) ==
  /\ current = r
  /\ \/ status[r] = "requested"
     \/ status[r] = "running" /\ claim.left = 0
  /\ Claimed(p, r)

(* claim_deploy_request, for a request that Realtime, the event bus or the *)
(* recovery pass of a process found.                                       *)
Claim(p, r) ==
  /\ current = r
  /\ status[r] = "requested"
  /\ Claimed(p, r)

(* The claim is answered: executeClaimedDeployment starts, or drops it     *)
(* because a deployment of the guild is running in this process.           *)
ClaimReturns(c) ==
  /\ c \in answers
  /\ answers' = answers \ {c}
  /\ IF Busy(c.by)
     THEN UNCHANGED <<exec, runs>>
     ELSE /\ Set(c.by, c.request,
                 [NoExecution EXCEPT !.at = "verify", !.token = c.token,
                                     !.todo = Writes, !.swept = c.swept])
          /\ runs' = [runs EXCEPT ![c.request] = @ + 1]
  /\ UNCHANGED <<current, status, claim, announced>>

(* The claimed row is malformed or the guild not available: the claim is   *)
(* settled as failed.                                                      *)
ClaimRefused(c) ==
  /\ c \in answers
  /\ answers' = answers \ {c}
  /\ \/ \E found \in BOOLEAN : SettleCall(c.request, c.token, FALSE, found)
     \/ SettleLost(c.request, c.token, FALSE)
  /\ UNCHANGED <<current, exec, announced, runs>>

ClaimLost(c) ==
  /\ c \in answers
  /\ answers' = answers \ {c}
  /\ UNCHANGED <<current, status, claim, exec, announced, runs>>

----------------------------------------------------------------------------
(* The heartbeat.  Renewals of an execution are chained, one at a time: the*)
(* body asks for one before every fenced write and before it settles, the  *)
(* interval for others at any time.                                        *)

AskRenewal(p, r, own) ==
  LET e == exec[p][r] IN
  /\ e.at \in {"verify", "close"} \cup (IF own THEN {} ELSE {"write"})
  /\ ~e.broken
  /\ e.renewal = "none"
  /\ Set(p, r, [e EXCEPT !.renewal = "asked", !.own = own, !.age = 0])
  /\ UNCHANGED <<current, status, claim, answers, announced, runs>>

(* renew_deploy_request_claim.                                             *)
ServeRenewal(p, r) ==
  LET e == exec[p][r] IN
  /\ e.renewal = "asked"
  /\ Set(p, r, [e EXCEPT !.renewal = IF Owns(p, r) THEN "yes" ELSE "no"])
  /\ claim' = IF Owns(p, r) THEN [claim EXCEPT !.left = Lease] ELSE claim
  /\ UNCHANGED <<current, status, answers, announced, runs>>

AfterVerify(e) == IF e.at = "verify" THEN "write" ELSE "settle"

RenewalReturnsLate(p, r) ==
  LET e == exec[p][r] IN
  /\ e.renewal = "yes"
  /\ \E ok \in BOOLEAN :
       Set(p, r, [e EXCEPT !.renewal = "none", !.own = FALSE, !.age = 0, !.call = 0,
                           !.ok = IF e.at = "close" /\ e.own THEN ok ELSE FALSE,
                           !.at = IF e.own THEN AfterVerify(e) ELSE e.at])
  /\ UNCHANGED <<current, status, claim, answers, announced, runs>>

(* The renewal was granted and its answer is within the safety window: the *)
(* body goes on to its write, or with the outcome to the settlement.       *)
RenewalReturns(p, r) ==
  LET e == exec[p][r] IN
  /\ e.renewal = "yes"
  /\ e.age < Safety
  /\ \E ok \in BOOLEAN :
       Set(p, r, [e EXCEPT !.renewal = "none", !.own = FALSE, !.age = 0,
                           !.ok = e.at = "close" /\ e.own /\ ok,
                           !.at = IF e.own THEN AfterVerify(e) ELSE e.at])
  /\ UNCHANGED <<current, status, claim, answers, announced, runs>>

(* The renewal was refused, failed, or came too late: the heartbeat aborts.*)
RenewalFails(p, r) ==
  LET e == exec[p][r] IN
  /\ e.renewal # "none"
  /\ Set(p, r, [e EXCEPT !.renewal = "none", !.own = FALSE, !.age = 0, !.broken = TRUE])
  /\ UNCHANGED <<current, status, claim, answers, announced, runs>>

----------------------------------------------------------------------------
(* The body.                                                               *)

WriteEndsOffByOne(p, r) ==
  LET e == exec[p][r] IN
  /\ e.at = "write"
  /\ Set(p, r, [e EXCEPT !.at = IF e.todo > 0 THEN "verify" ELSE "close",
                         !.todo = e.todo - 1, !.call = 0])
  /\ UNCHANGED <<current, status, claim, answers, announced, runs>>

(* A fenced write ends, and it may have been the last: a deployment that   *)
(* fails its preflight has few.  A Discord error is collected in the       *)
(* result, a thrown one or an aborted heartbeat ends the deployment.       *)
WriteEnds(p, r) ==
  LET e == exec[p][r] IN
  /\ e.at = "write"
  /\ \E next \in {"verify", "close", "abort"} :
       /\ next = "verify" => e.todo > 1
       /\ Set(p, r, [e EXCEPT !.at = next, !.todo = e.todo - 1, !.call = 0])
  /\ UNCHANGED <<current, status, claim, answers, announced, runs>>

Abort(p, r) ==
  /\ exec[p][r].broken
  /\ exec[p][r].at \in {"verify", "close"}
  /\ Go(p, r, "abort")
  /\ UNCHANGED <<current, status, claim, answers, announced, runs>>

(* heartbeat.stop() awaits the renewal in flight.                          *)
HeartbeatStops(p, r) ==
  /\ exec[p][r].at = "abort"
  /\ exec[p][r].renewal = "none"
  /\ Go(p, r, "fatal")
  /\ UNCHANGED <<current, status, claim, answers, announced, runs>>

SettlesUnchecked(p, r) ==
  /\ exec[p][r].at = "settle"
  /\ SettleLost(r, exec[p][r].token, exec[p][r].ok)
  /\ Go(p, r, "announce")
  /\ UNCHANGED <<current, answers, announced, runs>>

(* The terminal settlement: announced if it found the claim, silent if it  *)
(* did not, and an error if the answer is lost.                            *)
Settles(p, r) ==
  LET e == exec[p][r] IN
  /\ e.at = "settle"
  /\ \/ SettleCall(r, e.token, e.ok, TRUE) /\ Go(p, r, "announce")
     \/ SettleCall(r, e.token, e.ok, FALSE) /\ End(p, r)
     \/ SettleLost(r, e.token, e.ok) /\ Go(p, r, "abort")
  /\ UNCHANGED <<current, answers, announced, runs>>

SettlesFatally(p, r) ==
  LET e == exec[p][r] IN
  /\ e.at = "fatal"
  /\ \/ SettleCall(r, e.token, FALSE, TRUE) /\ Go(p, r, "obituary")
     \/ SettleCall(r, e.token, FALSE, FALSE) /\ End(p, r)
     \/ SettleLost(r, e.token, FALSE) /\ End(p, r)
  /\ UNCHANGED <<current, answers, announced, runs>>

(* deploy.completed, deploy.failed or deploy.fatal.                        *)
Announce(p, r) ==
  LET e == exec[p][r] IN
  /\ e.at \in {"announce", "obituary"}
  /\ announced' = [announced EXCEPT ![r] =
       @ \cup {IF e.at = "announce" /\ e.ok THEN "success" ELSE "failed"}]
  /\ End(p, r)
  /\ UNCHANGED <<current, status, claim, answers, runs>>

----------------------------------------------------------------------------
(* Recovery, faults and time.                                              *)

FailUnclaimed(p) ==
  /\ current # NoRequest
  /\ ~Recovering(p)
  /\ status[current] = "running"
  /\ claim.token = 0
  /\ status' = [status EXCEPT ![current] = "failed"]
  /\ UNCHANGED <<current, claim, answers, exec, announced, runs>>

FailInterruptedEarly(p) ==
  /\ current # NoRequest
  /\ ~Recovering(p)
  /\ status[current] = "running"
  /\ status' = [status EXCEPT ![current] = "failed"]
  /\ claim' = [claim EXCEPT !.token = 0, !.left = 0]
  /\ UNCHANGED <<current, answers, exec, announced, runs>>

(* fail_interrupted_deploy_requests, from the recovery pass of a process.  *)
FailInterrupted(p) ==
  /\ current # NoRequest
  /\ ~Recovering(p)
  /\ status[current] = "running"
  /\ claim.left = 0
  /\ status' = [status EXCEPT ![current] = "failed"]
  /\ claim' = [claim EXCEPT !.token = 0]
  /\ UNCHANGED <<current, answers, exec, announced, runs>>

Crash(p) ==
  /\ exec' = [exec EXCEPT ![p] = [r \in Requests |-> NoExecution]]
  /\ answers' = {c \in answers : c.by # p}
  /\ UNCHANGED <<current, status, claim, announced, runs>>

Aged(e) ==
  [e EXCEPT !.age  = IF e.renewal # "none" /\ e.age < Safety THEN e.age + 1 ELSE e.age,
            !.call = IF e.at = "write" THEN e.call + 1 ELSE e.call]

(* Time passes, but no fenced write takes longer than MaxCall.             *)
Tick ==
  /\ \A p \in Processes, r \in Requests :
       exec[p][r].at = "write" => exec[p][r].call < MaxCall
  /\ claim' = [claim EXCEPT !.left = IF claim.left = 0 THEN 0 ELSE claim.left - 1]
  /\ exec' = [p \in Processes |-> [r \in Requests |-> Aged(exec[p][r])]]
  /\ UNCHANGED <<current, status, answers, announced, runs>>

----------------------------------------------------------------------------
Init ==
  /\ current = NoRequest
  /\ status = [r \in Requests |-> "idle"]
  /\ claim = [token |-> 0, minted |-> 0, left |-> 0]
  /\ answers = {}
  /\ exec = [p \in Processes |-> [r \in Requests |-> NoExecution]]
  /\ announced = [r \in Requests |-> {}]
  /\ runs = [r \in Requests |-> 0]

Renew(p, r) ==
  \/ ServeRenewal(p, r)
  \/ RenewalReturns(p, r)
  \/ RenewalFails(p, r)

Body(p, r) ==
  \/ WriteEnds(p, r)
  \/ Abort(p, r)
  \/ HeartbeatStops(p, r)
  \/ Settles(p, r)
  \/ SettlesFatally(p, r)
  \/ Announce(p, r)

Returns(c) == ClaimReturns(c) \/ ClaimRefused(c) \/ ClaimLost(c)

Next ==
  \/ \E r \in Requests : Request(r)
  \/ \E p \in Processes, r \in Requests :
       \/ Claim(p, r) \/ Renew(p, r) \/ Body(p, r)
       \/ \E own \in BOOLEAN : AskRenewal(p, r, own)
  \/ \E c \in answers : Returns(c)
  \/ \E p \in Processes : FailInterrupted(p) \/ Crash(p)
  \/ Tick

Spec == Init /\ [][Next]_vars

(***************************************************************************)
(* Fairness: time passes; the recovery interval of some process keeps      *)
(* running; calls are answered and code after an await runs; the body gets *)
(* its turn in the chain of renewals, which is first in, first out.  Which *)
(* way a call ends, the dashboard and crashes owe nothing.                 *)
(***************************************************************************)
Fairness ==
  /\ WF_vars(Tick)
  /\ \A r \in Requests : WF_vars(\E p \in Processes : Claim(p, r))
  /\ WF_vars(\E p \in Processes : FailInterrupted(p))
  /\ WF_vars(\E c \in answers : Returns(c))
  /\ \A p \in Processes, r \in Requests :
       /\ WF_vars(Renew(p, r))
       /\ WF_vars(Body(p, r))
       /\ SF_vars(AskRenewal(p, r, TRUE))

FairSpec == Spec /\ Fairness

----------------------------------------------------------------------------
(* What the lifecycle promises.                                            *)

TypeOK ==
  /\ current \in Requests \cup {NoRequest}
  /\ status \in [Requests -> Statuses]
  /\ claim \in [token : Nat, minted : Nat, left : 0..Lease]
  /\ answers \subseteq Answer
  /\ exec \in [Processes -> [Requests -> Execution]]
  /\ announced \in [Requests -> SUBSET Settled]
  /\ runs \in [Requests -> Nat]

(* A deployment is executed at most once: no crash, lost answer or expired *)
(* lease makes the bot repeat a request, which may delete what was built.  *)
RunAtMostOnce == \A r \in Requests : runs[r] <= 1

(* Every fenced write, from its start to its end, happens while its        *)
(* execution owns the running request under an unexpired lease.            *)
WritesWithinLease ==
  \A p \in Processes, r \in Requests : exec[p][r].at = "write" => Owns(p, r)

(* The verdict on a request is final: a late settlement or recovery never  *)
(* revises it, nor touches the request that came after it.                 *)
VerdictIsFinal ==
  [][\A r \in Requests : status[r] \in Settled => status'[r] = status[r]]_vars

(* What is announced of a deployment is what the dashboard reads, and it is*)
(* announced after the fact.                                               *)
AnnouncementsAgree == \A r \in Requests : announced[r] \subseteq {status[r]}

Verdict(r) ==
  CASE status[r] = "idle"                     -> "none"
    [] status[r] \in {"requested", "running"} -> "open"
    [] OTHER                                  -> status[r]

Writers == {r \in Requests : \E p \in Processes : exec[p][r].at = "write"}

Contract == INSTANCE DeployContract
              WITH verdict <- [r \in Requests |-> Verdict(r)],
                   started <- runs,
                   writing <- Writers,
                   told <- announced

(* Claims, leases, renewals and recovery implement what the operator of a  *)
(* guild may rely on: deployments one after the other, each started once,  *)
(* and a verdict only when no write of it is under way.                    *)
KeepsDeployContract == Contract!Spec

(* Every request reaches a verdict, whatever becomes of its executor.      *)
EventuallySettled ==
  \A r \in Requests : (status[r] = "requested") ~> (status[r] \in Settled)

(* "Deployer runs while renewing the claim lease": a granted claim that is *)
(* answered is executed.                                                   *)
ClaimedIsRun ==
  [][\A c \in answers : ClaimReturns(c) => exec'[c.by][c.request].token = c.token]_vars
=============================================================================
