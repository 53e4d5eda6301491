------------------------ MODULE DeployRequestProofs ------------------------
(***************************************************************************)
(* Proofs about deployments, for any requests and processes and any times  *)
(* that satisfy DeployAssumption.                                          *)
(***************************************************************************)
EXTENDS DeployRequest, TLAPS

(* How the parts of an execution go together: the body waits for renewals  *)
(* of its own only before a write and before it settles, and no renewal    *)
(* outlives the heartbeat.                                                 *)
Regular(e) ==
  /\ e.at \in {"verify", "write"} => e.todo > 0
  /\ e.at # "write" => e.call = 0
  /\ e.at \in {"idle", "settle", "announce", "fatal", "obituary"}
       => e.renewal = "none"
  /\ e.own => e.at \in {"verify", "close"} /\ e.renewal # "none"
  /\ e.broken => e.renewal = "none"

ExecutionsRegular == \A p \in Processes, r \in Requests : Regular(exec[p][r])

Runs(p, r) == exec[p][r].at # "idle"

(* Nobody has executed r yet, nor is about to.                             *)
Fresh(r) ==
  /\ runs[r] = 0
  /\ \A p \in Processes : ~Runs(p, r)

(* A request has one claim, whose answer starts its one execution.         *)
OneClaim ==
  /\ \A r \in Requests : runs[r] <= 1
  /\ \A r \in Requests :
       status[r] \in {"idle", "requested"} =>
         Fresh(r) /\ \A c \in answers : c.request # r
  /\ \A c \in answers : Fresh(c.request)
  /\ \A c, d \in answers : c.request = d.request => c = d
  /\ \A p, q \in Processes, r \in Requests :
       Runs(p, r) /\ Runs(q, r) => p = q

(* A renewal that was granted, and is not late yet, still holds for the    *)
(* rest of the safety window; a write had that much left when it began.    *)
Covered(p, r) ==
  LET e == exec[p][r]
  IN  /\ e.renewal = "yes" /\ e.age < Safety =>
           Owns(p, r) /\ claim.left + e.age >= Lease
      /\ e.at = "write" =>
           Owns(p, r) /\ claim.left + e.call + Safety > Lease

LeaseCovers == \A p \in Processes, r \in Requests : Covered(p, r)

(* Who is about to announce a verdict has it from the row.                 *)
Known(p, r) ==
  /\ exec[p][r].at = "announce" =>
       status[r] = IF exec[p][r].ok THEN "success" ELSE "failed"
  /\ exec[p][r].at = "obituary" => status[r] = "failed"

VerdictKnown == \A p \in Processes, r \in Requests : Known(p, r)

----------------------------------------------------------------------------
(* Executions one at a time.                                               *)

Others(p, r) ==
  \A q \in Processes, s \in Requests :
    q # p \/ s # r => exec'[q][s] = exec[q][s]

LEMMA SetEffect ==
  ASSUME TypeOK, NEW p \in Processes, NEW r \in Requests,
         NEW e \in Execution, Set(p, r, e)
  PROVE  /\ exec' \in [Processes -> [Requests -> Execution]]
         /\ exec'[p][r] = e
         /\ Others(p, r)
<1>1. exec \in [Processes -> [Requests -> Execution]]
  BY DEF TypeOK
<1>2. exec' = [exec EXCEPT ![p] = [exec[p] EXCEPT ![r] = e]]
  BY <1>1 DEF Set
<1>3. [exec[p] EXCEPT ![r] = e] \in [Requests -> Execution]
  BY <1>1
<1>4. QED
  BY <1>1, <1>2, <1>3 DEF Others

LEMMA SetGives ==
  ASSUME TypeOK, NEW p \in Processes, NEW r \in Requests, NEW e,
         Set(p, r, e)
  PROVE  exec'[p][r] = e
  BY DEF TypeOK, Set

LEMMA GoEffect ==
  ASSUME TypeOK, NEW p \in Processes, NEW r \in Requests, NEW at \in Steps,
         Go(p, r, at)
  PROVE  /\ Set(p, r, [exec[p][r] EXCEPT !.at = at])
         /\ [exec[p][r] EXCEPT !.at = at] \in Execution
<1>1. exec[p][r] \in Execution
  BY DEF TypeOK
<1>2. QED
  BY <1>1 DEF Go, Set, TypeOK, Execution

LEMMA ZeroTyped == 0 \in 0..Safety /\ 0 \in 0..MaxCall
  BY DeployAssumption

LEMMA NoExecutionTyped ==
  NoExecution \in Execution /\ Regular(NoExecution)
  BY DeployAssumption DEF NoExecution, Execution, Regular, Steps

(* What the renewals and the body of an execution change: nobody else's    *)
(* execution, no claim answer and no count.                                *)
Moves(p, r) ==
  /\ exec' \in [Processes -> [Requests -> Execution]]
  /\ Regular(exec'[p][r])
  /\ Others(p, r)
  /\ Runs(p, r)
  /\ UNCHANGED <<current, answers, runs>>

LEMMA RenewalMoves ==
  ASSUME TypeOK, ExecutionsRegular, NEW p \in Processes, NEW r \in Requests,
         \/ Renew(p, r)
         \/ \E own \in BOOLEAN : AskRenewal(p, r, own)
  PROVE  Moves(p, r) /\ UNCHANGED <<status, announced>>
<1> DEFINE e == exec[p][r]
<1>1. e \in Execution /\ Regular(e)
  BY DEF TypeOK, ExecutionsRegular
<1> HIDE DEF e
<1>2. ASSUME NEW f \in Execution, Regular(f), e.at # "idle", Set(p, r, f),
             UNCHANGED <<current, answers, runs>>
      PROVE  Moves(p, r)
  BY <1>2, SetEffect DEF Moves, Runs, e
<1>3. ASSUME NEW own \in BOOLEAN, AskRenewal(p, r, own)
      PROVE  Moves(p, r)
  <2> DEFINE f == [e EXCEPT !.renewal = "asked", !.own = own, !.age = 0]
  <2>1. f \in Execution
    BY <1>1, ZeroTyped DEF Execution
  <2>2. Regular(f) /\ e.at # "idle"
    BY <1>1, <1>3 DEF AskRenewal, Regular, Execution, e
  <2>3. Set(p, r, f)
    BY <1>3 DEF AskRenewal, e
  <2>4. QED
    BY <1>2, <1>3, <2>1, <2>2, <2>3 DEF AskRenewal
<1>4. CASE ServeRenewal(p, r)
  <2> DEFINE f == [e EXCEPT !.renewal = IF Owns(p, r) THEN "yes" ELSE "no"]
  <2>1. f \in Execution
    BY <1>1, ZeroTyped DEF Execution
  <2>2. Regular(f) /\ e.at # "idle"
    BY <1>1, <1>4 DEF ServeRenewal, Regular, Execution, e
  <2>3. Set(p, r, f)
    BY <1>4 DEF ServeRenewal, e
  <2>4. QED
    BY <1>2, <1>4, <2>1, <2>2, <2>3 DEF ServeRenewal
<1>5. CASE RenewalReturns(p, r)
  <2>1. PICK ok \in BOOLEAN :
          Set(p, r, [e EXCEPT !.renewal = "none", !.own = FALSE, !.age = 0,
                              !.ok = e.at = "close" /\ e.own /\ ok,
                              !.at = IF e.own THEN AfterVerify(e) ELSE e.at])
    BY <1>5 DEF RenewalReturns, e
  <2> DEFINE f == [e EXCEPT !.renewal = "none", !.own = FALSE, !.age = 0,
                            !.ok = e.at = "close" /\ e.own /\ ok,
                            !.at = IF e.own THEN AfterVerify(e) ELSE e.at]
  <2>2. f \in Execution
    BY <1>1, ZeroTyped DEF Execution, Steps, AfterVerify
  <2>3. e.renewal = "yes"
    BY <1>5 DEF RenewalReturns, e
  <2>4. Regular(f) /\ e.at # "idle"
    BY <1>1, <2>3 DEF Regular, Execution, AfterVerify
  <2>5. QED
    BY <1>2, <1>5, <2>1, <2>2, <2>4 DEF RenewalReturns
<1>6. CASE RenewalFails(p, r)
  <2> DEFINE f == [e EXCEPT !.renewal = "none", !.own = FALSE, !.age = 0,
                            !.broken = TRUE]
  <2>1. f \in Execution
    BY <1>1, ZeroTyped DEF Execution
  <2>2. Regular(f) /\ e.at # "idle"
    BY <1>1, <1>6 DEF RenewalFails, Regular, Execution, e
  <2>3. Set(p, r, f)
    BY <1>6 DEF RenewalFails, e
  <2>4. QED
    BY <1>2, <1>6, <2>1, <2>2, <2>3 DEF RenewalFails
<1>7. QED
  BY <1>3, <1>4, <1>5, <1>6
     DEF Renew, AskRenewal, ServeRenewal, RenewalReturns, RenewalFails

LEMMA BodyMoves ==
  ASSUME TypeOK, ExecutionsRegular, NEW p \in Processes, NEW r \in Requests,
         Body(p, r)
  PROVE  Moves(p, r)
<1> DEFINE e == exec[p][r]
<1>1. e \in Execution /\ Regular(e)
  BY DEF TypeOK, ExecutionsRegular
<1>2. ASSUME NEW at \in Steps, Go(p, r, at), Regular([e EXCEPT !.at = at]),
             e.at # "idle", UNCHANGED <<current, answers, runs>>
      PROVE  Moves(p, r)
  BY <1>2, GoEffect, SetEffect DEF Moves, Runs
<1>3. ASSUME End(p, r), e.at # "idle", UNCHANGED <<current, answers, runs>>
      PROVE  Moves(p, r)
  BY <1>3, NoExecutionTyped, SetEffect DEF End, Moves, Runs
<1>4. CASE WriteEnds(p, r)
  <2>1. PICK next \in {"verify", "close", "abort"} :
          /\ next = "verify" => e.todo > 1
          /\ Set(p, r, [e EXCEPT !.at = next, !.todo = e.todo - 1,
                                 !.call = 0])
    BY <1>4 DEF WriteEnds
  <2> DEFINE f == [e EXCEPT !.at = next, !.todo = e.todo - 1, !.call = 0]
  <2>2. e.at = "write" /\ UNCHANGED <<current, answers, runs>>
    BY <1>4 DEF WriteEnds
  <2>3. e.todo \in 1..Writes
    BY <1>1, <2>2 DEF Regular, Execution
  <2>4. f \in Execution
    <3>1. e.todo - 1 \in 0..Writes
      BY <2>3, DeployAssumption
    <3>2. QED
      BY <1>1, <3>1, ZeroTyped DEF Execution, Steps
  <2>5. Regular(f)
    BY <1>1, <2>1, <2>2, <2>3 DEF Regular, Execution
  <2>6. QED
    BY <2>1, <2>2, <2>4, <2>5, SetEffect DEF Moves, Runs
<1>5. CASE Abort(p, r)
  <2>1. Regular([e EXCEPT !.at = "abort"])
    BY <1>1, <1>5 DEF Abort, Regular, Execution
  <2>2. QED
    BY <1>2, <1>5, <2>1 DEF Abort, Steps
<1>6. CASE HeartbeatStops(p, r)
  <2>1. Regular([e EXCEPT !.at = "fatal"])
    BY <1>1, <1>6 DEF HeartbeatStops, Regular, Execution
  <2>2. QED
    BY <1>2, <1>6, <2>1 DEF HeartbeatStops, Steps
<1>7. CASE Settles(p, r)
  <2>1. /\ Regular([e EXCEPT !.at = "announce"])
        /\ Regular([e EXCEPT !.at = "abort"])
    BY <1>1, <1>7 DEF Settles, Regular, Execution
  <2>2. QED
    BY <1>2, <1>3, <1>7, <2>1 DEF Settles, Steps
<1>8. CASE SettlesFatally(p, r)
  <2>1. Regular([e EXCEPT !.at = "obituary"])
    BY <1>1, <1>8 DEF SettlesFatally, Regular, Execution
  <2>2. QED
    BY <1>2, <1>3, <1>8, <2>1 DEF SettlesFatally, Steps
<1>9. CASE Announce(p, r)
  BY <1>3, <1>9 DEF Announce
<1>10. QED
  BY <1>4, <1>5, <1>6, <1>7, <1>8, <1>9 DEF Body

(* A settlement takes a running request to its verdict, or does nothing.   *)
Settlement(r) ==
  \/ UNCHANGED <<status, claim>>
  \/ \E token \in Nat, ok \in BOOLEAN : Settle(r, token, ok)

LEMMA SettlementEffect ==
  ASSUME TypeOK, NEW r \in Requests, Settlement(r)
  PROVE  /\ status' \in [Requests -> Statuses]
         /\ claim' \in [token : Nat, minted : Nat, left : 0..Lease]
         /\ \A s \in Requests :
              \/ status'[s] = status[s]
              \/ s = r /\ status[s] = "running" /\ status'[s] \in Settled
<1>1. CASE UNCHANGED <<status, claim>>
  BY <1>1 DEF TypeOK
<1>2. ASSUME NEW token \in Nat, NEW ok \in BOOLEAN, Settle(r, token, ok)
      PROVE  /\ status' \in [Requests -> Statuses]
             /\ claim' \in [token : Nat, minted : Nat, left : 0..Lease]
             /\ \A s \in Requests :
                  \/ status'[s] = status[s]
                  \/ s = r /\ status[s] = "running" /\ status'[s] \in Settled
  <2>1. 0 \in 0..Lease
    BY DeployAssumption
  <2>2. QED
    BY <1>2, <2>1 DEF Settle, Matches, TypeOK, Statuses, Settled
<1>3. QED
  BY <1>1, <1>2 DEF Settlement

LEMMA BodySettles ==
  ASSUME TypeOK, NEW p \in Processes, NEW r \in Requests, Body(p, r)
  PROVE  /\ Settlement(r)
         /\ \/ UNCHANGED <<status, claim>>
            \/ exec[p][r].at \in {"settle", "fatal"}
<1> DEFINE e == exec[p][r]
<1>1. e.token \in Nat /\ e.ok \in BOOLEAN
  BY DEF TypeOK, Execution
<1>2. CASE Settles(p, r)
  BY <1>1, <1>2 DEF Settles, SettleCall, SettleLost, Settlement
<1>3. CASE SettlesFatally(p, r)
  BY <1>1, <1>3 DEF SettlesFatally, SettleCall, SettleLost, Settlement
<1>4. CASE ~Settles(p, r) /\ ~SettlesFatally(p, r)
  <2>1. UNCHANGED <<status, claim>>
    BY <1>4 DEF Body, WriteEnds, Abort, HeartbeatStops, Announce
  <2>2. QED
    BY <2>1 DEF Settlement
<1>5. QED
  BY <1>2, <1>3, <1>4 DEF Settles, SettlesFatally

LEMMA AnnouncementEffect ==
  ASSUME TypeOK, NEW p \in Processes, NEW r \in Requests, Body(p, r)
  PROVE  /\ announced' \in [Requests -> SUBSET Settled]
         /\ \A s \in Requests :
              announced'[s] # announced[s] =>
                LET e == exec[p][r]
                IN  /\ s = r /\ UNCHANGED <<status, claim>>
                    /\ \/ /\ e.at = "announce"
                          /\ announced'[s] = announced[s] \cup
                               {IF e.ok THEN "success" ELSE "failed"}
                       \/ /\ e.at = "obituary"
                          /\ announced'[s] = announced[s] \cup {"failed"}
<1> DEFINE e == exec[p][r]
           verdict == IF e.at = "announce" /\ e.ok
                      THEN "success" ELSE "failed"
<1>1. CASE Announce(p, r)
  <2>1. announced' = [announced EXCEPT ![r] = announced[r] \cup {verdict}]
    BY <1>1 DEF Announce
  <2>2. verdict \in Settled
    BY DEF Settled
  <2>3. e.at = "announce" => verdict = IF e.ok THEN "success" ELSE "failed"
    OBVIOUS
  <2>4. e.at = "obituary" => verdict = "failed"
    OBVIOUS
  <2>5. e.at \in {"announce", "obituary"} /\ UNCHANGED <<status, claim>>
    BY <1>1 DEF Announce
  <2> HIDE DEF verdict, e
  <2>6. announced \in [Requests -> SUBSET Settled]
    BY DEF TypeOK
  <2>7. QED
    BY <2>1, <2>2, <2>3, <2>4, <2>5, <2>6 DEF e
<1>2. CASE ~Announce(p, r)
  <2>1. announced' = announced
    BY <1>2
       DEF Body, WriteEnds, Abort, HeartbeatStops, Settles, SettlesFatally
  <2>2. QED
    BY <2>1 DEF TypeOK
<1>3. QED
  BY <1>1, <1>2

LEMMA RefusalSettles ==
  ASSUME TypeOK, NEW c \in answers, ClaimRefused(c)
  PROVE  c.request \in Requests /\ Settlement(c.request)
<1>1. c.request \in Requests /\ c.token \in Nat
  BY DEF TypeOK, Answer
<1>2. QED
  BY <1>1 DEF ClaimRefused, SettleCall, SettleLost, Settlement

----------------------------------------------------------------------------
(* Types.                                                                  *)
TypeInv == TypeOK /\ ExecutionsRegular

LEMMA MoveKeepsRegular ==
  ASSUME ExecutionsRegular, NEW p \in Processes, NEW r \in Requests,
         Moves(p, r)
  PROVE  ExecutionsRegular'
<1>1. ASSUME NEW q \in Processes, NEW s \in Requests
      PROVE  Regular(exec'[q][s])
  BY <1>1 DEF Moves, Others, ExecutionsRegular
<1>2. QED
  BY <1>1 DEF ExecutionsRegular, Regular

LEMMA AgedTyped ==
  ASSUME NEW e \in Execution, Regular(e), e.at = "write" => e.call < MaxCall
  PROVE  /\ Aged(e) \in Execution
         /\ Regular(Aged(e))
         /\ Aged(e).at = e.at
         /\ Aged(e).token = e.token
         /\ Aged(e).ok = e.ok
         /\ Aged(e).renewal = e.renewal
         /\ Aged(e).age =
              IF e.renewal # "none" /\ e.age < Safety
              THEN e.age + 1 ELSE e.age
         /\ Aged(e).call = IF e.at = "write" THEN e.call + 1 ELSE e.call
<1> DEFINE age == IF e.renewal # "none" /\ e.age < Safety
                  THEN e.age + 1 ELSE e.age
           call == IF e.at = "write" THEN e.call + 1 ELSE e.call
<1>1. age \in 0..Safety
  BY DeployAssumption DEF Execution
<1>2. call \in 0..MaxCall
  BY DeployAssumption DEF Execution
<1> HIDE DEF age, call
<1>3. Aged(e) = [e EXCEPT !.age = age, !.call = call]
  BY DEF Aged, age, call
<1>4. /\ Aged(e) \in Execution
      /\ Aged(e).at = e.at
      /\ Aged(e).token = e.token
      /\ Aged(e).ok = e.ok
      /\ Aged(e).todo = e.todo
      /\ Aged(e).broken = e.broken
      /\ Aged(e).own = e.own
      /\ Aged(e).renewal = e.renewal
      /\ Aged(e).age = age
      /\ Aged(e).call = call
  BY <1>1, <1>2, <1>3 DEF Execution
<1>5. Regular(Aged(e))
  BY <1>4 DEF Regular, call
<1>6. QED
  BY <1>4, <1>5 DEF age, call

LEMMA TickAges ==
  ASSUME TypeInv, Tick, NEW p \in Processes, NEW r \in Requests
  PROVE  /\ exec'[p][r] = Aged(exec[p][r])
         /\ exec[p][r] \in Execution
         /\ Regular(exec[p][r])
         /\ exec[p][r].at = "write" => exec[p][r].call < MaxCall
  BY DEF Tick, TypeInv, TypeOK, ExecutionsRegular

(* An answered claim starts an execution at its beginning, or is dropped.  *)
LEMMA ReturnEffect ==
  ASSUME TypeOK, NEW c \in answers, Returns(c)
  PROVE  /\ c.by \in Processes /\ c.request \in Requests
         /\ answers' = answers \ {c}
         /\ UNCHANGED <<current, announced>>
         /\ \/ UNCHANGED <<exec, runs>> /\ Settlement(c.request)
            \/ /\ UNCHANGED <<status, claim>>
               /\ exec' \in [Processes -> [Requests -> Execution]]
               /\ Others(c.by, c.request)
               /\ Regular(exec'[c.by][c.request])
               /\ exec'[c.by][c.request].at = "verify"
               /\ exec'[c.by][c.request].renewal = "none"
               /\ runs' = [runs EXCEPT ![c.request] = @ + 1]
<1>1. /\ c.by \in Processes /\ c.request \in Requests
      /\ c.token \in Nat /\ c.swept \in BOOLEAN
  BY DEF TypeOK, Answer
<1> DEFINE e == [NoExecution EXCEPT !.at = "verify", !.token = c.token,
                                    !.todo = Writes, !.swept = c.swept]
<1>2. CASE ClaimReturns(c) /\ ~Busy(c.by)
  <2>1. Writes \in 0..Writes /\ Writes > 0
    BY DeployAssumption
  <2>2. e \in Execution
    BY <1>1, <2>1, NoExecutionTyped DEF Execution, Steps
  <2>3. Regular(e) /\ e.at = "verify" /\ e.renewal = "none"
    BY <1>1, <2>1 DEF NoExecution, Regular
  <2>4. Set(c.by, c.request, e)
    BY <1>2 DEF ClaimReturns
  <2>5. /\ exec' \in [Processes -> [Requests -> Execution]]
        /\ exec'[c.by][c.request] = e
        /\ Others(c.by, c.request)
    BY <1>1, <2>2, <2>4, SetEffect
  <2>6. QED
    BY <1>1, <1>2, <2>3, <2>5 DEF ClaimReturns
<1>3. CASE ClaimReturns(c) /\ Busy(c.by)
  BY <1>1, <1>3 DEF ClaimReturns, Settlement
<1>4. CASE ClaimRefused(c)
  BY <1>1, <1>4, RefusalSettles DEF ClaimRefused
<1>5. CASE ClaimLost(c)
  BY <1>1, <1>5 DEF ClaimLost, Settlement
<1>6. QED
  BY <1>2, <1>3, <1>4, <1>5 DEF Returns

LEMMA ClaimEffect ==
  ASSUME TypeOK, NEW p \in Processes, NEW r \in Requests, Claim(p, r)
  PROVE  /\ current = r /\ status[r] = "requested"
         /\ status' = [status EXCEPT ![r] = "running"]
         /\ claim' \in [token : Nat, minted : Nat, left : 0..Lease]
         /\ \E c \in Answer : c.request = r /\ answers' = answers \cup {c}
         /\ UNCHANGED <<current, exec, announced, runs>>
<1>1. claim.minted + 1 \in Nat /\ Lease \in 0..Lease
  BY DeployAssumption DEF TypeOK
<1>2. QED
  BY <1>1 DEF Claim, Claimed, Answer

LEMMA TypeInvKept ==
  ASSUME TypeInv, [Next]_vars
  PROVE  TypeInv'
<1> USE DEF TypeInv
<1>0. 0 \in 0..Lease
  BY DeployAssumption
<1>1. ASSUME NEW r \in Requests, Request(r)
      PROVE  TypeInv'
  <2>1. ExecutionsRegular'
    BY <1>1 DEF Request, ExecutionsRegular
  <2>2. QED
    BY <1>0, <1>1, <2>1 DEF Request, TypeOK, Statuses
<1>2. ASSUME NEW p \in Processes, NEW r \in Requests, Claim(p, r)
      PROVE  TypeInv'
  <2>1. ExecutionsRegular'
    BY <1>2 DEF Claim, Claimed, ExecutionsRegular
  <2>2. QED
    BY <1>2, <2>1, ClaimEffect DEF TypeOK, Statuses
<1>3. ASSUME NEW p \in Processes, NEW r \in Requests,
             Renew(p, r) \/ \E own \in BOOLEAN : AskRenewal(p, r, own)
      PROVE  TypeInv'
  <2>1. Moves(p, r) /\ UNCHANGED <<status, announced>>
    BY <1>3, RenewalMoves
  <2>2. claim' \in [token : Nat, minted : Nat, left : 0..Lease]
    <3>1. claim' = claim \/ claim' = [claim EXCEPT !.left = Lease]
      BY <1>3
         DEF Renew, AskRenewal, ServeRenewal, RenewalReturns, RenewalFails
    <3>2. Lease \in 0..Lease
      BY DeployAssumption
    <3>3. QED
      BY <3>1, <3>2 DEF TypeOK
  <2>3. QED
    BY <2>1, <2>2, MoveKeepsRegular DEF Moves, TypeOK
<1>4. ASSUME NEW p \in Processes, NEW r \in Requests, Body(p, r)
      PROVE  TypeInv'
  <2>1. Moves(p, r) /\ Settlement(r)
    BY <1>4, BodyMoves, BodySettles
  <2>2. announced' \in [Requests -> SUBSET Settled]
    BY <1>4, AnnouncementEffect DEF TypeOK
  <2>3. QED
    BY <2>1, <2>2, MoveKeepsRegular, SettlementEffect DEF Moves, TypeOK
<1>5. ASSUME NEW c \in answers, Returns(c)
      PROVE  TypeInv'
  <2>1. CASE UNCHANGED <<exec, runs>> /\ Settlement(c.request)
    BY <1>5, <2>1, ReturnEffect, SettlementEffect
       DEF TypeOK, ExecutionsRegular
  <2>2. CASE ~(UNCHANGED <<exec, runs>> /\ Settlement(c.request))
    <3>1. ExecutionsRegular'
      BY <1>5, <2>2, ReturnEffect DEF ExecutionsRegular, Others, Regular
    <3>2. QED
      BY <1>5, <2>2, <3>1, ReturnEffect DEF TypeOK
  <2>3. QED
    BY <2>1, <2>2
<1>6. ASSUME NEW p \in Processes, FailInterrupted(p)
      PROVE  TypeInv'
  BY <1>0, <1>6 DEF FailInterrupted, TypeOK, ExecutionsRegular, Statuses
<1>7. ASSUME NEW p \in Processes, Crash(p)
      PROVE  TypeInv'
  <2>1. exec' \in [Processes -> [Requests -> Execution]]
    BY <1>7, NoExecutionTyped DEF Crash, TypeOK
  <2>2. ExecutionsRegular'
    BY <1>7, NoExecutionTyped
       DEF Crash, TypeOK, ExecutionsRegular, Regular
  <2>3. QED
    BY <1>7, <2>1, <2>2 DEF Crash, TypeOK
<1>8. CASE Tick
  <2>1. ASSUME NEW p \in Processes, NEW r \in Requests
        PROVE  exec'[p][r] \in Execution /\ Regular(exec'[p][r])
    BY <1>8, TickAges, AgedTyped
  <2>2. exec' \in [Processes -> [Requests -> Execution]]
    BY <1>8, <2>1 DEF Tick
  <2>3. ExecutionsRegular'
    BY <2>1 DEF ExecutionsRegular, Regular
  <2>4. claim' \in [token : Nat, minted : Nat, left : 0..Lease]
    BY <1>8, DeployAssumption DEF Tick, TypeOK
  <2>5. QED
    BY <1>8, <2>2, <2>3, <2>4 DEF Tick, TypeOK
<1>9. CASE UNCHANGED vars
  BY <1>9 DEF vars, TypeOK, ExecutionsRegular
<1>10. QED
  BY <1>1, <1>2, <1>3, <1>4, <1>5, <1>6, <1>7, <1>8, <1>9 DEF Next

LEMMA TypeInit == Init => TypeInv
<1>1. 0 \in 0..Lease
  BY DeployAssumption
<1>2. QED
  BY <1>1, NoExecutionTyped
     DEF Init, TypeInv, TypeOK, ExecutionsRegular, Statuses, Settled, Answer

(* Every variable of the lifecycle holds a value of its type.              *)
THEOREM DeployTypeOK == Spec => []TypeOK
<1>1. TypeInv /\ [Next]_vars => TypeInv'
  BY TypeInvKept
<1>2. TypeInv => TypeOK
  BY DEF TypeInv
<1>3. QED
  BY TypeInit, <1>1, <1>2, PTL DEF Spec

----------------------------------------------------------------------------
(* One claim and one execution of a request.                               *)

(* Steps that start nothing and free no request for another claim.         *)
LEMMA OneClaimFrame ==
  ASSUME TypeOK, OneClaim, answers' \subseteq answers, runs' = runs,
         \A p \in Processes, r \in Requests : Runs(p, r)' => Runs(p, r),
         \A r \in Requests :
           status'[r] \in {"idle", "requested"} =>
             status[r] \in {"idle", "requested"}
  PROVE  OneClaim'
<1>1. \A r \in Requests : Fresh(r) => Fresh(r)'
  BY DEF Fresh
<1>2. \A c \in answers : Fresh(c.request) => Fresh(c.request)'
  BY <1>1 DEF TypeOK, Answer
<1>3. QED
  BY <1>1, <1>2 DEF OneClaim

LEMMA SettlementFrame ==
  ASSUME TypeOK, OneClaim, NEW r \in Requests, Settlement(r),
         answers' \subseteq answers, runs' = runs,
         \A p \in Processes, s \in Requests : Runs(p, s)' => Runs(p, s)
  PROVE  OneClaim'
<1>1. \A s \in Requests :
        status'[s] \in {"idle", "requested"} => status'[s] = status[s]
  BY SettlementEffect DEF Settled
<1>2. QED
  BY <1>1, OneClaimFrame

LEMMA MovesRun ==
  ASSUME NEW p \in Processes, NEW r \in Requests, Moves(p, r)
  PROVE  \A q \in Processes, s \in Requests : Runs(q, s)' => Runs(q, s)
  BY DEF Moves, Others, Runs

LEMMA OneClaimKept ==
  ASSUME TypeInv, OneClaim, [Next]_vars
  PROVE  OneClaim'
<1> USE DEF TypeInv
<1>1. ASSUME NEW r \in Requests, Request(r)
      PROVE  OneClaim'
  <2>1. \A q \in Requests :
          status'[q] \in {"idle", "requested"} =>
            status[q] \in {"idle", "requested"}
    BY <1>1 DEF Request, TypeOK
  <2>2. \A p \in Processes, q \in Requests : Runs(p, q)' => Runs(p, q)
    BY <1>1 DEF Request, Runs
  <2>3. QED
    BY <1>1, <2>1, <2>2, OneClaimFrame DEF Request
<1>2. ASSUME NEW p \in Processes, NEW r \in Requests, Claim(p, r)
      PROVE  OneClaim'
  <2>1. PICK c \in Answer : c.request = r /\ answers' = answers \cup {c}
    BY <1>2, ClaimEffect
  <2>2. /\ \A s \in Requests : Fresh(s)' <=> Fresh(s)
        /\ \A d \in answers' : Fresh(d.request)' <=> Fresh(d.request)
        /\ runs' = runs
    BY <1>2, ClaimEffect DEF Fresh, Runs
  <2>3. Fresh(r) /\ \A d \in answers : d.request # r
    BY <1>2, ClaimEffect DEF OneClaim
  <2>4. \A s \in Requests :
          status'[s] \in {"idle", "requested"} => s # r /\ status'[s] = status[s]
    BY <1>2, ClaimEffect DEF TypeOK
  <2>5. \A q \in Processes, s \in Requests : Runs(q, s)' <=> Runs(q, s)
    BY <1>2, ClaimEffect DEF Runs
  <2>6. QED
    BY <2>1, <2>2, <2>3, <2>4, <2>5 DEF OneClaim
<1>3. ASSUME NEW p \in Processes, NEW r \in Requests,
             Renew(p, r) \/ \E own \in BOOLEAN : AskRenewal(p, r, own)
      PROVE  OneClaim'
  <2>1. Moves(p, r) /\ status' = status
    BY <1>3, RenewalMoves
  <2>2. QED
    BY <2>1, MovesRun, OneClaimFrame DEF Moves
<1>4. ASSUME NEW p \in Processes, NEW r \in Requests, Body(p, r)
      PROVE  OneClaim'
  <2>1. Moves(p, r) /\ Settlement(r)
    BY <1>4, BodyMoves, BodySettles
  <2>2. QED
    BY <2>1, MovesRun, SettlementFrame DEF Moves
<1>5. ASSUME NEW c \in answers, Returns(c)
      PROVE  OneClaim'
  <2>1. CASE UNCHANGED <<exec, runs>> /\ Settlement(c.request)
    BY <1>5, <2>1, ReturnEffect, SettlementFrame DEF Runs
  <2>2. CASE ~(UNCHANGED <<exec, runs>> /\ Settlement(c.request))
    <3> DEFINE p == c.by
               r == c.request
    <3>1. /\ p \in Processes /\ r \in Requests
          /\ answers' = answers \ {c}
          /\ status' = status
          /\ Others(p, r)
          /\ runs' = [runs EXCEPT ![r] = runs[r] + 1]
      BY <1>5, <2>2, ReturnEffect
    <3>2. /\ Fresh(r) /\ status[r] \notin {"idle", "requested"}
          /\ \A d \in answers' : d.request # r
      BY <3>1 DEF OneClaim
    <3>3. \A q \in Processes, s \in Requests :
            Runs(q, s)' => Runs(q, s) \/ (q = p /\ s = r)
      BY <3>1 DEF Others, Runs
    <3>4. runs'[r] = 1 /\ \A s \in Requests : s # r => runs'[s] = runs[s]
      BY <3>1, <3>2 DEF Fresh, TypeOK
    <3>5. \A s \in Requests : s # r /\ Fresh(s) => Fresh(s)'
      BY <3>3, <3>4 DEF Fresh
    <3>6. \A d \in answers' : d.request \in Requests /\ Fresh(d.request)'
      BY <3>1, <3>2, <3>5 DEF OneClaim, TypeOK, Answer
    <3>7. \A s \in Requests : runs'[s] <= 1
      BY <3>4 DEF OneClaim
    <3>8. \A s \in Requests :
            status'[s] \in {"idle", "requested"} =>
              Fresh(s)' /\ \A d \in answers' : d.request # s
      BY <3>1, <3>2, <3>5 DEF OneClaim
    <3>9. \A q1, q2 \in Processes, s \in Requests :
            Runs(q1, s)' /\ Runs(q2, s)' => q1 = q2
      BY <3>2, <3>3 DEF OneClaim, Fresh
    <3>10. QED
      BY <3>1, <3>6, <3>7, <3>8, <3>9 DEF OneClaim
  <2>3. QED
    BY <2>1, <2>2
<1>6. ASSUME NEW p \in Processes, FailInterrupted(p)
      PROVE  OneClaim'
  BY <1>6, OneClaimFrame DEF FailInterrupted, TypeOK, Runs
<1>7. ASSUME NEW p \in Processes, Crash(p)
      PROVE  OneClaim'
  <2>1. \A q \in Processes, s \in Requests : Runs(q, s)' => Runs(q, s)
    BY <1>7 DEF Crash, Runs, NoExecution, TypeOK
  <2>2. QED
    BY <1>7, <2>1, OneClaimFrame DEF Crash
<1>8. CASE Tick
  <2>1. \A q \in Processes, s \in Requests : Runs(q, s)' => Runs(q, s)
    BY <1>8, TickAges, AgedTyped DEF Runs
  <2>2. QED
    BY <1>8, <2>1, OneClaimFrame DEF Tick
<1>9. CASE UNCHANGED vars
  BY <1>9, OneClaimFrame DEF vars, Runs
<1>10. QED
  BY <1>1, <1>2, <1>3, <1>4, <1>5, <1>6, <1>7, <1>8, <1>9 DEF Next

ClaimInv == TypeInv /\ OneClaim

LEMMA ClaimInvariant == Spec => []ClaimInv
<1>1. Init => ClaimInv
  BY TypeInit
     DEF Init, ClaimInv, OneClaim, Fresh, Runs, NoExecution
<1>2. ClaimInv /\ [Next]_vars => ClaimInv'
  BY TypeInvKept, OneClaimKept DEF ClaimInv
<1>3. QED
  BY <1>1, <1>2, PTL DEF Spec

(* A deployment is executed at most once: no crash, lost answer or expired *)
(* lease makes the bot repeat a request.                                   *)
THEOREM DeployRunsOnce == Spec => []RunAtMostOnce
<1>1. ClaimInv => RunAtMostOnce
  BY DEF ClaimInv, OneClaim, RunAtMostOnce
<1>2. QED
  BY <1>1, ClaimInvariant, PTL

----------------------------------------------------------------------------
(* Verdicts.                                                               *)

LEMMA VerdictsStay ==
  ASSUME TypeInv, [Next]_vars, NEW r \in Requests, status[r] \in Settled
  PROVE  status'[r] = status[r]
<1> USE DEF TypeInv, Settled
<1>1. ASSUME NEW s \in Requests, Request(s)
      PROVE  status'[r] = status[r]
  BY <1>1 DEF Request, TypeOK
<1>2. ASSUME NEW p \in Processes, NEW s \in Requests, Claim(p, s)
      PROVE  status'[r] = status[r]
  BY <1>2, ClaimEffect DEF TypeOK
<1>3. ASSUME NEW p \in Processes, NEW s \in Requests,
             Renew(p, s) \/ \E own \in BOOLEAN : AskRenewal(p, s, own)
      PROVE  status'[r] = status[r]
  BY <1>3, RenewalMoves
<1>4. ASSUME NEW p \in Processes, NEW s \in Requests, Body(p, s)
      PROVE  status'[r] = status[r]
  BY <1>4, BodySettles, SettlementEffect
<1>5. ASSUME NEW c \in answers, Returns(c)
      PROVE  status'[r] = status[r]
  BY <1>5, ReturnEffect, SettlementEffect
<1>6. ASSUME NEW p \in Processes, FailInterrupted(p)
      PROVE  status'[r] = status[r]
  BY <1>6 DEF FailInterrupted, TypeOK
<1>7. CASE Tick \/ \E p \in Processes : Crash(p)
  BY <1>7 DEF Tick, Crash
<1>8. CASE UNCHANGED vars
  BY <1>8 DEF vars
<1>9. QED
  BY <1>1, <1>2, <1>3, <1>4, <1>5, <1>6, <1>7, <1>8 DEF Next

(* The verdict on a request is final: no late settlement or recovery       *)
(* revises it, nor touches the request that came after it.                 *)
THEOREM DeployVerdicts == Spec => VerdictIsFinal
<1>1. TypeInv /\ [Next]_vars =>
        \A r \in Requests : status[r] \in Settled => status'[r] = status[r]
  BY VerdictsStay
<1>2. TypeInv /\ [Next]_vars => TypeInv'
  BY TypeInvKept
<1>3. TypeInv /\ [Next]_vars =>
        [\A r \in Requests : status[r] \in Settled => status'[r] = status[r]]_vars
  BY <1>1
<1>4. QED
  BY TypeInit, <1>2, <1>3, PTL DEF Spec, VerdictIsFinal

----------------------------------------------------------------------------
(* Writes within the lease.                                                *)

(* An execution that goes on as it is, while its row does and the lease    *)
(* gets no shorter, stays covered.                                         *)
LEMMA StaysCovered ==
  ASSUME TypeInv, NEW p \in Processes, NEW r \in Requests, Covered(p, r),
         TypeOK', exec'[p][r] = exec[p][r],
         current' = current, status'[r] = status[r],
         claim'.token = claim.token, claim'.left >= claim.left
  PROVE  Covered(p, r)'
<1>1. /\ exec[p][r].age \in Nat /\ exec[p][r].call \in Nat
      /\ claim.left \in Nat /\ claim'.left \in Nat
      /\ Lease \in Nat /\ Safety \in Nat
  BY DeployAssumption DEF TypeInv, TypeOK, Execution
<1>2. Owns(p, r) => Owns(p, r)'
  BY <1>1 DEF Owns, Matches
<1>3. QED
  BY <1>1, <1>2 DEF Covered

(* Without a granted renewal or a write there is nothing to cover.         *)
LEMMA NothingToCover ==
  ASSUME NEW p \in Processes, NEW r \in Requests,
         exec'[p][r].renewal # "yes", exec'[p][r].at # "write"
  PROVE  Covered(p, r)'
  BY DEF Covered

(* What another owner of the row, or nobody, can settle takes no cover     *)
(* away: an execution that does not own the row has none.                  *)
LEMMA NotOwning ==
  ASSUME NEW p \in Processes, NEW r \in Requests, Covered(p, r),
         ~Owns(p, r), exec'[p][r] = exec[p][r]
  PROVE  Covered(p, r)'
  BY DEF Covered

LEMMA SettlementSpares ==
  ASSUME TypeInv, TypeOK', NEW r \in Requests, Settlement(r),
         current' = current,
         NEW q \in Processes, NEW s \in Requests, Covered(q, s),
         exec'[q][s] = exec[q][s],
         \/ UNCHANGED <<status, claim>>
         \/ s = r => exec[q][s].renewal # "yes" /\ exec[q][s].at # "write"
  PROVE  Covered(q, s)'
<1>1. CASE UNCHANGED <<status, claim>>
  <2>1. claim'.left >= claim.left
    BY <1>1, DeployAssumption DEF TypeInv, TypeOK
  <2>2. QED
    BY <1>1, <2>1, StaysCovered
<1>2. CASE ~UNCHANGED <<status, claim>> /\ s = r
  BY <1>2, NothingToCover
<1>3. CASE ~UNCHANGED <<status, claim>> /\ s # r
  <2>1. ~Owns(q, s)
    BY <1>3 DEF Settlement, Settle, Matches, Owns
  <2>2. QED
    BY <2>1, NotOwning
<1>4. QED
  BY <1>1, <1>2, <1>3

LEMMA RenewalCovers ==
  ASSUME TypeInv, TypeOK', NEW p \in Processes, NEW r \in Requests,
         Covered(p, r),
         Renew(p, r) \/ \E own \in BOOLEAN : AskRenewal(p, r, own)
  PROVE  Covered(p, r)'
<1> DEFINE e == exec[p][r]
           f == exec'[p][r]
<1>1. e \in Execution /\ Regular(e)
  BY DEF TypeInv, TypeOK, ExecutionsRegular
<1>2. /\ e.age \in 0..Safety /\ e.call \in 0..MaxCall
      /\ claim.left \in 0..Lease
      /\ Lease \in Nat /\ Safety \in Nat /\ MaxCall \in Nat
      /\ 0 <= e.age /\ 0 <= e.call /\ claim.left <= Lease
  BY <1>1, DeployAssumption DEF TypeInv, TypeOK, Execution
<1>3. UNCHANGED <<current, status>>
  BY RenewalMoves DEF TypeInv, Moves
<1>4. ASSUME NEW own \in BOOLEAN, AskRenewal(p, r, own)
      PROVE  Covered(p, r)'
  <2>1. claim' = claim
    BY <1>4 DEF AskRenewal
  <2>2. f = [e EXCEPT !.renewal = "asked", !.own = own, !.age = 0]
    BY <1>4 DEF AskRenewal, Set, TypeInv, TypeOK
  <2>3. /\ f.renewal = "asked" /\ f.at = e.at
        /\ f.call = e.call /\ f.token = e.token
    BY <1>1, <2>2 DEF Execution
  <2>4. Owns(p, r)' <=> Owns(p, r)
    BY <1>3, <2>1, <2>3 DEF Owns, Matches
  <2>5. QED
    BY <2>1, <2>3, <2>4 DEF Covered
<1>5. CASE ServeRenewal(p, r)
  <2>1. f = [e EXCEPT !.renewal = IF Owns(p, r) THEN "yes" ELSE "no"]
    BY <1>5 DEF ServeRenewal, Set, TypeInv, TypeOK
  <2>2. /\ f.renewal = "yes" => Owns(p, r)
        /\ f.at = e.at /\ f.call = e.call /\ f.token = e.token
        /\ f.age = e.age
    BY <1>1, <2>1 DEF Execution
  <2>3. CASE Owns(p, r)
    <3>1. claim' = [claim EXCEPT !.left = Lease]
      BY <1>5, <2>3 DEF ServeRenewal
    <3>2. claim'.left = Lease /\ claim'.token = claim.token
      BY <3>1 DEF TypeInv, TypeOK
    <3>3. Owns(p, r)'
      BY <1>2, <1>3, <2>2, <2>3, <3>2 DEF Owns, Matches
    <3>4. QED
      BY <1>2, <2>2, <3>2, <3>3 DEF Covered
  <2>4. CASE ~Owns(p, r)
    BY <2>2, <2>4, NothingToCover DEF Covered
  <2>5. QED
    BY <2>3, <2>4
<1>6. CASE RenewalReturns(p, r)
  <2>1. PICK ok \in BOOLEAN :
          Set(p, r, [e EXCEPT !.renewal = "none", !.own = FALSE, !.age = 0,
                              !.ok = e.at = "close" /\ e.own /\ ok,
                              !.at = IF e.own THEN AfterVerify(e) ELSE e.at])
    BY <1>6 DEF RenewalReturns
  <2> DEFINE g == [e EXCEPT !.renewal = "none", !.own = FALSE, !.age = 0,
                            !.ok = e.at = "close" /\ e.own /\ ok,
                            !.at = IF e.own THEN AfterVerify(e) ELSE e.at]
  <2>2. /\ g.renewal = "none" /\ g.call = e.call /\ g.token = e.token
        /\ g.at = IF e.own THEN AfterVerify(e) ELSE e.at
    BY <1>1 DEF Execution
  <2>3. Set(p, r, g)
    BY <2>1
  <2> HIDE DEF g
  <2>4. f = g
    BY <2>3, SetGives DEF TypeInv
  <2>5. e.renewal = "yes" /\ e.age < Safety /\ claim' = claim
    BY <1>6 DEF RenewalReturns
  <2>6. Owns(p, r) /\ claim.left + e.age >= Lease
    BY <2>5 DEF Covered
  <2>7. Owns(p, r)'
    BY <1>3, <2>2, <2>4, <2>5, <2>6 DEF Owns, Matches
  <2>8. ASSUME f.at = "write"
        PROVE  claim'.left + f.call + Safety > Lease
    BY <1>1, <1>2, <2>2, <2>4, <2>5, <2>6, <2>8
       DEF Regular, Covered, AfterVerify
  <2>9. QED
    BY <2>2, <2>4, <2>7, <2>8 DEF Covered
<1>7. CASE RenewalFails(p, r)
  <2>1. f = [e EXCEPT !.renewal = "none", !.own = FALSE, !.age = 0,
                      !.broken = TRUE]
    BY <1>7 DEF RenewalFails, Set, TypeInv, TypeOK
  <2>2. /\ f.renewal = "none" /\ f.at = e.at /\ f.call = e.call
        /\ f.token = e.token
    BY <1>1, <2>1 DEF Execution
  <2>3. claim' = claim
    BY <1>7 DEF RenewalFails
  <2>4. Owns(p, r)' <=> Owns(p, r)
    BY <1>3, <2>2, <2>3 DEF Owns, Matches
  <2>5. QED
    BY <2>2, <2>3, <2>4 DEF Covered
<1>8. QED
  BY <1>4, <1>5, <1>6, <1>7 DEF Renew

LEMMA BodyCovers ==
  ASSUME TypeInv, TypeOK', NEW p \in Processes, NEW r \in Requests,
         Covered(p, r), Body(p, r)
  PROVE  Covered(p, r)'
<1> DEFINE e == exec[p][r]
           f == exec'[p][r]
<1>1. e \in Execution /\ Regular(e)
  BY DEF TypeInv, TypeOK, ExecutionsRegular
<1>2. ASSUME NEW at \in Steps \ {"write"}, Go(p, r, at),
             e.renewal # "yes"
      PROVE  Covered(p, r)'
  <2>1. f = [e EXCEPT !.at = at]
    BY <1>2, GoEffect, SetEffect DEF TypeInv
  <2>2. f.renewal # "yes" /\ f.at # "write"
    BY <1>1, <1>2, <2>1 DEF Execution
  <2>3. QED
    BY <2>2, NothingToCover
<1>3. ASSUME End(p, r)
      PROVE  Covered(p, r)'
  <2>1. f = NoExecution
    BY <1>3, SetEffect, NoExecutionTyped DEF End, TypeInv
  <2>2. QED
    BY <2>1, NothingToCover DEF NoExecution
<1>4. CASE WriteEnds(p, r)
  <2>1. PICK next \in {"verify", "close", "abort"} :
          Set(p, r, [e EXCEPT !.at = next, !.todo = e.todo - 1, !.call = 0])
    BY <1>4 DEF WriteEnds
  <2> DEFINE g == [e EXCEPT !.at = next, !.todo = e.todo - 1, !.call = 0]
  <2>2. /\ g.at # "write" /\ g.renewal = e.renewal /\ g.age = e.age
        /\ g.token = e.token
    BY <1>1 DEF Execution
  <2>3. Set(p, r, g)
    BY <2>1
  <2> HIDE DEF g
  <2>4. f = g
    BY <2>3, SetGives DEF TypeInv
  <2>5. UNCHANGED <<current, status, claim>>
    BY <1>4 DEF WriteEnds
  <2>6. Owns(p, r)' <=> Owns(p, r)
    BY <2>2, <2>4, <2>5 DEF Owns, Matches
  <2>7. QED
    BY <2>2, <2>4, <2>5, <2>6 DEF Covered
<1>5. CASE Abort(p, r)
  BY <1>1, <1>2, <1>5 DEF Abort, Regular, Steps
<1>6. CASE HeartbeatStops(p, r)
  BY <1>2, <1>6 DEF HeartbeatStops, Steps
<1>7. CASE Settles(p, r) \/ SettlesFatally(p, r) \/ Announce(p, r)
  BY <1>1, <1>2, <1>3, <1>7
     DEF Settles, SettlesFatally, Announce, Regular, Steps
<1>8. QED
  BY <1>4, <1>5, <1>6, <1>7 DEF Body

LEMMA TickCovers ==
  ASSUME TypeInv, TypeOK', Tick, NEW p \in Processes, NEW r \in Requests,
         Covered(p, r)
  PROVE  Covered(p, r)'
<1> DEFINE e == exec[p][r]
           f == exec'[p][r]
<1>1. e \in Execution
  BY TickAges
<1>2. /\ f.at = e.at /\ f.token = e.token /\ f.renewal = e.renewal
      /\ f.age = IF e.renewal # "none" /\ e.age < Safety
                 THEN e.age + 1 ELSE e.age
      /\ f.call = IF e.at = "write" THEN e.call + 1 ELSE e.call
      /\ e.at = "write" => e.call < MaxCall
  <2>1. /\ f = Aged(e) /\ Regular(e)
        /\ e.at = "write" => e.call < MaxCall
    BY TickAges
  <2> HIDE DEF e, f
  <2>2. QED
    BY <1>1, <2>1, AgedTyped
<1>3. /\ e.age \in 0..Safety /\ e.call \in 0..MaxCall
      /\ claim.left \in 0..Lease
      /\ Lease \in Nat /\ Safety \in Nat /\ MaxCall \in Nat
      /\ Safety + MaxCall <= Lease
  BY <1>1, DeployAssumption DEF TypeInv, TypeOK, Execution
<1>4. /\ UNCHANGED <<current, status>>
      /\ claim'.token = claim.token
      /\ claim'.left = IF claim.left = 0 THEN 0 ELSE claim.left - 1
  BY DEF Tick, TypeInv, TypeOK
<1> HIDE DEF e, f
<1>5. ASSUME Owns(p, r), claim.left > 1
      PROVE  Owns(p, r)'
  BY <1>2, <1>3, <1>4, <1>5 DEF Owns, Matches, e, f
<1>6. ASSUME f.renewal = "yes", f.age < Safety
      PROVE  Owns(p, r)' /\ claim'.left + f.age >= Lease
  <2>1. /\ e.renewal = "yes" /\ e.age < Safety /\ f.age = e.age + 1
        /\ e.age + 1 < Safety
    BY <1>2, <1>3, <1>6
  <2>2. Owns(p, r) /\ claim.left + e.age >= Lease
    BY <2>1 DEF Covered, e
  <2>3. claim.left > 1
    BY <1>3, <2>1, <2>2
  <2>4. QED
    BY <1>3, <1>4, <1>5, <2>1, <2>2, <2>3
<1>7. ASSUME f.at = "write"
      PROVE  Owns(p, r)' /\ claim'.left + f.call + Safety > Lease
  <2>1. e.at = "write" /\ f.call = e.call + 1 /\ e.call < MaxCall
    BY <1>2, <1>7
  <2>2. Owns(p, r) /\ claim.left + e.call + Safety > Lease
    BY <2>1 DEF Covered, e
  <2>3. claim.left > 1
    BY <1>3, <2>1, <2>2
  <2>4. QED
    BY <1>3, <1>4, <1>5, <2>1, <2>2, <2>3
<1>8. QED
  BY <1>6, <1>7 DEF Covered, f

LEMMA LeaseCoversKept ==
  ASSUME ClaimInv, LeaseCovers, [Next]_vars
  PROVE  LeaseCovers'
<1> USE DEF ClaimInv
<1>1. TypeInv /\ TypeOK'
  BY TypeInvKept DEF TypeInv
<1> SUFFICES ASSUME NEW q \in Processes, NEW s \in Requests, Covered(q, s)
             PROVE  Covered(q, s)'
  BY DEF LeaseCovers
<1>3. ASSUME NEW r \in Requests, Request(r)
      PROVE  Covered(q, s)'
  BY <1>3, NotOwning, DeployAssumption DEF Request, Owns, Matches
<1>4. ASSUME NEW p \in Processes, NEW r \in Requests, Claim(p, r)
      PROVE  Covered(q, s)'
  <2>1. ~Owns(q, s) /\ exec'[q][s] = exec[q][s]
    BY <1>1, <1>4, ClaimEffect DEF Owns, Matches, TypeInv
  <2>2. QED
    BY <2>1, NotOwning
<1>5. ASSUME NEW p \in Processes, NEW r \in Requests,
             Renew(p, r) \/ \E own \in BOOLEAN : AskRenewal(p, r, own)
      PROVE  Covered(q, s)'
  <2>1. CASE q = p /\ s = r
    BY <1>1, <1>5, <2>1, RenewalCovers
  <2>2. CASE q # p \/ s # r
    <3>1. /\ UNCHANGED <<current, status>>
          /\ exec'[q][s] = exec[q][s]
      BY <1>1, <1>5, <2>2, RenewalMoves DEF TypeInv, Moves, Others
    <3>2. claim' = claim \/ claim' = [claim EXCEPT !.left = Lease]
      BY <1>5
         DEF Renew, AskRenewal, ServeRenewal, RenewalReturns, RenewalFails
    <3>3. claim'.token = claim.token /\ claim'.left >= claim.left
      BY <1>1, <3>2, DeployAssumption DEF TypeInv, TypeOK
    <3>4. QED
      BY <1>1, <3>1, <3>3, StaysCovered
  <2>3. QED
    BY <2>1, <2>2
<1>6. ASSUME NEW p \in Processes, NEW r \in Requests, Body(p, r)
      PROVE  Covered(q, s)'
  <2>1. CASE q = p /\ s = r
    BY <1>1, <1>6, <2>1, BodyCovers
  <2>2. CASE q # p \/ s # r
    <3>1. /\ current' = current /\ exec'[q][s] = exec[q][s]
          /\ Runs(p, r)
      BY <1>1, <1>6, <2>2, BodyMoves DEF TypeInv, Moves, Others
    <3>2. s = r => exec[q][s].at = "idle"
      BY <2>2, <3>1 DEF OneClaim, Runs
    <3>3. s = r => exec[q][s].renewal # "yes" /\ exec[q][s].at # "write"
      BY <1>1, <3>2 DEF TypeInv, ExecutionsRegular, Regular
    <3>4. Settlement(r)
      BY <1>1, <1>6, BodySettles DEF TypeInv
    <3>5. QED
      BY <1>1, <3>1, <3>3, <3>4, SettlementSpares
  <2>3. QED
    BY <2>1, <2>2
<1>7. ASSUME NEW c \in answers, Returns(c)
      PROVE  Covered(q, s)'
  <2>1. CASE UNCHANGED <<exec, runs>> /\ Settlement(c.request)
    <3>1. s = c.request => exec[q][s].at = "idle"
      BY DEF OneClaim, Fresh, Runs
    <3>2. s = c.request =>
            exec[q][s].renewal # "yes" /\ exec[q][s].at # "write"
      BY <1>1, <3>1 DEF TypeInv, ExecutionsRegular, Regular
    <3>3. c.request \in Requests /\ current' = current
      BY <1>1, <1>7, ReturnEffect DEF TypeInv
    <3>4. QED
      BY <1>1, <2>1, <3>2, <3>3, SettlementSpares
  <2>2. CASE ~(UNCHANGED <<exec, runs>> /\ Settlement(c.request))
    <3>1. /\ UNCHANGED <<current, status, claim>>
          /\ \/ exec'[q][s] = exec[q][s]
             \/ exec'[q][s].at = "verify" /\ exec'[q][s].renewal = "none"
      BY <1>1, <1>7, <2>2, ReturnEffect DEF TypeInv, Others
    <3>2. claim'.left >= claim.left
      BY <1>1, <3>1, DeployAssumption DEF TypeInv, TypeOK
    <3>3. QED
      BY <1>1, <3>1, <3>2, StaysCovered, NothingToCover
  <2>3. QED
    BY <2>1, <2>2
<1>8. ASSUME NEW p \in Processes, FailInterrupted(p)
      PROVE  Covered(q, s)'
  BY <1>8, NotOwning DEF FailInterrupted, Owns, Matches
<1>9. ASSUME NEW p \in Processes, Crash(p)
      PROVE  Covered(q, s)'
  <2>1. /\ UNCHANGED <<current, status, claim>>
        /\ exec'[q][s] = exec[q][s] \/ exec'[q][s] = NoExecution
    BY <1>1, <1>9 DEF Crash, TypeInv, TypeOK
  <2>2. claim'.left >= claim.left
    BY <1>1, <2>1, DeployAssumption DEF TypeInv, TypeOK
  <2>3. QED
    BY <1>1, <2>1, <2>2, StaysCovered, NothingToCover DEF NoExecution
<1>10. CASE Tick
  BY <1>1, <1>10, TickCovers
<1>11. CASE UNCHANGED vars
  <2>1. claim'.left >= claim.left
    BY <1>1, <1>11, DeployAssumption DEF TypeInv, TypeOK, vars
  <2>2. QED
    BY <1>1, <1>11, <2>1, StaysCovered DEF vars
<1>12. QED
  BY <1>3, <1>4, <1>5, <1>6, <1>7, <1>8, <1>9, <1>10, <1>11 DEF Next

(* Every fenced write, from its start to its end, happens while its        *)
(* execution owns the running request under an unexpired lease.            *)
THEOREM DeployWritesWithinLease == Spec => []WritesWithinLease
<1>1. Init => LeaseCovers
  <2>1. ASSUME Init, NEW p \in Processes, NEW r \in Requests
        PROVE  exec[p][r].renewal = "none" /\ exec[p][r].at = "idle"
    BY <2>1 DEF Init, NoExecution
  <2>2. QED
    BY <2>1 DEF LeaseCovers, Covered
<1>2. ClaimInv /\ LeaseCovers /\ [Next]_vars => LeaseCovers'
  BY LeaseCoversKept
<1>3. LeaseCovers => WritesWithinLease
  BY DEF LeaseCovers, Covered, WritesWithinLease
<1>4. QED
  BY <1>1, <1>2, <1>3, ClaimInvariant, PTL DEF Spec

----------------------------------------------------------------------------
(* Announcements.                                                          *)

LEMMA RenewalAt ==
  ASSUME TypeInv, NEW p \in Processes, NEW r \in Requests,
         Renew(p, r) \/ \E own \in BOOLEAN : AskRenewal(p, r, own)
  PROVE  exec'[p][r].at \notin {"announce", "obituary"}
<1> DEFINE e == exec[p][r]
<1>1. e \in Execution /\ Regular(e) /\ TypeOK
  BY DEF TypeInv, TypeOK, ExecutionsRegular
<1>2. e.at \in {"verify", "close", "write", "abort"}
  BY <1>1
     DEF Renew, AskRenewal, ServeRenewal, RenewalReturns, RenewalFails,
         Regular, Execution, Steps
<1> HIDE DEF e
<1>3. CASE RenewalReturns(p, r)
  <2>1. PICK ok \in BOOLEAN :
          Set(p, r, [e EXCEPT !.renewal = "none", !.own = FALSE, !.age = 0,
                              !.ok = e.at = "close" /\ e.own /\ ok,
                              !.at = IF e.own THEN AfterVerify(e) ELSE e.at])
    BY <1>3 DEF RenewalReturns, e
  <2> DEFINE g == [e EXCEPT !.renewal = "none", !.own = FALSE, !.age = 0,
                            !.ok = e.at = "close" /\ e.own /\ ok,
                            !.at = IF e.own THEN AfterVerify(e) ELSE e.at]
  <2>2. g.at = IF e.own THEN AfterVerify(e) ELSE e.at
    BY <1>1 DEF Execution
  <2>3. Set(p, r, g)
    BY <2>1
  <2> HIDE DEF g
  <2>4. exec'[p][r] = g
    BY <1>1, <2>3, SetGives
  <2>5. QED
    BY <1>2, <2>2, <2>4 DEF AfterVerify
<1>4. CASE ServeRenewal(p, r)
  <2>1. exec'[p][r] =
          [e EXCEPT !.renewal = IF Owns(p, r) THEN "yes" ELSE "no"]
    BY <1>1, <1>4, SetGives DEF ServeRenewal, e
  <2>2. QED
    BY <1>1, <1>2, <2>1 DEF Execution
<1>5. CASE RenewalFails(p, r)
  <2>1. exec'[p][r] = [e EXCEPT !.renewal = "none", !.own = FALSE, !.age = 0,
                                !.broken = TRUE]
    BY <1>1, <1>5, SetGives DEF RenewalFails, e
  <2>2. QED
    BY <1>1, <1>2, <2>1 DEF Execution
<1>6. ASSUME NEW own \in BOOLEAN, AskRenewal(p, r, own)
      PROVE  exec'[p][r].at \notin {"announce", "obituary"}
  <2>1. exec'[p][r] = [e EXCEPT !.renewal = "asked", !.own = own, !.age = 0]
    BY <1>1, <1>6, SetGives DEF AskRenewal, e
  <2>2. QED
    BY <1>1, <1>2, <2>1 DEF Execution
<1>7. QED
  BY <1>3, <1>4, <1>5, <1>6 DEF Renew

LEMMA VerdictKnownKept ==
  ASSUME TypeInv, VerdictKnown, [Next]_vars
  PROVE  VerdictKnown'
<1>1. ASSUME NEW q \in Processes, NEW s \in Requests,
             exec'[q][s].at = exec[q][s].at, exec'[q][s].ok = exec[q][s].ok
      PROVE  Known(q, s)'
  <2>1. CASE exec[q][s].at \in {"announce", "obituary"}
    <3>1. Known(q, s)
      BY DEF VerdictKnown
    <3>2. status[s] \in Settled
      BY <2>1, <3>1 DEF Known, Settled
    <3>3. status'[s] = status[s]
      BY <3>2, VerdictsStay
    <3>4. QED
      BY <1>1, <3>1, <3>3 DEF Known
  <2>2. CASE exec[q][s].at \notin {"announce", "obituary"}
    BY <1>1, <2>2 DEF Known
  <2>3. QED
    BY <2>1, <2>2
<1>2. ASSUME NEW q \in Processes, NEW s \in Requests,
             exec'[q][s].at \notin {"announce", "obituary"}
      PROVE  Known(q, s)'
  BY <1>2 DEF Known
<1>3. ASSUME NEW p \in Processes, NEW r \in Requests,
             Renew(p, r) \/ \E own \in BOOLEAN : AskRenewal(p, r, own),
             NEW q \in Processes, NEW s \in Requests
      PROVE  Known(q, s)'
  <2>1. CASE q = p /\ s = r
    <3>2. exec'[q][s].at \notin {"announce", "obituary"}
      BY <1>3, <2>1, RenewalAt
    <3>3. QED
      BY <1>2, <3>2
  <2>2. CASE q # p \/ s # r
    <3>1. exec'[q][s] = exec[q][s]
      BY <1>3, <2>2, RenewalMoves DEF TypeInv, Moves, Others
    <3>2. QED
      BY <1>1, <3>1
  <2>3. QED
    BY <2>1, <2>2
<1>4. ASSUME NEW p \in Processes, NEW r \in Requests, Body(p, r),
             NEW q \in Processes, NEW s \in Requests
      PROVE  Known(q, s)'
  <2>1. CASE q = p /\ s = r
    <3>1. exec[p][r] \in Execution
      BY DEF TypeInv, TypeOK
    <3>2. ASSUME NEW at \in Steps, Go(p, r, at)
          PROVE  exec'[p][r].at = at /\ exec'[p][r].ok = exec[p][r].ok
      <4>1. exec'[p][r] = [exec[p][r] EXCEPT !.at = at]
        BY <3>2, GoEffect, SetGives DEF TypeInv
      <4>2. QED
        BY <3>1, <4>1 DEF Execution
    <3>3. ASSUME End(p, r)
          PROVE  exec'[p][r].at = "idle"
      BY <3>3, SetEffect, NoExecutionTyped DEF End, TypeInv, NoExecution
    <3>4. CASE Settles(p, r)
      <4>1. CASE /\ SettleCall(r, exec[p][r].token, exec[p][r].ok, TRUE)
                 /\ Go(p, r, "announce")
        BY <2>1, <3>2, <4>1
           DEF SettleCall, Settle, TypeInv, TypeOK, Steps, Known
      <4>2. CASE ~(/\ SettleCall(r, exec[p][r].token, exec[p][r].ok, TRUE)
                   /\ Go(p, r, "announce"))
        BY <1>2, <2>1, <3>2, <3>3, <3>4, <4>2 DEF Settles, Steps
      <4>3. QED
        BY <4>1, <4>2
    <3>5. CASE SettlesFatally(p, r)
      <4>1. CASE /\ SettleCall(r, exec[p][r].token, FALSE, TRUE)
                 /\ Go(p, r, "obituary")
        BY <2>1, <3>2, <4>1
           DEF SettleCall, Settle, TypeInv, TypeOK, Steps, Known
      <4>2. CASE ~(/\ SettleCall(r, exec[p][r].token, FALSE, TRUE)
                   /\ Go(p, r, "obituary"))
        BY <1>2, <2>1, <3>3, <3>5, <4>2 DEF SettlesFatally
      <4>3. QED
        BY <4>1, <4>2
    <3>6. CASE WriteEnds(p, r)
      <4>1. exec'[p][r].at \in {"verify", "close", "abort"}
        BY <3>1, <3>6 DEF WriteEnds, Set, TypeInv, TypeOK, Execution
      <4>2. QED
        BY <1>2, <2>1, <4>1
    <3>7. CASE Abort(p, r) \/ HeartbeatStops(p, r) \/ Announce(p, r)
      BY <1>2, <2>1, <3>2, <3>3, <3>7
         DEF Abort, HeartbeatStops, Announce, Steps
    <3>8. QED
      BY <1>4, <3>4, <3>5, <3>6, <3>7 DEF Body
  <2>2. CASE q # p \/ s # r
    <3>1. exec'[q][s] = exec[q][s]
      BY <1>4, <2>2, BodyMoves DEF TypeInv, Moves, Others
    <3>2. QED
      BY <1>1, <3>1
  <2>3. QED
    BY <2>1, <2>2
<1>5. ASSUME NEW c \in answers, Returns(c),
             NEW q \in Processes, NEW s \in Requests
      PROVE  Known(q, s)'
  <2>1. \/ exec'[q][s] = exec[q][s]
        \/ exec'[q][s].at = "verify"
    BY <1>5, ReturnEffect DEF TypeInv, Others
  <2>2. QED
    BY <1>1, <1>2, <2>1
<1>6. ASSUME NEW p \in Processes, Crash(p),
             NEW q \in Processes, NEW s \in Requests
      PROVE  Known(q, s)'
  <2>1. exec'[q][s] = exec[q][s] \/ exec'[q][s].at = "idle"
    BY <1>6 DEF Crash, TypeInv, TypeOK, NoExecution
  <2>2. QED
    BY <1>1, <1>2, <2>1
<1>7. ASSUME Tick, NEW q \in Processes, NEW s \in Requests
      PROVE  Known(q, s)'
  <2>1. exec'[q][s].at = exec[q][s].at /\ exec'[q][s].ok = exec[q][s].ok
    BY <1>7, TickAges, AgedTyped
  <2>2. QED
    BY <1>1, <2>1
<1>8. ASSUME exec' = exec, NEW q \in Processes, NEW s \in Requests
      PROVE  Known(q, s)'
  BY <1>1, <1>8
<1>9. ASSUME NEW q \in Processes, NEW s \in Requests
      PROVE  Known(q, s)'
  <2>1. CASE \/ \E r \in Requests : Request(r)
             \/ \E p \in Processes, r \in Requests : Claim(p, r)
             \/ \E p \in Processes : FailInterrupted(p)
             \/ UNCHANGED vars
    BY <1>8, <2>1 DEF Request, Claim, Claimed, FailInterrupted, vars
  <2>2. QED
    BY <1>3, <1>4, <1>5, <1>6, <1>7, <2>1 DEF Next
<1>10. QED
  BY <1>9 DEF VerdictKnown

LEMMA AnnouncementsKept ==
  ASSUME TypeInv, VerdictKnown, AnnouncementsAgree, [Next]_vars
  PROVE  AnnouncementsAgree'
<1>1. SUFFICES ASSUME NEW s \in Requests
               PROVE  announced'[s] \subseteq {status'[s]}
  BY DEF AnnouncementsAgree
<1>2. announced[s] \subseteq {status[s]} /\ announced[s] \subseteq Settled
  BY DEF AnnouncementsAgree, TypeInv, TypeOK
<1>3. CASE announced'[s] = announced[s]
  <2>1. CASE announced[s] = {}
    BY <1>3, <2>1
  <2>2. CASE announced[s] # {}
    <3>1. status[s] \in Settled
      BY <1>2, <2>2
    <3>2. QED
      BY <1>2, <1>3, <3>1, VerdictsStay
  <2>3. QED
    BY <2>1, <2>2
<1>4. CASE announced'[s] # announced[s]
  <2>1. PICK p \in Processes, r \in Requests : Body(p, r)
    BY <1>4, RenewalMoves, ReturnEffect
       DEF Next, Request, Claim, Claimed, FailInterrupted, Crash, Tick, vars,
           TypeInv
  <2>2. /\ s = r /\ status' = status
        /\ \/ /\ exec[p][r].at = "announce"
              /\ announced'[s] = announced[s] \cup
                   {IF exec[p][r].ok THEN "success" ELSE "failed"}
           \/ /\ exec[p][r].at = "obituary"
              /\ announced'[s] = announced[s] \cup {"failed"}
    BY <1>4, <2>1, AnnouncementEffect DEF TypeInv
  <2>3. Known(p, r)
    BY DEF VerdictKnown
  <2>4. QED
    BY <1>2, <2>2, <2>3 DEF Known
<1>5. QED
  BY <1>3, <1>4

(* What is announced of a deployment is what the dashboard reads, and it   *)
(* is announced after the fact.                                            *)
THEOREM DeployAnnouncements == Spec => []AnnouncementsAgree
<1>1. Init => VerdictKnown /\ AnnouncementsAgree
  BY DEF Init, VerdictKnown, Known, AnnouncementsAgree, NoExecution
<1>2. TypeInv /\ [Next]_vars => TypeInv'
  BY TypeInvKept
<1>3. /\ TypeInv /\ VerdictKnown /\ AnnouncementsAgree
      /\ [Next]_vars
      => (VerdictKnown /\ AnnouncementsAgree)'
  BY VerdictKnownKept, AnnouncementsKept
<1>4. QED
  BY TypeInit, <1>1, <1>2, <1>3, PTL DEF Spec

----------------------------------------------------------------------------
(* The lifecycle implements DeployContract.                                *)

(* Requests take turns on the row, and who runs one has started it.        *)
Turns ==
  /\ \A r \in Requests : status[r] \in {"requested", "running"} => current = r
  /\ \A p \in Processes, r \in Requests : Runs(p, r) => runs[r] = 1

(* Steps after which every open request was open before, and every         *)
(* execution under way was.                                                *)
LEMMA TurnsFrame ==
  ASSUME Turns, current' = current, runs' = runs,
         \A p \in Processes, r \in Requests : Runs(p, r)' => Runs(p, r),
         \A r \in Requests :
           status'[r] \in {"requested", "running"} =>
             status[r] \in {"requested", "running"}
  PROVE  Turns'
  BY DEF Turns

LEMMA TurnsKept ==
  ASSUME ClaimInv, Turns, [Next]_vars
  PROVE  Turns'
<1> USE DEF ClaimInv, TypeInv
<1>1. ASSUME NEW r \in Requests, Request(r)
      PROVE  Turns'
  <2>1. \A s \in Requests : status[s] \notin {"requested", "running"}
    BY <1>1, DeployAssumption DEF Request, Turns
  <2>2. /\ current' = r
        /\ \A s \in Requests : s # r => status'[s] = status[s]
        /\ UNCHANGED <<exec, runs>>
    BY <1>1 DEF Request, TypeOK
  <2>3. QED
    BY <2>1, <2>2 DEF Turns, Runs
<1>2. ASSUME NEW p \in Processes, NEW r \in Requests, Claim(p, r)
      PROVE  Turns'
  BY <1>2, ClaimEffect, TurnsFrame DEF TypeOK, Runs
<1>3. ASSUME NEW p \in Processes, NEW r \in Requests,
             Renew(p, r) \/ \E own \in BOOLEAN : AskRenewal(p, r, own)
      PROVE  Turns'
  BY <1>3, RenewalMoves, MovesRun, TurnsFrame DEF Moves
<1>4. ASSUME NEW p \in Processes, NEW r \in Requests, Body(p, r)
      PROVE  Turns'
  <2>1. Moves(p, r) /\ Settlement(r)
    BY <1>4, BodyMoves, BodySettles
  <2>2. \A s \in Requests :
          status'[s] \in {"requested", "running"} => status'[s] = status[s]
    BY <2>1, SettlementEffect DEF Settled
  <2>3. QED
    BY <2>1, <2>2, MovesRun, TurnsFrame DEF Moves
<1>5. ASSUME NEW c \in answers, Returns(c)
      PROVE  Turns'
  <2>1. CASE UNCHANGED <<exec, runs>> /\ Settlement(c.request)
    <3>1. \A s \in Requests :
            status'[s] \in {"requested", "running"} => status'[s] = status[s]
      BY <1>5, <2>1, ReturnEffect, SettlementEffect DEF Settled
    <3>2. QED
      BY <1>5, <2>1, <3>1, ReturnEffect, TurnsFrame DEF Runs
  <2>2. CASE ~(UNCHANGED <<exec, runs>> /\ Settlement(c.request))
    <3> DEFINE p == c.by
               r == c.request
    <3>1. /\ p \in Processes /\ r \in Requests
          /\ UNCHANGED <<current, status>>
          /\ Others(p, r)
          /\ runs' = [runs EXCEPT ![r] = runs[r] + 1]
      BY <1>5, <2>2, ReturnEffect
    <3>2. Fresh(r)
      BY DEF OneClaim
    <3>3. /\ runs'[r] = 1
          /\ \A s \in Requests : s # r => runs'[s] = runs[s]
      BY <3>1, <3>2 DEF Fresh, TypeOK
    <3>4. \A q \in Processes, s \in Requests :
            s # r => exec'[q][s] = exec[q][s]
      BY <3>1 DEF Others
    <3>5. QED
      BY <3>1, <3>3, <3>4 DEF Turns, Runs
  <2>3. QED
    BY <2>1, <2>2
<1>6. ASSUME NEW p \in Processes, FailInterrupted(p)
      PROVE  Turns'
  BY <1>6, TurnsFrame DEF FailInterrupted, TypeOK, Runs
<1>7. ASSUME NEW p \in Processes, Crash(p)
      PROVE  Turns'
  <2>1. \A q \in Processes, s \in Requests : Runs(q, s)' => Runs(q, s)
    BY <1>7 DEF Crash, Runs, NoExecution, TypeOK
  <2>2. QED
    BY <1>7, <2>1, TurnsFrame DEF Crash
<1>8. CASE Tick
  <2>1. \A q \in Processes, s \in Requests : Runs(q, s)' => Runs(q, s)
    BY <1>8, TickAges, AgedTyped DEF Runs
  <2>2. QED
    BY <1>8, <2>1, TurnsFrame DEF Tick
<1>9. CASE UNCHANGED vars
  BY <1>9, TurnsFrame DEF vars, Runs
<1>10. QED
  BY <1>1, <1>2, <1>3, <1>4, <1>5, <1>6, <1>7, <1>8, <1>9 DEF Next

Writing(p, r) == exec[p][r].at = "write"

(* Only the owner of the row writes, so there is one writer.               *)
LEMMA OneWriter ==
  ASSUME ClaimInv, LeaseCovers, NEW p \in Processes, NEW r \in Requests,
         Writing(p, r), NEW q \in Processes, NEW s \in Requests, Runs(q, s),
         Writing(q, s) \/ current = s
  PROVE  q = p /\ s = r
<1>1. current = r
  BY DEF LeaseCovers, Covered, Writing, Owns, Matches
<1>2. current = s
  BY DEF LeaseCovers, Covered, Writing, Owns, Matches
<1>3. Runs(p, r)
  BY DEF Writing, Runs
<1>4. QED
  BY <1>1, <1>2, <1>3 DEF ClaimInv, OneClaim

LEMMA SameWriters ==
  ASSUME \A p \in Processes, r \in Requests :
           Writing(p, r)' <=> Writing(p, r)
  PROVE  Writers' = Writers
  BY DEF Writers, Writing

(* One verdict at a time, and none during a write.                         *)
LEMMA ContractDecides ==
  ASSUME TypeOK, NEW r \in Requests, NEW v \in {"success", "failed"},
         status[r] = "running", status' = [status EXCEPT ![r] = v],
         v = "success" => runs[r] = 1,
         Writers = {}, Writers' = {}, UNCHANGED <<runs, announced>>
  PROVE  Contract!Decide(r, v)
<1> DEFINE V == [s \in Requests |-> Verdict(s)]
<1>1. V[r] = "open"
  BY DEF Verdict
<1>2. \A s \in Requests : Verdict(s)' = IF s = r THEN v ELSE Verdict(s)
  BY DEF Verdict, TypeOK
<1>3. V' = [V EXCEPT ![r] = v]
  BY <1>2
<1>4. QED
  BY <1>1, <1>3 DEF Contract!Decide

(* What the contract does not see.                                         *)
Unseen == UNCHANGED <<status, runs, announced>> /\ Writers' = Writers

LEMMA ContractRests ==
  ASSUME Unseen
  PROVE  UNCHANGED Contract!vars
<1>1. \A s \in Requests : Verdict(s)' = Verdict(s)
  BY DEF Unseen, Verdict
<1>2. QED
  BY <1>1 DEF Unseen, Contract!vars

LEMMA RequestKeepsContract ==
  ASSUME ClaimInv, Turns, NEW r \in Requests, Request(r)
  PROVE  Contract!Ask(r)
<1> DEFINE V == [s \in Requests |-> Verdict(s)]
<1>1. \A s \in Requests : V[s] # "open"
  <2>1. \A s \in Requests : status[s] \notin {"requested", "running"}
    BY DeployAssumption DEF Request, Turns
  <2>2. QED
    BY <2>1 DEF Verdict, ClaimInv, TypeInv, TypeOK, Statuses
<1>2. V[r] = "none"
  BY DEF Request, Verdict
<1>3. \A s \in Requests : Verdict(s)' = IF s = r THEN "open" ELSE Verdict(s)
  BY DEF Request, Verdict, ClaimInv, TypeInv, TypeOK
<1>4. V' = [V EXCEPT ![r] = "open"]
  BY <1>3
<1>5. Writers' = Writers /\ UNCHANGED <<runs, announced>>
  BY DEF Request, Writers
<1>6. QED
  BY <1>1, <1>2, <1>4, <1>5 DEF Contract!Ask

LEMMA ClaimKeepsContract ==
  ASSUME TypeOK, NEW p \in Processes, NEW r \in Requests, Claim(p, r)
  PROVE  UNCHANGED Contract!vars
<1>1. \A s \in Requests : Verdict(s)' = Verdict(s)
  BY ClaimEffect DEF Verdict, TypeOK
<1>2. Writers' = Writers /\ UNCHANGED <<runs, announced>>
  BY ClaimEffect DEF Writers
<1>3. QED
  BY <1>1, <1>2 DEF Contract!vars

(* No renewal ends a write.                                                *)
LEMMA RenewalKeepsWrite ==
  ASSUME TypeInv, NEW p \in Processes, NEW r \in Requests, Writing(p, r),
         Renew(p, r) \/ \E own \in BOOLEAN : AskRenewal(p, r, own)
  PROVE  Writing(p, r)'
<1> DEFINE e == exec[p][r]
<1>1. e \in Execution /\ Regular(e) /\ TypeOK
  BY DEF TypeInv, TypeOK, ExecutionsRegular
<1>2. e.at = "write" /\ ~e.own
  BY <1>1 DEF Writing, Regular
<1> HIDE DEF e
<1>3. ASSUME NEW own \in BOOLEAN, AskRenewal(p, r, own)
      PROVE  Writing(p, r)'
  <2>1. exec'[p][r] = [e EXCEPT !.renewal = "asked", !.own = own, !.age = 0]
    BY <1>1, <1>3, SetGives DEF AskRenewal, e
  <2>2. QED
    BY <1>1, <1>2, <2>1 DEF Execution, Writing
<1>4. CASE ServeRenewal(p, r)
  <2>1. exec'[p][r] =
          [e EXCEPT !.renewal = IF Owns(p, r) THEN "yes" ELSE "no"]
    BY <1>1, <1>4, SetGives DEF ServeRenewal, e
  <2>2. QED
    BY <1>1, <1>2, <2>1 DEF Execution, Writing
<1>5. CASE RenewalReturns(p, r)
  <2>1. PICK ok \in BOOLEAN :
          Set(p, r, [e EXCEPT !.renewal = "none", !.own = FALSE, !.age = 0,
                              !.ok = e.at = "close" /\ e.own /\ ok,
                              !.at = IF e.own THEN AfterVerify(e) ELSE e.at])
    BY <1>5 DEF RenewalReturns, e
  <2> DEFINE g == [e EXCEPT !.renewal = "none", !.own = FALSE, !.age = 0,
                            !.ok = e.at = "close" /\ e.own /\ ok,
                            !.at = IF e.own THEN AfterVerify(e) ELSE e.at]
  <2>2. g.at = "write"
    BY <1>1, <1>2 DEF Execution
  <2>3. Set(p, r, g)
    BY <2>1
  <2> HIDE DEF g
  <2>4. exec'[p][r] = g
    BY <1>1, <2>3, SetGives
  <2>5. QED
    BY <2>2, <2>4 DEF Writing
<1>6. CASE RenewalFails(p, r)
  <2>1. exec'[p][r] = [e EXCEPT !.renewal = "none", !.own = FALSE, !.age = 0,
                                !.broken = TRUE]
    BY <1>1, <1>6, SetGives DEF RenewalFails, e
  <2>2. QED
    BY <1>1, <1>2, <2>1 DEF Execution, Writing
<1>7. QED
  BY <1>3, <1>4, <1>5, <1>6 DEF Renew

(* A renewal lets its execution write, and nobody else is writing.         *)
LEMMA RenewalKeepsContract ==
  ASSUME ClaimInv, ClaimInv', LeaseCovers, LeaseCovers', Turns,
         NEW p \in Processes, NEW r \in Requests,
         Renew(p, r) \/ \E own \in BOOLEAN : AskRenewal(p, r, own)
  PROVE  Contract!BeginWrite(r) \/ UNCHANGED Contract!vars
<1> USE DEF ClaimInv, TypeInv
<1>1. Moves(p, r) /\ UNCHANGED <<status, announced>>
  BY RenewalMoves
<1>2. \A q \in Processes, s \in Requests :
        q # p \/ s # r => (Writing(q, s)' <=> Writing(q, s))
  BY <1>1 DEF Moves, Others, Writing
<1>3. CASE Writing(p, r)' <=> Writing(p, r)
  <2>1. Writers' = Writers
    BY <1>2, <1>3, SameWriters
  <2>2. QED
    BY <1>1, <2>1, ContractRests DEF Moves, Unseen
<1>4. CASE ~(Writing(p, r)' <=> Writing(p, r))
  <2>1. Writing(p, r)' /\ ~Writing(p, r)
    <3>1. Writing(p, r) => Writing(p, r)'
      BY RenewalKeepsWrite
    <3>2. QED
      BY <1>4, <3>1
  <2>2. \A q \in Processes, s \in Requests :
          Writing(q, s)' => q = p /\ s = r
    BY <2>1 DEF Writing, LeaseCovers, Covered, OneClaim, Runs, Owns, Matches
  <2>3. Writers' = {r} /\ Writers = {}
    BY <1>2, <2>1, <2>2 DEF Writers, Writing
  <2>4. status[r] = "running" /\ runs[r] = 1
    BY <1>1, <2>1 DEF LeaseCovers, Covered, Writing, Owns, Matches, Turns, Moves
  <2>5. [s \in Requests |-> Verdict(s)]' = [s \in Requests |-> Verdict(s)]
    BY <1>1 DEF Verdict
  <2>6. Verdict(r) = "open"
    BY <2>4 DEF Verdict
  <2>7. QED
    BY <1>1, <2>3, <2>4, <2>5, <2>6 DEF Contract!BeginWrite, Moves
<1>5. QED
  BY <1>3, <1>4

LEMMA BodyKeepsContract ==
  ASSUME ClaimInv, VerdictKnown, AnnouncementsAgree, LeaseCovers, Turns,
         NEW p \in Processes, NEW r \in Requests, Body(p, r)
  PROVE  \/ Contract!EndWrite
         \/ \E v \in {"success", "failed"} : Contract!Decide(r, v)
         \/ Contract!Tell(r)
         \/ UNCHANGED Contract!vars
<1> USE DEF ClaimInv, TypeInv
<1> DEFINE e == exec[p][r]
<1>1. Moves(p, r) /\ e \in Execution
  BY BodyMoves DEF TypeOK
<1>2. \A q \in Processes, s \in Requests :
        q # p \/ s # r => (Writing(q, s)' <=> Writing(q, s))
  BY <1>1 DEF Moves, Others, Writing
<1>3. ASSUME NEW at \in Steps, Go(p, r, at)
      PROVE  exec'[p][r].at = at
  <2>1. exec'[p][r] = [e EXCEPT !.at = at]
    BY <1>3, GoEffect, SetGives
  <2>2. QED
    BY <1>1, <2>1 DEF Execution
<1>4. ASSUME End(p, r)
      PROVE  exec'[p][r].at = "idle"
  BY <1>4, SetEffect, NoExecutionTyped DEF End, NoExecution
<1>5. ASSUME ~Writing(p, r), ~Writing(p, r)'
      PROVE  Writers' = Writers
  BY <1>2, <1>5, SameWriters
<1>6. CASE WriteEnds(p, r)
  <2>1. exec'[p][r].at \in {"verify", "close", "abort"}
    BY <1>1, <1>6 DEF WriteEnds, Set, TypeOK, Execution
  <2>2. Writing(p, r) /\ ~Writing(p, r)'
    BY <1>6, <2>1 DEF WriteEnds, Writing
  <2>3. \A q \in Processes, s \in Requests :
          Writing(q, s) => q = p /\ s = r
    BY <2>2, OneWriter DEF Writing, Runs
  <2>4. Writers' = {}
    BY <1>2, <2>2, <2>3 DEF Writers, Writing
  <2>5. UNCHANGED <<status, runs, announced>>
    BY <1>6 DEF WriteEnds
  <2>6. [s \in Requests |-> Verdict(s)]' = [s \in Requests |-> Verdict(s)]
    BY <2>5 DEF Verdict
  <2>7. QED
    BY <2>4, <2>5, <2>6 DEF Contract!EndWrite
<1>7. CASE Abort(p, r) \/ HeartbeatStops(p, r)
  <2>1. ~Writing(p, r) /\ ~Writing(p, r)'
    BY <1>3, <1>7 DEF Abort, HeartbeatStops, Writing, Steps
  <2>2. UNCHANGED <<status, runs, announced>>
    BY <1>7 DEF Abort, HeartbeatStops
  <2>3. QED
    BY <1>5, <2>1, <2>2, ContractRests DEF Unseen
<1>8. CASE Settles(p, r) \/ SettlesFatally(p, r)
  <2>1. e.at \in {"settle", "fatal"} /\ UNCHANGED <<runs, announced>>
    BY <1>1, <1>8 DEF Settles, SettlesFatally, Moves
  <2>2. ~Writing(p, r) /\ ~Writing(p, r)'
    BY <1>3, <1>4, <1>8, <2>1 DEF Settles, SettlesFatally, Writing, Steps
  <2>3. Writers' = Writers
    BY <1>5, <2>2
  <2>4. CASE UNCHANGED <<status, claim>>
    BY <2>1, <2>3, <2>4, ContractRests DEF Unseen
  <2>5. CASE ~UNCHANGED <<status, claim>>
    <3>1. PICK token \in Nat, ok \in BOOLEAN : Settle(r, token, ok)
      BY <1>8, <2>5, BodySettles DEF Settlement
    <3>2. current = r /\ status[r] = "running"
      BY <3>1 DEF Settle, Matches
    <3>3. Writers = {}
      <4>1. \A q \in Processes, s \in Requests :
              Writing(q, s) => p = q /\ r = s
        BY <1>1, <3>2, OneWriter DEF Moves
      <4>2. QED
        BY <2>2, <4>1 DEF Writers, Writing
    <3>4. runs[r] = 1
      BY <1>1 DEF Moves, Turns
    <3> DEFINE v == IF ok THEN "success" ELSE "failed"
    <3>5. v \in {"success", "failed"} /\ status' = [status EXCEPT ![r] = v]
      BY <3>1 DEF Settle
    <3> HIDE DEF v
    <3>6. Contract!Decide(r, v)
      BY <2>1, <2>3, <3>2, <3>3, <3>4, <3>5, ContractDecides
    <3>7. QED
      BY <3>5, <3>6
  <2>6. QED
    BY <2>4, <2>5
<1>9. CASE Announce(p, r)
  <2> DEFINE v == IF e.at = "announce" /\ e.ok THEN "success" ELSE "failed"
  <2>1. /\ e.at \in {"announce", "obituary"}
        /\ announced' = [announced EXCEPT ![r] = announced[r] \cup {v}]
        /\ End(p, r)
        /\ UNCHANGED <<status, runs>>
    BY <1>9 DEF Announce
  <2>2. status[r] = v
    BY <2>1 DEF VerdictKnown, Known
  <2>3. announced[r] \subseteq {v}
    BY <2>2 DEF AnnouncementsAgree
  <2>4. v \in {"success", "failed"}
    OBVIOUS
  <2> HIDE DEF v
  <2>5. announced[r] \cup {v} = {v}
    BY <2>3
  <2>6. announced' = [announced EXCEPT ![r] = {v}]
    BY <2>1, <2>5
  <2>7. Verdict(r) = v
    BY <2>2, <2>4 DEF Verdict
  <2>8. Writers' = Writers
    BY <1>4, <1>5, <2>1 DEF Writing
  <2>9. [s \in Requests |-> Verdict(s)]' = [s \in Requests |-> Verdict(s)]
    BY <2>1 DEF Verdict
  <2>10. QED
    BY <2>1, <2>4, <2>6, <2>7, <2>8, <2>9 DEF Contract!Tell
<1>10. QED
  BY <1>6, <1>7, <1>8, <1>9 DEF Body

(* The answer of a claim starts its request or, while nobody carries it    *)
(* out, fails it.                                                          *)
LEMMA ReturnKeepsContract ==
  ASSUME ClaimInv, LeaseCovers, Turns, NEW c \in answers, Returns(c)
  PROVE  \/ Contract!Start(c.request)
         \/ Contract!Decide(c.request, "failed")
         \/ UNCHANGED Contract!vars
<1> USE DEF ClaimInv, TypeInv
<1> DEFINE r == c.request
<1>1. r \in Requests /\ UNCHANGED <<current, announced>>
  BY ReturnEffect
<1>2. Fresh(r) /\ status[r] # "idle"
  BY <1>1 DEF OneClaim
<1>3. CASE UNCHANGED <<exec, runs>> /\ Settlement(r)
  <2>1. Writers' = Writers
    BY <1>3 DEF Writers
  <2>2. CASE UNCHANGED <<status, claim>>
    BY <1>1, <1>3, <2>1, <2>2, ContractRests DEF Unseen
  <2>3. CASE ~UNCHANGED <<status, claim>>
    <3>1. Settle(r, c.token, FALSE)
      BY <1>3, <2>3
         DEF Returns, ClaimReturns, ClaimRefused, ClaimLost, SettleCall,
             SettleLost
    <3>2. /\ current = r /\ status[r] = "running"
          /\ status' = [status EXCEPT ![r] = "failed"]
      BY <3>1 DEF Settle, Matches
    <3>3. Writers = {}
      <4>1. ASSUME NEW q \in Processes, NEW s \in Requests, Writing(q, s)
            PROVE  FALSE
        <5>1. s = r
          BY <3>2, <4>1 DEF LeaseCovers, Covered, Writing, Owns, Matches
        <5>2. QED
          BY <1>2, <4>1, <5>1 DEF Fresh, Runs, Writing
      <4>2. QED
        BY <4>1 DEF Writers, Writing
    <3>4. QED
      BY <1>1, <1>3, <2>1, <3>2, <3>3, ContractDecides
  <2>4. QED
    BY <2>2, <2>3
<1>4. CASE ~(UNCHANGED <<exec, runs>> /\ Settlement(r))
  <2>1. /\ c.by \in Processes
        /\ UNCHANGED <<status, claim>>
        /\ Others(c.by, r)
        /\ exec'[c.by][r].at = "verify"
        /\ runs' = [runs EXCEPT ![r] = runs[r] + 1]
    BY <1>4, ReturnEffect
  <2>2. runs[r] = 0 /\ runs' = [runs EXCEPT ![r] = 1]
    BY <1>2, <2>1 DEF Fresh
  <2>3. ~Writing(c.by, r) /\ ~Writing(c.by, r)'
    BY <1>2, <2>1 DEF Fresh, Runs, Writing
  <2>4. Writers' = Writers
    BY <2>1, <2>3, SameWriters DEF Others, Writing
  <2>5. [s \in Requests |-> Verdict(s)]' = [s \in Requests |-> Verdict(s)]
    BY <2>1 DEF Verdict
  <2>6. Verdict(r) # "none"
    BY <1>1, <1>2 DEF Verdict, TypeOK, Statuses
  <2>7. QED
    BY <1>1, <2>2, <2>4, <2>5, <2>6 DEF Contract!Start
<1>5. QED
  BY <1>3, <1>4

(* Recovery fails a request whose lease has run out: nobody writes then.   *)
LEMMA RecoveryKeepsContract ==
  ASSUME ClaimInv, LeaseCovers, NEW p \in Processes, FailInterrupted(p)
  PROVE  current \in Requests /\ Contract!Decide(current, "failed")
<1> USE DEF ClaimInv, TypeInv
<1>1. /\ current \in Requests /\ status[current] = "running"
      /\ claim.left = 0
      /\ status' = [status EXCEPT ![current] = "failed"]
      /\ UNCHANGED <<exec, runs, announced>>
  BY DEF FailInterrupted, TypeOK
<1>2. Writers = {}
  BY <1>1 DEF Writers, LeaseCovers, Covered, Owns, Matches
<1>3. Writers' = {}
  BY <1>1, <1>2 DEF Writers
<1>4. QED
  BY <1>1, <1>2, <1>3, ContractDecides

LEMMA CrashKeepsContract ==
  ASSUME ClaimInv, LeaseCovers, NEW p \in Processes, Crash(p)
  PROVE  Contract!EndWrite \/ UNCHANGED Contract!vars
<1> USE DEF ClaimInv, TypeInv
<1>1. UNCHANGED <<status, runs, announced>>
  BY DEF Crash
<1>2. \A q \in Processes, s \in Requests :
        Writing(q, s)' <=> q # p /\ Writing(q, s)
  BY DEF Crash, TypeOK, Writing, NoExecution
<1>3. CASE \E s \in Requests : Writing(p, s)
  <2>1. \A q \in Processes, s \in Requests : Writing(q, s) => q = p
    BY <1>3, OneWriter DEF Writing, Runs
  <2>2. Writers' = {}
    BY <1>2, <2>1 DEF Writers, Writing
  <2>3. [s \in Requests |-> Verdict(s)]' = [s \in Requests |-> Verdict(s)]
    BY <1>1 DEF Verdict
  <2>4. QED
    BY <1>1, <2>2, <2>3 DEF Contract!EndWrite
<1>4. CASE \A s \in Requests : ~Writing(p, s)
  BY <1>1, <1>2, <1>4, SameWriters, ContractRests DEF Unseen
<1>5. QED
  BY <1>3, <1>4

LEMMA ContractStep ==
  ASSUME ClaimInv, ClaimInv', LeaseCovers, LeaseCovers', VerdictKnown,
         AnnouncementsAgree, Turns, [Next]_vars
  PROVE  [Contract!Next]_(Contract!vars)
<1>1. ASSUME NEW r \in Requests, Request(r)
      PROVE  Contract!Next
  BY <1>1, RequestKeepsContract DEF Contract!Next
<1>2. ASSUME NEW p \in Processes, NEW r \in Requests, Claim(p, r)
      PROVE  UNCHANGED Contract!vars
  BY <1>2, ClaimKeepsContract DEF ClaimInv, TypeInv
<1>3. ASSUME NEW p \in Processes, NEW r \in Requests,
             Renew(p, r) \/ \E own \in BOOLEAN : AskRenewal(p, r, own)
      PROVE  Contract!Next \/ UNCHANGED Contract!vars
  BY <1>3, RenewalKeepsContract DEF Contract!Next
<1>4. ASSUME NEW p \in Processes, NEW r \in Requests, Body(p, r)
      PROVE  Contract!Next \/ UNCHANGED Contract!vars
  BY <1>4, BodyKeepsContract DEF Contract!Next
<1>5. ASSUME NEW c \in answers, Returns(c)
      PROVE  Contract!Next \/ UNCHANGED Contract!vars
  <2>1. c.request \in Requests
    BY <1>5, ReturnEffect DEF ClaimInv, TypeInv
  <2>2. QED
    BY <1>5, <2>1, ReturnKeepsContract DEF Contract!Next
<1>6. ASSUME NEW p \in Processes, FailInterrupted(p)
      PROVE  Contract!Next
  BY <1>6, RecoveryKeepsContract DEF Contract!Next
<1>7. ASSUME NEW p \in Processes, Crash(p)
      PROVE  Contract!Next \/ UNCHANGED Contract!vars
  BY <1>7, CrashKeepsContract DEF Contract!Next
<1>8. CASE Tick
  <2>1. \A p \in Processes, r \in Requests :
          Writing(p, r)' <=> Writing(p, r)
    BY <1>8, TickAges, AgedTyped DEF Writing, ClaimInv
  <2>2. QED
    BY <1>8, <2>1, SameWriters, ContractRests DEF Unseen, Tick
<1>9. CASE UNCHANGED vars
  <2>1. Unseen
    BY <1>9 DEF vars, Unseen, Writers
  <2>2. QED
    BY <2>1, ContractRests
<1>10. QED
  BY <1>1, <1>2, <1>3, <1>4, <1>5, <1>6, <1>7, <1>8, <1>9 DEF Next

(* Claims, leases, renewals and recovery implement what the operator of a  *)
(* guild may rely on: deployments one after the other, each started once,  *)
(* and a verdict only when no write of it is under way.                    *)
THEOREM DeployKeepsContract == Spec => KeepsDeployContract
<1> DEFINE Inv == /\ ClaimInv /\ LeaseCovers /\ VerdictKnown
                  /\ AnnouncementsAgree /\ Turns
<1>1. Init => Contract!Init
  BY DEF Init, Contract!Init, Verdict, Writers, NoExecution
<1>2. Init => Inv
  BY TypeInit
     DEF Init, ClaimInv, OneClaim, Fresh, Runs, NoExecution, LeaseCovers,
         Covered, VerdictKnown, Known, AnnouncementsAgree, Turns
<1>3. Inv /\ [Next]_vars => Inv'
  BY TypeInvKept, OneClaimKept, LeaseCoversKept, VerdictKnownKept,
     AnnouncementsKept, TurnsKept DEF ClaimInv
<1>4. Inv /\ Inv' /\ [Next]_vars => [Contract!Next]_(Contract!vars)
  BY ContractStep
<1> HIDE DEF Inv
<1>5. QED
  BY <1>1, <1>2, <1>3, <1>4, PTL
     DEF Spec, KeepsDeployContract, Contract!Spec
=============================================================================
