------------------------- MODULE RuntimeLeaseProofs -------------------------
(***************************************************************************)
(* Proofs about the runtime lease, for any sessions.  What the lease       *)
(* promises needs a relation between the times that LeaseAssumption does   *)
(* not state: TimelyLoss.                                                  *)
(***************************************************************************)
EXTENDS RuntimeLease, TLAPS

(* The interval timer looks at the deadline once per period, so a runtime  *)
(* leaves the gateway at the first multiple of the period by which an      *)
(* answer that was MaxDelay late is LossDeadline old.  A claim was served  *)
(* up to MaxDelay before its answer started the timer; the lease has to    *)
(* outlast both.  With a period of 10 s, a deadline of 35 s and a lease of *)
(* 45 s, it does for round trips under 5 s.                                *)
Multiples == {k * HeartbeatPeriod : k \in Nat}

Timely(exit) ==
  /\ LossDeadline + MaxDelay <= exit
  /\ exit + MaxDelay < TTL

TimelyLoss == \E exit \in Multiples : Timely(exit)

(* A runtime whose timer runs and has not reported the loss of the lease.  *)
Held(s) == runtime[s].phase \in Holding /\ ~runtime[s].lost

LossLeavesGateway ==
  \A s \in Sessions :
    runtime[s].lost => runtime[s].phase \in {"disconnected", "gone"}

(* RPCs do not outlive the phase that sends them, except that of a runtime *)
(* that is gone; and a session claims once.                                *)
CallsInPhase ==
  /\ \A c \in calls :
       /\ c.op = "claim" => runtime[c.by].phase \in {"claiming", "gone"}
       /\ c.op = "heartbeat" => runtime[c.by].phase \in Holding \cup {"gone"}
       /\ c.op = "release" => runtime[c.by].phase = "gone"
  /\ \A c, d \in calls :
       c.by = d.by /\ c.op = "claim" /\ d.op = "claim" => c = d

(* The lease was given its full time since c was sent.                     *)
Renewed(c) == lease.holder = c.by /\ lease.left + c.age >= TTL

Claiming(c) ==
  c.op = "claim" /\ c.answer = "yes" /\ runtime[c.by].phase = "claiming"

(* A heartbeat is sent when the timer fires.                               *)
OnBeat(c) ==
  \E m \in Multiples : c.age + runtime[c.by].due = m + HeartbeatPeriod

CallTimed(c) ==
  /\ Claiming(c) => Renewed(c)
  /\ c.op = "heartbeat" /\ Held(c.by) =>
       OnBeat(c) /\ (c.answer = "yes" => Renewed(c))

CallsTimed == \A c \in calls : CallTimed(c)

(* What holds m and the part of a period that has passed since the last    *)
(* renewal of s: the lease had its full time at most MaxDelay earlier, and *)
(* the deadline counts at most MaxDelay less.                              *)
CoveredFrom(s, m) ==
  /\ lease.left + m + HeartbeatPeriod + MaxDelay >= TTL + runtime[s].due
  /\ \/ runtime[s].since = LossDeadline
     \/ runtime[s].since + runtime[s].due + MaxDelay >= m + HeartbeatPeriod

Covered(s, exit) ==
  /\ lease.holder = s
  /\ \E m \in Multiples : m + HeartbeatPeriod <= exit /\ CoveredFrom(s, m)

LeaseCovers(exit) == \A s \in Sessions : Held(s) => Covered(s, exit)

----------------------------------------------------------------------------
(* Multiples of the period.                                                *)

LEMMA MultipleFacts ==
  /\ Multiples \subseteq Nat
  /\ 0 \in Multiples
  /\ \A m \in Multiples : m + HeartbeatPeriod \in Multiples
<1> USE LeaseAssumption
<1>1. Multiples \subseteq Nat
  BY DEF Multiples
<1>2. 0 \in Multiples
  <2>1. 0 * HeartbeatPeriod = 0
    OBVIOUS
  <2>2. QED
    BY <2>1, Zenon DEF Multiples
<1>3. ASSUME NEW m \in Multiples
      PROVE  m + HeartbeatPeriod \in Multiples
  <2>1. PICK k \in Nat : m = k * HeartbeatPeriod
    BY DEF Multiples
  <2>2. m + HeartbeatPeriod = (k + 1) * HeartbeatPeriod
    BY <2>1
  <2>3. k + 1 \in Nat
    OBVIOUS
  <2>4. QED
    BY <2>2, <2>3, Zenon DEF Multiples
<1>4. QED
  BY <1>1, <1>2, <1>3

LEMMA NextMultiple ==
  ASSUME NEW m \in Multiples, NEW n \in Multiples, m < n
  PROVE  m + HeartbeatPeriod <= n
<1> USE LeaseAssumption
<1>1. PICK j \in Nat : m = j * HeartbeatPeriod
  BY DEF Multiples
<1>2. PICK k \in Nat : n = k * HeartbeatPeriod
  BY DEF Multiples
<1>3. j < k
  <2>1. SUFFICES ASSUME k <= j PROVE FALSE
    BY <1>1, <1>2
  <2>2. k * HeartbeatPeriod <= j * HeartbeatPeriod
    BY <2>1
  <2>3. QED
    BY <1>1, <1>2, <2>2
<1>4. (j + 1) * HeartbeatPeriod <= k * HeartbeatPeriod
  BY <1>3
<1>5. (j + 1) * HeartbeatPeriod = j * HeartbeatPeriod + HeartbeatPeriod
  OBVIOUS
<1>6. QED
  BY <1>1, <1>2, <1>4, <1>5

LEMMA ExitFacts ==
  ASSUME NEW exit \in Multiples, Timely(exit)
  PROVE  HeartbeatPeriod <= exit /\ exit \in Nat /\ MaxDelay < exit
<1>1. exit \in Nat /\ 0 < exit /\ 0 \in Multiples
  BY MultipleFacts, LeaseAssumption DEF Timely
<1>2. 0 + HeartbeatPeriod <= exit
  BY <1>1, NextMultiple
<1>3. QED
  BY <1>1, <1>2, LeaseAssumption DEF Timely

----------------------------------------------------------------------------
(* Types.                                                                  *)

LeaseRow == [holder : Sessions \cup {NoSession}, left : 0..TTL]

LEMMA Zeros ==
  /\ 0 \in 0..TTL /\ TTL \in 0..TTL
  /\ 0 \in 0..LossDeadline /\ 0 \in 0..MaxDelay
  /\ 0 \in 0..HeartbeatPeriod /\ HeartbeatPeriod \in 0..HeartbeatPeriod
  BY LeaseAssumption

LEMMA AskTyped ==
  ASSUME NEW s \in Sessions, NEW o \in {"claim", "heartbeat", "release"}
  PROVE  /\ Ask(s, o) \in Call
         /\ Ask(s, o).by = s /\ Ask(s, o).op = o
         /\ Ask(s, o).age = 0 /\ Ask(s, o).answer = "none"
  BY Zeros DEF Ask, Call

LEMMA AnsweredTyped ==
  ASSUME NEW c \in Call, NEW yes \in BOOLEAN
  PROVE  /\ Answered(c, yes) \in Call
         /\ Answered(c, yes).by = c.by /\ Answered(c, yes).op = c.op
         /\ Answered(c, yes).age = c.age
         /\ Answered(c, yes).answer = IF yes THEN "yes" ELSE "no"
  BY DEF Answered, Call

LEMMA GoTyped ==
  ASSUME TypeOK, NEW s \in Sessions, NEW ph \in Phases, Go(s, ph)
  PROVE  /\ runtime' \in [Sessions -> Runtime]
         /\ runtime'[s] = [runtime[s] EXCEPT !.phase = ph]
         /\ \A t \in Sessions : t # s => runtime'[t] = runtime[t]
  BY DEF TypeOK, Go, Runtime

(* The database: an answer goes back, no other call is touched, and nobody *)
(* but its holder shortens a lease that has time left.                     *)
LEMMA ServeEffect ==
  ASSUME TypeOK, NEW c \in calls, Serve(c)
  PROVE  /\ runtime' = runtime
         /\ lease' \in LeaseRow
         /\ \/ c.op = "release" /\ calls' = calls \ {c}
            \/ \E yes \in BOOLEAN :
                 /\ c.op \in {"claim", "heartbeat"}
                 /\ calls' = (calls \ {c}) \cup {Answered(c, yes)}
                 /\ yes => lease' = [holder |-> c.by, left |-> TTL]
         /\ \A s \in Sessions :
              /\ lease.holder = s /\ lease.left > 0
              /\ c.op = "release" => c.by # s
              => lease'.holder = s /\ lease'.left >= lease.left
<1>1. /\ c \in Call /\ c.by \in Sessions
      /\ lease \in LeaseRow /\ lease.left \in 0..TTL
      /\ TTL \in Nat
  BY LeaseAssumption DEF TypeOK, Call, LeaseRow
<1>2. NoSession \notin Sessions
  BY LeaseAssumption
<1> USE Zeros
<1>3. CASE ServeClaim(c)
  <2>1. CASE Free
    <3>1. /\ lease' = [holder |-> c.by, left |-> TTL]
          /\ calls' = (calls \ {c}) \cup {Answered(c, TRUE)}
      BY <1>3, <2>1 DEF ServeClaim, Answer, Answered
    <3>2. \A s \in Sessions : ~(lease.holder = s /\ lease.left > 0)
      BY <1>1, <1>2, <2>1 DEF Free
    <3>3. lease' \in LeaseRow
      BY <1>1, <3>1 DEF LeaseRow
    <3>4. QED
      BY <1>3, <3>1, <3>2, <3>3 DEF Serve, ServeClaim
  <2>2. CASE ~Free
    <3>1. /\ lease' = lease
          /\ calls' = (calls \ {c}) \cup {Answered(c, FALSE)}
      BY <1>3, <2>2 DEF ServeClaim, Answer, Answered
    <3>2. lease' \in LeaseRow /\ lease'.left >= lease.left
      BY <1>1, <3>1
    <3>3. /\ c.op \in {"claim", "heartbeat"}
          /\ calls' = (calls \ {c}) \cup {Answered(c, FALSE)}
          /\ FALSE => lease' = [holder |-> c.by, left |-> TTL]
      BY <1>3, <3>1 DEF ServeClaim
    <3>4. QED
      BY <3>1, <3>2, <3>3 DEF Serve
  <2>3. QED
    BY <2>1, <2>2
<1>4. CASE ServeHeartbeat(c)
  <2> DEFINE ok == lease.holder = c.by /\ lease.left > 0
  <2>1. /\ lease' = IF ok THEN [lease EXCEPT !.left = TTL] ELSE lease
        /\ calls' = (calls \ {c}) \cup {Answered(c, ok)}
    BY <1>4 DEF ServeHeartbeat, Answer
  <2>2. ok \in BOOLEAN
    OBVIOUS
  <2>3. ok => lease' = [holder |-> c.by, left |-> TTL]
    BY <1>1, <2>1 DEF LeaseRow
  <2>4. lease' \in LeaseRow
    BY <1>1, <2>1 DEF LeaseRow
  <2>5. \A s \in Sessions :
          lease.holder = s => lease'.holder = s /\ lease'.left >= lease.left
    BY <1>1, <2>1, <2>3
  <2> HIDE DEF ok
  <2>6. QED
    BY <1>4, <2>1, <2>2, <2>3, <2>4, <2>5 DEF Serve, ServeHeartbeat
<1>5. CASE ServeRelease(c)
  <2>1. lease' = IF lease.holder = c.by
                 THEN [holder |-> NoSession, left |-> 0] ELSE lease
    BY <1>5 DEF ServeRelease
  <2>2. lease' \in LeaseRow
    BY <1>1, <2>1 DEF LeaseRow
  <2>3. QED
    BY <1>1, <1>5, <2>1, <2>2 DEF Serve, ServeRelease
<1>6. QED
  BY <1>3, <1>4, <1>5 DEF Serve

LEMMA TickEffect ==
  ASSUME TypeOK, Tick
  PROVE  /\ lease' \in LeaseRow
         /\ lease'.holder = lease.holder
         /\ lease'.left = IF lease.left = 0 THEN 0 ELSE lease.left - 1
         /\ runtime' \in [Sessions -> Runtime]
         /\ \A s \in Sessions :
              /\ runtime'[s].phase = runtime[s].phase
              /\ runtime'[s].lost = runtime[s].lost
              /\ runtime[s].phase \in Holding =>
                   /\ runtime'[s].due = runtime[s].due - 1
                   /\ runtime'[s].since =
                        IF runtime[s].since < LossDeadline
                        THEN runtime[s].since + 1 ELSE runtime[s].since
         /\ \A d \in calls' :
              \E c \in calls :
                /\ d = [c EXCEPT !.age = c.age + 1]
                /\ d \in Call
                /\ d.by = c.by /\ d.op = c.op /\ d.answer = c.answer
                /\ d.age = c.age + 1
<1>1. /\ lease' \in LeaseRow
      /\ lease'.holder = lease.holder
      /\ lease'.left = IF lease.left = 0 THEN 0 ELSE lease.left - 1
  <2> DEFINE left == IF lease.left = 0 THEN 0 ELSE lease.left - 1
  <2>1. lease' = [lease EXCEPT !.left = left]
    BY DEF Tick, Less
  <2>2. left \in 0..TTL
    BY LeaseAssumption DEF TypeOK
  <2>3. lease \in LeaseRow
    BY DEF TypeOK, LeaseRow
  <2> HIDE DEF left
  <2>4. /\ lease' \in LeaseRow
        /\ lease'.holder = lease.holder /\ lease'.left = left
    BY <2>1, <2>2, <2>3 DEF LeaseRow
  <2>5. QED
    BY <2>4 DEF left
<1>2. ASSUME NEW s \in Sessions
      PROVE  /\ runtime'[s] \in Runtime
             /\ runtime'[s].phase = runtime[s].phase
             /\ runtime'[s].lost = runtime[s].lost
             /\ runtime[s].phase \in Holding =>
                  /\ runtime'[s].due = runtime[s].due - 1
                  /\ runtime'[s].since =
                       IF runtime[s].since < LossDeadline
                       THEN runtime[s].since + 1 ELSE runtime[s].since
  <2> DEFINE r == runtime[s]
             late == IF r.since < LossDeadline THEN r.since + 1 ELSE r.since
  <2>1. r \in Runtime
    BY DEF TypeOK
  <2>2. CASE r.phase \in Holding
    <3>1. runtime'[s] = [r EXCEPT !.due = r.due - 1, !.since = late]
      BY <2>2 DEF Tick
    <3>2. r.due - 1 \in 0..HeartbeatPeriod
      <4>1. r.due > 0
        BY <2>2 DEF Tick
      <4>2. r.due \in 0..HeartbeatPeriod
        BY <2>1 DEF Runtime
      <4>3. QED
        BY <4>1, <4>2, LeaseAssumption
    <3>3. late \in 0..LossDeadline
      BY <2>1, LeaseAssumption DEF Runtime
    <3> HIDE DEF late
    <3>4. /\ runtime'[s] \in Runtime
          /\ runtime'[s].phase = r.phase /\ runtime'[s].lost = r.lost
          /\ runtime'[s].due = r.due - 1 /\ runtime'[s].since = late
      BY <2>1, <3>1, <3>2, <3>3 DEF Runtime
    <3>5. QED
      BY <3>4 DEF late
  <2>3. CASE r.phase \notin Holding
    BY <2>1, <2>3 DEF Tick
  <2>4. QED
    BY <2>2, <2>3
<1>3. runtime' \in [Sessions -> Runtime]
  BY <1>2 DEF Tick
<1>4. ASSUME NEW d \in calls'
      PROVE  \E c \in calls :
               /\ d = [c EXCEPT !.age = c.age + 1]
               /\ d \in Call
               /\ d.by = c.by /\ d.op = c.op /\ d.answer = c.answer
               /\ d.age = c.age + 1
  <2>1. PICK c \in calls : d = [c EXCEPT !.age = c.age + 1]
    BY DEF Tick
  <2>2. c \in Call /\ c.age < MaxDelay
    BY DEF Tick, TypeOK
  <2>3. c.age + 1 \in 0..MaxDelay
    BY <2>2, LeaseAssumption DEF Call
  <2>4. QED
    BY <2>1, <2>2, <2>3 DEF Call
<1>5. QED
  BY <1>1, <1>2, <1>3, <1>4

(* A runtime goes from one phase to the next: its timer stays as it is, it *)
(* enters the phases in which it holds the lease only by an answer, and    *)
(* nothing goes to the database but its claim and its release.             *)
Moves(s) ==
  Start(s) \/ Login(s) \/ Signal(s) \/ Disconnect(s) \/ Release(s) \/ Crash(s)

LEMMA MoveEffect ==
  ASSUME TypeOK, NEW s \in Sessions, Moves(s)
  PROVE  /\ lease' = lease
         /\ runtime' \in [Sessions -> Runtime]
         /\ \A t \in Sessions : t # s => runtime'[t] = runtime[t]
         /\ runtime'[s].since = runtime[s].since
         /\ runtime'[s].due = runtime[s].due
         /\ runtime'[s].lost = runtime[s].lost
         /\ \/ /\ runtime[s].phase = "down" /\ runtime'[s].phase = "claiming"
               /\ calls' = calls \cup {Ask(s, "claim")}
            \/ /\ runtime[s].phase \in {"starting", "disconnected"}
               /\ runtime'[s].phase = "gone"
               /\ calls' = calls \cup {Ask(s, "release")}
            \/ /\ runtime[s].phase \in Holding
               /\ \/ runtime'[s].phase \in {"disconnected", "gone"}
                  \/ /\ runtime[s].phase \notin {"disconnected", "gone"}
                     /\ runtime'[s].phase \in Holding
               /\ calls' = calls
            \/ /\ runtime[s].phase = "claiming" /\ runtime'[s].phase = "gone"
               /\ calls' = calls
<1>1. PICK ph \in Phases :
        /\ Go(s, ph)
        /\ \/ /\ runtime[s].phase = "down" /\ ph = "claiming"
              /\ calls' = calls \cup {Ask(s, "claim")}
           \/ /\ runtime[s].phase \in {"starting", "disconnected"}
              /\ ph = "gone"
              /\ calls' = calls \cup {Ask(s, "release")}
           \/ /\ runtime[s].phase \in Holding
              /\ \/ ph \in {"disconnected", "gone"}
                 \/ /\ runtime[s].phase \notin {"disconnected", "gone"}
                    /\ ph \in Holding
              /\ calls' = calls
           \/ /\ runtime[s].phase = "claiming" /\ ph = "gone"
              /\ calls' = calls
  <2>1. CASE Start(s)
    BY <2>1 DEF Start, Phases
  <2>2. CASE Login(s)
    BY <2>2 DEF Login, Phases, Holding
  <2>3. CASE Signal(s)
    BY <2>3 DEF Signal, Phases, Holding
  <2>4. CASE Disconnect(s)
    BY <2>4 DEF Disconnect, Phases, Holding
  <2>5. CASE Release(s)
    BY <2>5 DEF Release, Phases
  <2>6. CASE Crash(s)
    BY <2>6 DEF Crash, Phases, Holding
  <2>7. QED
    BY <2>1, <2>2, <2>3, <2>4, <2>5, <2>6 DEF Moves
<1>2. lease' = lease
  BY DEF Moves, Start, Login, Signal, Disconnect, Release, Crash
<1>3. /\ runtime' \in [Sessions -> Runtime]
      /\ runtime'[s] = [runtime[s] EXCEPT !.phase = ph]
      /\ \A t \in Sessions : t # s => runtime'[t] = runtime[t]
  BY <1>1, GoTyped
<1>4. runtime[s] \in Runtime
  BY DEF TypeOK
<1>5. /\ runtime'[s].phase = ph
      /\ runtime'[s].since = runtime[s].since
      /\ runtime'[s].due = runtime[s].due
      /\ runtime'[s].lost = runtime[s].lost
  BY <1>3, <1>4 DEF Runtime
<1>6. QED
  BY <1>1, <1>2, <1>3, <1>5

LEMMA TimerEffect ==
  ASSUME TypeOK, NEW s \in Sessions, TimerFires(s)
  PROVE  /\ lease' = lease
         /\ runtime' \in [Sessions -> Runtime]
         /\ \A t \in Sessions : t # s => runtime'[t] = runtime[t]
         /\ runtime[s].phase \in Holding /\ runtime[s].due = 0
         /\ runtime'[s].since = runtime[s].since
         /\ runtime'[s].due = HeartbeatPeriod
         /\ \/ /\ runtime'[s].phase = "disconnected"
               /\ runtime'[s].lost
               /\ calls' = calls
            \/ /\ runtime'[s].phase = runtime[s].phase
               /\ runtime'[s].lost = runtime[s].lost
               /\ runtime[s].lost \/ runtime[s].since < LossDeadline
               /\ calls' = calls \cup {Ask(s, "heartbeat")}
<1> DEFINE r == runtime[s]
<1>1. /\ r \in Runtime /\ r.since \in 0..LossDeadline
      /\ runtime \in [Sessions -> Runtime]
  BY DEF TypeOK, Runtime
<1>2. lease' = lease /\ r.phase \in Holding /\ r.due = 0
  BY DEF TimerFires
<1>3. CASE ~r.lost /\ r.since >= LossDeadline
  <2> DEFINE f == [r EXCEPT !.due = HeartbeatPeriod, !.lost = TRUE,
                            !.phase = "disconnected"]
  <2>1. runtime' = [runtime EXCEPT ![s] = f] /\ calls' = calls
    BY <1>1, <1>3 DEF TimerFires
  <2>2. /\ f \in Runtime /\ f.since = r.since /\ f.due = HeartbeatPeriod
        /\ f.lost /\ f.phase = "disconnected"
    BY <1>1, Zeros DEF Runtime, Phases
  <2> HIDE DEF f
  <2>3. QED
    BY <1>1, <1>2, <2>1, <2>2
<1>4. CASE ~(~r.lost /\ r.since >= LossDeadline)
  <2> DEFINE f == [r EXCEPT !.due = HeartbeatPeriod]
  <2>1. /\ runtime' = [runtime EXCEPT ![s] = f]
        /\ calls' = calls \cup {Ask(s, "heartbeat")}
    BY <1>1, <1>4 DEF TimerFires
  <2>2. /\ f \in Runtime /\ f.since = r.since /\ f.due = HeartbeatPeriod
        /\ f.lost = r.lost /\ f.phase = r.phase
    BY <1>1, Zeros DEF Runtime
  <2>3. r.lost \/ r.since < LossDeadline
    BY <1>1, <1>4, LeaseAssumption
  <2> HIDE DEF f
  <2>4. QED
    BY <1>1, <1>2, <2>1, <2>2, <2>3
<1>5. QED
  BY <1>3, <1>4

(* An answer, or the loss of a call: the boot goes on or fails, or a       *)
(* heartbeat counts as a success from now.                                 *)
LEMMA AnswerEffect ==
  ASSUME TypeOK, NEW c \in calls, Receive(c) \/ Lose(c)
  PROVE  /\ lease' = lease
         /\ calls' = calls \ {c}
         /\ c.by \in Sessions
         /\ runtime' \in [Sessions -> Runtime]
         /\ \A t \in Sessions : t # c.by => runtime'[t] = runtime[t]
         /\ \/ runtime' = runtime
            \/ /\ c.op = "claim" /\ runtime[c.by].phase = "claiming"
               /\ runtime'[c.by].phase = "gone"
            \/ /\ c.op = "claim" /\ c.answer = "yes"
               /\ runtime[c.by].phase = "claiming"
               /\ runtime'[c.by].phase = "starting" /\ ~runtime'[c.by].lost
               /\ runtime'[c.by].since = 0
               /\ runtime'[c.by].due = HeartbeatPeriod
            \/ /\ c.op = "heartbeat" /\ c.answer = "yes"
               /\ runtime'[c.by].phase = runtime[c.by].phase
               /\ runtime'[c.by].lost = runtime[c.by].lost
               /\ runtime'[c.by].since = 0
               /\ runtime'[c.by].due = runtime[c.by].due
<1>1. c \in Call /\ c.by \in Sessions /\ runtime \in [Sessions -> Runtime]
  BY DEF TypeOK, Call
<1>2. runtime[c.by] \in Runtime
  BY <1>1
<1>3. lease' = lease /\ calls' = calls \ {c}
  BY DEF Receive, Lose
<1>4. CASE runtime' = runtime
  BY <1>1, <1>3, <1>4
<1>5. ASSUME NEW f \in Runtime, runtime' = [runtime EXCEPT ![c.by] = f]
      PROVE  /\ runtime' \in [Sessions -> Runtime]
             /\ runtime'[c.by] = f
             /\ \A t \in Sessions : t # c.by => runtime'[t] = runtime[t]
  BY <1>1, <1>5
<1>6. CASE /\ c.op = "claim" /\ runtime[c.by].phase = "claiming"
           /\ runtime' = [runtime EXCEPT ![c.by] =
                           [runtime[c.by] EXCEPT !.phase = "gone"]]
  <2>1. /\ [runtime[c.by] EXCEPT !.phase = "gone"] \in Runtime
        /\ [runtime[c.by] EXCEPT !.phase = "gone"].phase = "gone"
    BY <1>2 DEF Runtime, Phases
  <2>2. QED
    BY <1>1, <1>3, <1>5, <1>6, <2>1
<1>7. CASE /\ c.op = "claim" /\ c.answer = "yes"
           /\ runtime[c.by].phase = "claiming"
           /\ runtime' = [runtime EXCEPT ![c.by] =
                           [phase |-> "starting", since |-> 0,
                            due |-> HeartbeatPeriod, lost |-> FALSE]]
  <2> DEFINE f == [phase |-> "starting", since |-> 0,
                   due |-> HeartbeatPeriod, lost |-> FALSE]
  <2>1. f \in Runtime
    BY Zeros DEF Runtime, Phases
  <2>2. /\ f.phase = "starting" /\ ~f.lost /\ f.since = 0
        /\ f.due = HeartbeatPeriod
    OBVIOUS
  <2>3. runtime' = [runtime EXCEPT ![c.by] = f]
    BY <1>7
  <2> HIDE DEF f
  <2>4. QED
    BY <1>1, <1>3, <1>5, <1>7, <2>1, <2>2, <2>3
<1>8. CASE /\ c.op = "heartbeat" /\ c.answer = "yes"
           /\ runtime' = [runtime EXCEPT ![c.by] =
                           [runtime[c.by] EXCEPT !.since = 0]]
  <2> DEFINE r == runtime[c.by]
             f == [r EXCEPT !.since = 0]
  <2>1. /\ f \in Runtime /\ f.phase = r.phase /\ f.lost = r.lost
        /\ f.since = 0 /\ f.due = r.due
    BY <1>2, Zeros DEF Runtime
  <2>2. runtime' = [runtime EXCEPT ![c.by] = f]
    BY <1>8
  <2> HIDE DEF f
  <2>3. QED
    BY <1>1, <1>3, <1>5, <1>8, <2>1, <2>2
<1>9. CASE Lose(c)
  BY <1>4, <1>6, <1>9 DEF Lose, Go
<1>10. CASE Receive(c)
  BY <1>4, <1>6, <1>7, <1>8, <1>10
     DEF Receive, ClaimReturns, HeartbeatReturns
<1>11. QED
  BY <1>9, <1>10

(* The steps of Next, by what they change.                                 *)
LEMMA NextCases ==
  ASSUME [Next]_vars
  PROVE  \/ \E c \in calls : Serve(c)
         \/ \E c \in calls : Receive(c) \/ Lose(c)
         \/ \E s \in Sessions : TimerFires(s)
         \/ \E s \in Sessions : Moves(s)
         \/ Tick
         \/ UNCHANGED vars
  BY DEF Next, Moves

LEMMA TypeKept ==
  ASSUME TypeOK, [Next]_vars
  PROVE  TypeOK'
<1>1. ASSUME NEW c \in calls, Serve(c)
      PROVE  TypeOK'
  <2>1. \A yes \in BOOLEAN : Answered(c, yes) \in Call
    BY AnsweredTyped DEF TypeOK
  <2>2. QED
    BY <1>1, <2>1, ServeEffect DEF TypeOK, LeaseRow
<1>2. ASSUME NEW c \in calls, Receive(c) \/ Lose(c)
      PROVE  TypeOK'
  BY <1>2, AnswerEffect DEF TypeOK
<1>3. ASSUME NEW s \in Sessions, TimerFires(s)
      PROVE  TypeOK'
  BY <1>3, TimerEffect, AskTyped DEF TypeOK
<1>4. ASSUME NEW s \in Sessions, Moves(s)
      PROVE  TypeOK'
  BY <1>4, MoveEffect, AskTyped DEF TypeOK
<1>5. CASE Tick
  <2>1. calls' \subseteq Call
    BY <1>5, TickEffect
  <2>2. QED
    BY <1>5, <2>1, TickEffect DEF TypeOK, LeaseRow
<1>6. CASE UNCHANGED vars
  BY <1>6 DEF TypeOK, vars
<1>7. QED
  BY <1>1, <1>2, <1>3, <1>4, <1>5, <1>6, NextCases

LEMMA TypeInit == Init => TypeOK
  BY Zeros DEF Init, TypeOK, Runtime, Phases

(* The lease row, the runtimes and the calls hold values of their types.   *)
THEOREM LeaseTypeOK == Spec => []TypeOK
<1>1. TypeOK /\ [Next]_vars => TypeOK'
  BY TypeKept
<1>2. QED
  BY TypeInit, <1>1, PTL DEF Spec

----------------------------------------------------------------------------
(* Calls and phases.                                                       *)

PhaseInv == TypeOK /\ LossLeavesGateway /\ CallsInPhase

InPhase(c) ==
  /\ c.op = "claim" => runtime[c.by].phase \in {"claiming", "gone"}
  /\ c.op = "heartbeat" => runtime[c.by].phase \in Holding \cup {"gone"}
  /\ c.op = "release" => runtime[c.by].phase = "gone"

OneClaimEach ==
  \A c, d \in calls :
    c.by = d.by /\ c.op = "claim" /\ d.op = "claim" => c = d

LEMMA CallsInPhaseParts ==
  CallsInPhase <=> (\A c \in calls : InPhase(c)) /\ OneClaimEach
  BY DEF CallsInPhase, InPhase, OneClaimEach

(* A runtime that is down has not sent anything.                           *)
LEMMA DownIsSilent ==
  ASSUME PhaseInv, NEW c \in calls
  PROVE  c \in Call /\ c.by \in Sessions /\ runtime[c.by].phase # "down"
<1>1. c \in Call /\ c.by \in Sessions
      /\ c.op \in {"claim", "heartbeat", "release"}
  BY DEF PhaseInv, TypeOK, Call
<1>2. QED
  BY <1>1 DEF PhaseInv, CallsInPhase, Holding

LEMMA PhaseKept ==
  ASSUME PhaseInv, [Next]_vars
  PROVE  PhaseInv'
<1>0. /\ TypeOK /\ LossLeavesGateway
      /\ \A c \in calls : InPhase(c)
      /\ OneClaimEach
  BY CallsInPhaseParts DEF PhaseInv
<1>1. TypeOK'
  BY <1>0, TypeKept
<1>2. SUFFICES /\ LossLeavesGateway'
               /\ \A c \in calls' : InPhase(c)'
               /\ OneClaimEach'
  BY <1>1, CallsInPhaseParts DEF PhaseInv, CallsInPhase, InPhase, OneClaimEach
<1>3. ASSUME NEW c \in calls, Serve(c)
      PROVE  /\ LossLeavesGateway'
             /\ \A d \in calls' : InPhase(d)'
             /\ OneClaimEach'
  <2>1. runtime' = runtime
    BY <1>0, <1>3, ServeEffect
  <2>2. CASE calls' = calls \ {c}
    BY <1>0, <2>1, <2>2 DEF LossLeavesGateway, InPhase, OneClaimEach
  <2>3. ASSUME NEW yes \in BOOLEAN,
               calls' = (calls \ {c}) \cup {Answered(c, yes)}
        PROVE  /\ LossLeavesGateway'
               /\ \A d \in calls' : InPhase(d)'
               /\ OneClaimEach'
    <3>1. Answered(c, yes).by = c.by /\ Answered(c, yes).op = c.op
      BY <1>0, AnsweredTyped DEF TypeOK
    <3>2. \A d \in calls' : d \in calls \/ (d.by = c.by /\ d.op = c.op)
      BY <2>3, <3>1
    <3>3. \A d \in calls' : InPhase(d)'
      BY <1>0, <2>1, <3>2 DEF InPhase
    <3>4. OneClaimEach'
      BY <1>0, <2>3, <3>1 DEF OneClaimEach
    <3>5. QED
      BY <1>0, <2>1, <3>3, <3>4 DEF LossLeavesGateway
  <2>4. QED
    BY <1>0, <1>3, <2>2, <2>3, ServeEffect
<1>4. ASSUME NEW c \in calls, Receive(c) \/ Lose(c)
      PROVE  /\ LossLeavesGateway'
             /\ \A d \in calls' : InPhase(d)'
             /\ OneClaimEach'
  <2> DEFINE s == c.by
  <2>1. /\ s \in Sessions /\ calls' = calls \ {c}
        /\ \A t \in Sessions : t # s => runtime'[t] = runtime[t]
    BY <1>0, <1>4, AnswerEffect
  <2>2. runtime[s] \in Runtime
    BY <1>0, <2>1 DEF TypeOK
  <2>3. \/ runtime'[s] = runtime[s]
        \/ c.op = "claim" /\ runtime'[s].phase = "gone"
        \/ /\ c.op = "claim" /\ runtime[s].phase = "claiming"
           /\ runtime'[s].phase = "starting" /\ ~runtime'[s].lost
        \/ /\ runtime'[s].phase = runtime[s].phase
           /\ runtime'[s].lost = runtime[s].lost
    BY <1>0, <1>4, AnswerEffect
  <2>4. LossLeavesGateway'
    BY <1>0, <2>1, <2>3 DEF LossLeavesGateway
  <2>5. ASSUME NEW d \in calls'
        PROVE  InPhase(d)'
    <3>1. d \in calls /\ d # c /\ InPhase(d) /\ d.by \in Sessions
      BY <1>0, <2>1, DownIsSilent DEF PhaseInv
    <3>2. CASE d.by # s
      BY <2>1, <3>1, <3>2 DEF InPhase
    <3>3. CASE d.by = s
      <4>1. c.op = "claim" => d.op # "claim"
        BY <1>0, <3>1, <3>3 DEF OneClaimEach
      <4>2. runtime[s].phase = "claiming" =>
              d.op \notin {"heartbeat", "release"}
        BY <3>1, <3>3 DEF InPhase, Holding
      <4>3. d.op \in {"claim", "heartbeat", "release"}
        BY <1>0, <3>1 DEF TypeOK, Call
      <4>4. QED
        BY <2>3, <3>1, <3>3, <4>1, <4>2, <4>3 DEF InPhase
    <3>4. QED
      BY <3>2, <3>3
  <2>6. OneClaimEach'
    BY <1>0, <2>1 DEF OneClaimEach
  <2>7. QED
    BY <2>4, <2>5, <2>6
<1>5. ASSUME NEW s \in Sessions, TimerFires(s)
      PROVE  /\ LossLeavesGateway'
             /\ \A d \in calls' : InPhase(d)'
             /\ OneClaimEach'
  <2>1. /\ \A t \in Sessions : t # s => runtime'[t] = runtime[t]
        /\ runtime[s].phase \in Holding /\ runtime'[s].phase \in Holding
        /\ \/ runtime'[s].phase = "disconnected"
           \/ /\ runtime'[s].phase = runtime[s].phase
              /\ runtime'[s].lost = runtime[s].lost
        /\ \A d \in calls' : d \in calls \/ d = Ask(s, "heartbeat")
    BY <1>0, <1>5, TimerEffect DEF Holding
  <2>2. Ask(s, "heartbeat").op = "heartbeat" /\ Ask(s, "heartbeat").by = s
    BY AskTyped
  <2>3. LossLeavesGateway'
    BY <1>0, <2>1 DEF LossLeavesGateway
  <2>4. ASSUME NEW d \in calls'
        PROVE  InPhase(d)'
    <3>1. CASE d = Ask(s, "heartbeat")
      BY <2>1, <2>2, <3>1 DEF InPhase
    <3>2. CASE d \in calls
      <4>1. InPhase(d) /\ d.by \in Sessions
        BY <1>0, <3>2, DownIsSilent DEF PhaseInv
      <4>2. QED
        BY <2>1, <4>1 DEF InPhase, Holding
    <3>3. QED
      BY <2>1, <3>1, <3>2
  <2>5. OneClaimEach'
    BY <1>0, <2>1, <2>2 DEF OneClaimEach
  <2>6. QED
    BY <2>3, <2>4, <2>5
<1>6. ASSUME NEW s \in Sessions, Moves(s)
      PROVE  /\ LossLeavesGateway'
             /\ \A d \in calls' : InPhase(d)'
             /\ OneClaimEach'
  <2> DEFINE from == runtime[s].phase
             to == runtime'[s].phase
  <2>1. /\ \A t \in Sessions : t # s => runtime'[t] = runtime[t]
        /\ runtime'[s].lost = runtime[s].lost
        /\ \/ /\ from = "down" /\ to = "claiming"
              /\ calls' = calls \cup {Ask(s, "claim")}
           \/ /\ from \in {"starting", "disconnected"} /\ to = "gone"
              /\ calls' = calls \cup {Ask(s, "release")}
           \/ /\ from \in Holding
              /\ \/ to \in {"disconnected", "gone"}
                 \/ from \notin {"disconnected", "gone"} /\ to \in Holding
              /\ calls' = calls
           \/ from = "claiming" /\ to = "gone" /\ calls' = calls
    BY <1>0, <1>6, MoveEffect
  <2>2. /\ Ask(s, "claim").op = "claim" /\ Ask(s, "claim").by = s
        /\ Ask(s, "release").op = "release" /\ Ask(s, "release").by = s
    BY AskTyped
  <2> HIDE DEF from, to
  <2>3. LossLeavesGateway'
    BY <1>0, <2>1 DEF LossLeavesGateway, from, to, Holding
  <2>4. ASSUME NEW d \in calls'
        PROVE  InPhase(d)'
    <3>1. CASE d \notin calls
      BY <2>1, <2>2, <3>1 DEF InPhase, to
    <3>2. CASE d \in calls
      <4>1. /\ InPhase(d) /\ d.by \in Sessions
            /\ d.op \in {"claim", "heartbeat", "release"}
            /\ d.by = s => from # "down"
        BY <1>0, <3>2, DownIsSilent DEF PhaseInv, from, Call
      <4>2. CASE d.by # s
        BY <2>1, <4>1, <4>2 DEF InPhase
      <4>3. CASE d.by = s
        BY <2>1, <4>1, <4>3 DEF InPhase, from, to, Holding
      <4>4. QED
        BY <4>2, <4>3
    <3>3. QED
      BY <3>1, <3>2
  <2>5. OneClaimEach'
    <3>1. from = "down" => \A d \in calls : d.by # s
      BY DownIsSilent DEF from
    <3>2. QED
      BY <1>0, <2>1, <2>2, <3>1 DEF OneClaimEach
  <2>6. QED
    BY <2>3, <2>4, <2>5
<1>7. CASE Tick
  <2>1. /\ \A s \in Sessions : /\ runtime'[s].phase = runtime[s].phase
                               /\ runtime'[s].lost = runtime[s].lost
        /\ \A d \in calls' :
             \E c \in calls : /\ d = [c EXCEPT !.age = c.age + 1]
                              /\ d.by = c.by /\ d.op = c.op
    BY <1>0, <1>7, TickEffect
  <2>2. ASSUME NEW d \in calls'
        PROVE  InPhase(d)'
    <3>1. PICK c \in calls : d.by = c.by /\ d.op = c.op
      BY <2>1
    <3>2. InPhase(c) /\ c.by \in Sessions
      BY <1>0, DownIsSilent DEF PhaseInv
    <3>3. QED
      BY <2>1, <3>1, <3>2 DEF InPhase
  <2>3. ASSUME NEW d1 \in calls', NEW d2 \in calls', d1.by = d2.by,
               d1.op = "claim", d2.op = "claim"
        PROVE  d1 = d2
    <3>1. PICK c1 \in calls : /\ d1 = [c1 EXCEPT !.age = c1.age + 1]
                              /\ d1.by = c1.by /\ d1.op = c1.op
      BY <2>1
    <3>2. PICK c2 \in calls : /\ d2 = [c2 EXCEPT !.age = c2.age + 1]
                              /\ d2.by = c2.by /\ d2.op = c2.op
      BY <2>1
    <3>3. c1 = c2
      BY <1>0, <2>3, <3>1, <3>2 DEF OneClaimEach
    <3>4. QED
      BY <3>1, <3>2, <3>3
  <2>4. QED
    BY <1>0, <2>1, <2>2, <2>3 DEF LossLeavesGateway, OneClaimEach
<1>8. CASE UNCHANGED vars
  BY <1>0, <1>8 DEF vars, LossLeavesGateway, InPhase, OneClaimEach
<1>9. QED
  BY <1>3, <1>4, <1>5, <1>6, <1>7, <1>8, NextCases

----------------------------------------------------------------------------
(* The time that is left.                                                  *)

LEMMA Numbers ==
  /\ TTL \in Nat /\ HeartbeatPeriod \in Nat /\ LossDeadline \in Nat
  /\ MaxDelay \in Nat /\ HeartbeatPeriod > 0 /\ LossDeadline > 0
  BY LeaseAssumption

LEMMA RowNumbers == ASSUME TypeOK PROVE lease.left \in Nat /\ lease.left <= TTL
  BY Numbers DEF TypeOK

LEMMA TimerNumbers ==
  ASSUME TypeOK, NEW s \in Sessions
  PROVE  /\ runtime[s].due \in Nat /\ runtime[s].due <= HeartbeatPeriod
         /\ runtime[s].since \in Nat /\ runtime[s].since <= LossDeadline
<1>1. runtime[s] \in Runtime
  BY DEF TypeOK
<1>2. QED
  BY <1>1, Numbers DEF Runtime

LEMMA CallNumbers ==
  ASSUME TypeOK, NEW c \in calls
  PROVE  c \in Call /\ c.by \in Sessions /\ c.age \in Nat /\ c.age <= MaxDelay
<1>1. c \in Call
  BY DEF TypeOK
<1>2. QED
  BY <1>1, Numbers DEF Call

(* A runtime that is covered still has its lease.                          *)
LEMMA CoveredHolds ==
  ASSUME TypeOK, NEW exit \in Multiples, Timely(exit),
         NEW s \in Sessions, Covered(s, exit)
  PROVE  lease.holder = s /\ lease.left > 0
<1>1. PICK m \in Multiples : m + HeartbeatPeriod <= exit /\ CoveredFrom(s, m)
  BY DEF Covered
<1>2. m \in Nat /\ exit \in Nat
  BY MultipleFacts
<1>3. lease.left > 0
  BY <1>1, <1>2, Numbers, RowNumbers, TimerNumbers DEF CoveredFrom, Timely
<1>4. QED
  BY <1>3 DEF Covered

LEMMA RenewedHolds ==
  ASSUME TypeOK, NEW exit \in Multiples, Timely(exit),
         NEW c \in calls, Renewed(c)
  PROVE  lease.holder = c.by /\ lease.left > 0
<1>1. exit \in Nat
  BY MultipleFacts
<1>2. QED
  BY <1>1, Numbers, RowNumbers, CallNumbers DEF Renewed, Timely

(* Nobody takes the row from s, nor any of its time.                       *)
Spared(s) ==
  lease.holder = s /\ lease.left > 0
    => lease'.holder = s /\ lease'.left >= lease.left

LEMMA StaysCovered ==
  ASSUME TypeOK, TypeOK', NEW exit \in Multiples, Timely(exit),
         NEW s \in Sessions, Covered(s, exit), Spared(s),
         runtime'[s].since = runtime[s].since,
         runtime'[s].due = runtime[s].due
  PROVE  Covered(s, exit)'
<1>1. lease'.holder = s /\ lease'.left >= lease.left
  BY CoveredHolds DEF Spared
<1>2. PICK m \in Multiples : m + HeartbeatPeriod <= exit /\ CoveredFrom(s, m)
  BY DEF Covered
<1>3. lease'.left \in Nat /\ m \in Nat
  BY MultipleFacts, Numbers DEF TypeOK
<1>4. CoveredFrom(s, m)'
  BY <1>1, <1>2, <1>3, Numbers, RowNumbers, TimerNumbers DEF CoveredFrom
<1>5. QED
  BY <1>1, <1>2, <1>4 DEF Covered

LEMMA StaysTimed ==
  ASSUME TypeOK, TypeOK', NEW exit \in Multiples, Timely(exit),
         NEW c \in calls, CallTimed(c),
         Claiming(c)' => Claiming(c),
         Held(c.by)' => Held(c.by),
         runtime'[c.by].due = runtime[c.by].due,
         Claiming(c)' \/ Held(c.by)' => Spared(c.by)
  PROVE  CallTimed(c)'
<1>1. ASSUME Renewed(c), Spared(c.by)
      PROVE  Renewed(c)'
  <2>1. lease'.holder = c.by /\ lease'.left >= lease.left
    BY <1>1, RenewedHolds DEF Spared
  <2>2. lease'.left \in Nat
    BY Numbers DEF TypeOK
  <2>3. QED
    BY <1>1, <2>1, <2>2, Numbers, RowNumbers, CallNumbers DEF Renewed
<1>2. OnBeat(c) => OnBeat(c)'
  BY DEF OnBeat
<1>3. QED
  BY <1>1, <1>2 DEF CallTimed

LEMMA FreshIsTimed ==
  ASSUME NEW c, c.answer = "none", c.op # "heartbeat"
  PROVE  CallTimed(c)'
  BY DEF CallTimed, Claiming

TimedInv(exit) == PhaseInv /\ CallsTimed /\ LeaseCovers(exit)

LEMMA ServeKeepsTime ==
  ASSUME NEW exit \in Multiples, Timely(exit), TimedInv(exit), PhaseInv',
         NEW c \in calls, Serve(c)
  PROVE  CallsTimed' /\ LeaseCovers(exit)'
<1>1. /\ TypeOK /\ TypeOK' /\ runtime' = runtime
      /\ lease' \in LeaseRow
      /\ c.by \in Sessions /\ c \in Call
  BY ServeEffect, CallNumbers DEF TimedInv, PhaseInv
<1>2. ASSUME NEW s \in Sessions, runtime[s].phase # "gone"
      PROVE  Spared(s)
  <2>1. c.op = "release" => c.by # s
    BY <1>2 DEF TimedInv, PhaseInv, CallsInPhase
  <2>2. QED
    BY <1>1, <2>1, ServeEffect DEF Spared
<1>3. \A s \in Sessions : Held(s) => runtime[s].phase # "gone"
  BY DEF Held, Holding
<1>4. LeaseCovers(exit)'
  <2>1. ASSUME NEW s \in Sessions, Held(s)'
        PROVE  Covered(s, exit)'
    <3>1. Held(s) /\ Covered(s, exit) /\ Spared(s)
      BY <1>1, <1>2, <1>3, <2>1 DEF TimedInv, LeaseCovers, Held
    <3>2. QED
      BY <1>1, <3>1, StaysCovered
  <2>2. QED
    BY <2>1 DEF LeaseCovers
<1>5. ASSUME NEW d \in calls
      PROVE  CallTimed(d)'
  <2>1. /\ d.by \in Sessions /\ CallTimed(d)
        /\ Held(d.by)' <=> Held(d.by)
        /\ Claiming(d)' <=> Claiming(d)
    BY <1>1, CallNumbers DEF TimedInv, CallsTimed, Held, Claiming
  <2>2. Held(d.by) \/ Claiming(d) => Spared(d.by)
    BY <1>2, <1>3, <2>1 DEF Claiming
  <2>3. QED
    BY <1>1, <2>1, <2>2, StaysTimed
<1>6. ASSUME NEW yes \in BOOLEAN, c.op \in {"claim", "heartbeat"},
             yes => lease' = [holder |-> c.by, left |-> TTL]
      PROVE  CallTimed(Answered(c, yes))'
  <2> DEFINE d == Answered(c, yes)
  <2>1. /\ d.by = c.by /\ d.op = c.op /\ d.age = c.age
        /\ d.answer = "yes" => yes
    BY <1>1, <1>6, AnsweredTyped
  <2>2. d.age \in Nat
    BY <1>1, <2>1, CallNumbers
  <2> HIDE DEF d
  <2>3. yes => Renewed(d)'
    BY <1>6, <2>1, <2>2, Numbers DEF Renewed
  <2>4. d.op = "heartbeat" /\ Held(d.by)' => OnBeat(d)'
    BY <1>1, <2>1 DEF TimedInv, CallsTimed, CallTimed, Held, OnBeat
  <2>5. CallTimed(d)'
    BY <2>1, <2>3, <2>4 DEF CallTimed, Claiming
  <2>6. QED
    BY <2>5 DEF d
<1>7. \A d \in calls' : CallTimed(d)'
  BY <1>1, <1>5, <1>6, ServeEffect
<1>8. QED
  BY <1>4, <1>7 DEF CallsTimed

LEMMA MoveKeepsTime ==
  ASSUME NEW exit \in Multiples, Timely(exit), TimedInv(exit), PhaseInv',
         NEW s \in Sessions, Moves(s)
  PROVE  CallsTimed' /\ LeaseCovers(exit)'
<1>1. /\ TypeOK /\ TypeOK' /\ lease' = lease
      /\ \A q \in Sessions : /\ runtime'[q].since = runtime[q].since
                             /\ runtime'[q].due = runtime[q].due
      /\ \A q \in Sessions : q # s => runtime'[q] = runtime[q]
      /\ runtime'[s].lost = runtime[s].lost
      /\ runtime'[s].phase = "claiming" => runtime[s].phase = "down"
      /\ runtime'[s].phase \in Holding => runtime[s].phase \in Holding
  BY MoveEffect DEF TimedInv, PhaseInv, Holding
<1>2. \A q \in Sessions : Spared(q)
  BY <1>1, RowNumbers DEF Spared
<1>3. \A q \in Sessions : Held(q)' => Held(q)
  BY <1>1 DEF Held
<1>4. LeaseCovers(exit)'
  <2>1. ASSUME NEW q \in Sessions, Held(q)'
        PROVE  Covered(q, exit)'
    BY <1>1, <1>2, <1>3, <2>1, StaysCovered DEF TimedInv, LeaseCovers
  <2>2. QED
    BY <2>1 DEF LeaseCovers
<1>5. ASSUME NEW d \in calls
      PROVE  CallTimed(d)'
  <2>1. d.by \in Sessions /\ runtime[d.by].phase # "down" /\ CallTimed(d)
    BY DownIsSilent DEF TimedInv, CallsTimed
  <2>2. Claiming(d)' => Claiming(d)
    BY <1>1, <2>1 DEF Claiming
  <2>3. QED
    BY <1>1, <1>2, <1>3, <2>1, <2>2, StaysTimed
<1>6. ASSUME NEW d \in calls', d \notin calls
      PROVE  CallTimed(d)'
  <2>1. d = Ask(s, "claim") \/ d = Ask(s, "release")
    BY <1>1, <1>6, MoveEffect
  <2>2. d.answer = "none" /\ d.op # "heartbeat"
    BY <2>1, AskTyped
  <2>3. QED
    BY <2>2, FreshIsTimed
<1>7. QED
  BY <1>4, <1>5, <1>6 DEF CallsTimed

(* When the timer fires and the deadline has not passed, the next period   *)
(* still ends before the lease.                                            *)
LEMMA TimerKeepsTime ==
  ASSUME NEW exit \in Multiples, Timely(exit), TimedInv(exit), PhaseInv',
         NEW s \in Sessions, TimerFires(s)
  PROVE  CallsTimed' /\ LeaseCovers(exit)'
<1>1. /\ TypeOK /\ TypeOK' /\ lease' = lease
      /\ \A q \in Sessions : q # s => runtime'[q] = runtime[q]
      /\ runtime[s].phase \in Holding /\ runtime[s].due = 0
      /\ runtime'[s].since = runtime[s].since
      /\ runtime'[s].due = HeartbeatPeriod
      /\ \A d \in calls' : d \in calls \/ d = Ask(s, "heartbeat")
      /\ runtime'[s].phase # "claiming"
  BY TimerEffect DEF TimedInv, PhaseInv, Holding
<1>2. \A q \in Sessions : Spared(q)
  BY <1>1, RowNumbers DEF Spared
<1>3. Held(s)' => Held(s) /\ runtime[s].since < LossDeadline
  BY <1>1, TimerEffect DEF Held
<1>4. ASSUME NEW q \in Sessions, Held(q)'
      PROVE  Covered(q, exit)'
  <2>1. CASE q # s
    BY <1>1, <1>2, <1>4, <2>1, StaysCovered
       DEF TimedInv, LeaseCovers, Held
  <2>2. CASE q = s
    <3>1. Covered(s, exit) /\ runtime[s].since < LossDeadline
      BY <1>3, <1>4, <2>2 DEF TimedInv, LeaseCovers
    <3>2. PICK m \in Multiples :
            m + HeartbeatPeriod <= exit /\ CoveredFrom(s, m)
      BY <3>1 DEF Covered
    <3> DEFINE n == m + HeartbeatPeriod
    <3>3. n \in Multiples /\ n \in Nat /\ m \in Nat /\ exit \in Nat
      BY MultipleFacts
    <3>4. runtime[s].since + MaxDelay >= n
      <4>1. runtime[s].since # LossDeadline /\ runtime[s].since \in Nat
        BY <1>1, <3>1, Numbers, TimerNumbers
      <4>2. runtime[s].since + runtime[s].due + MaxDelay >= n
        BY <3>2, <4>1 DEF CoveredFrom
      <4>3. QED
        BY <1>1, <3>3, <4>1, <4>2, Numbers
    <3>5. n < exit
      BY <1>1, <3>1, <3>3, <3>4, Numbers, TimerNumbers DEF Timely
    <3>6. n + HeartbeatPeriod <= exit
      BY <3>3, <3>5, NextMultiple
    <3>7. /\ lease'.left + n + HeartbeatPeriod + MaxDelay
               >= TTL + HeartbeatPeriod
          /\ runtime'[s].since + HeartbeatPeriod + MaxDelay
               >= n + HeartbeatPeriod
      BY <1>1, <3>2, <3>3, <3>4, Numbers, TimerNumbers, RowNumbers
         DEF CoveredFrom
    <3>8. CoveredFrom(s, n)'
      BY <1>1, <3>7 DEF CoveredFrom
    <3>9. lease'.holder = s
      BY <1>1, <3>1 DEF Covered
    <3> HIDE DEF n
    <3>10. QED
      BY <2>2, <3>3, <3>6, <3>8, <3>9 DEF Covered
  <2>3. QED
    BY <2>1, <2>2
<1>5. ASSUME NEW d \in calls
      PROVE  CallTimed(d)'
  <2>1. d.by \in Sessions /\ CallTimed(d) /\ d.age \in Nat
    BY <1>1, CallNumbers DEF TimedInv, CallsTimed
  <2>2. CASE d.by # s
    <3>1. Claiming(d)' <=> Claiming(d)
      BY <1>1, <2>1, <2>2 DEF Claiming
    <3>2. Held(d.by)' <=> Held(d.by)
      BY <1>1, <2>1, <2>2 DEF Held
    <3>3. QED
      BY <1>1, <1>2, <2>1, <2>2, <3>1, <3>2, StaysTimed
  <2>3. CASE d.by = s
    <3>1. ~Claiming(d)'
      BY <1>1, <2>3 DEF Claiming
    <3>2. ASSUME d.op = "heartbeat", Held(s)
          PROVE  OnBeat(d)' /\ (d.answer = "yes" => Renewed(d)')
      <4>1. OnBeat(d)
        BY <2>1, <2>3, <3>2 DEF CallTimed
      <4>2. PICK m \in Multiples :
              d.age + runtime[d.by].due = m + HeartbeatPeriod
        BY <4>1 DEF OnBeat
      <4>3. d.age = m + HeartbeatPeriod
        BY <1>1, <2>1, <2>3, <4>2
      <4> DEFINE n == m + HeartbeatPeriod
      <4>4. n \in Multiples /\ d.age + HeartbeatPeriod = n + HeartbeatPeriod
        BY <2>1, <4>3, MultipleFacts, Numbers
      <4> HIDE DEF n
      <4>5. OnBeat(d)'
        BY <1>1, <2>3, <4>4 DEF OnBeat
      <4>6. d.answer = "yes" => Renewed(d)'
        BY <1>1, <2>1, <2>3, <3>2 DEF CallTimed, Renewed
      <4>7. QED
        BY <4>5, <4>6
    <3>3. QED
      BY <1>3, <2>3, <3>1, <3>2 DEF CallTimed
  <2>4. QED
    BY <2>2, <2>3
<1>6. CallTimed(Ask(s, "heartbeat"))'
  <2> DEFINE d == Ask(s, "heartbeat")
  <2>1. d.by = s /\ d.age = 0 /\ d.answer = "none" /\ d.op = "heartbeat"
    BY AskTyped
  <2> HIDE DEF d
  <2>2. d.age + runtime'[d.by].due = 0 + HeartbeatPeriod
    BY <1>1, <2>1
  <2>3. OnBeat(d)'
    BY <2>2, MultipleFacts DEF OnBeat
  <2>4. CallTimed(d)'
    BY <2>1, <2>3 DEF CallTimed, Claiming
  <2>5. QED
    BY <2>4 DEF d
<1>7. QED
  BY <1>1, <1>4, <1>5, <1>6 DEF CallsTimed, LeaseCovers

(* A granted claim starts the timer, a granted heartbeat moves the last    *)
(* success to now: either way the renewal is at most MaxDelay old.         *)
LEMMA AnswerKeepsTime ==
  ASSUME NEW exit \in Multiples, Timely(exit), TimedInv(exit), PhaseInv',
         NEW c \in calls, Receive(c) \/ Lose(c)
  PROVE  CallsTimed' /\ LeaseCovers(exit)'
<1> DEFINE s == c.by
<1>1. /\ TypeOK /\ TypeOK' /\ lease' = lease
      /\ s \in Sessions /\ calls' = calls \ {c}
      /\ \A q \in Sessions : q # s => runtime'[q] = runtime[q]
      /\ c.age \in Nat /\ c.age <= MaxDelay /\ CallTimed(c)
  BY AnswerEffect, CallNumbers DEF TimedInv, PhaseInv, CallsTimed
<1>2. \A q \in Sessions : Spared(q)
  BY <1>1, RowNumbers DEF Spared
<1>3. exit \in Nat /\ HeartbeatPeriod <= exit /\ MaxDelay < exit
  BY ExitFacts
<1>4. ASSUME NEW q \in Sessions, q # s
      PROVE  Held(q)' => Covered(q, exit)'
  BY <1>1, <1>2, <1>4, StaysCovered DEF TimedInv, LeaseCovers, Held
<1>5. ASSUME NEW d \in calls', d.by # s
      PROVE  CallTimed(d)'
  <2>1. d \in calls /\ d.by \in Sessions /\ CallTimed(d)
    BY <1>1, CallNumbers DEF TimedInv, CallsTimed
  <2>2. Claiming(d)' <=> Claiming(d)
    BY <1>1, <1>5, <2>1 DEF Claiming
  <2>3. Held(d.by)' <=> Held(d.by)
    BY <1>1, <1>5, <2>1 DEF Held
  <2>4. QED
    BY <1>1, <1>2, <1>5, <2>1, <2>2, <2>3, StaysTimed
<1>6. ASSUME Held(s)' => Covered(s, exit)',
             \A d \in calls' : d.by = s => CallTimed(d)'
      PROVE  CallsTimed' /\ LeaseCovers(exit)'
  BY <1>4, <1>5, <1>6 DEF CallsTimed, LeaseCovers
<1>7. CASE runtime' = runtime
  <2>1. Held(s)' => Covered(s, exit)'
    BY <1>1, <1>2, <1>7, StaysCovered DEF TimedInv, LeaseCovers, Held
  <2>2. ASSUME NEW d \in calls', d.by = s
        PROVE  CallTimed(d)'
    <3>1. d \in calls /\ CallTimed(d)
      BY <1>1 DEF TimedInv, CallsTimed
    <3>2. (Claiming(d)' <=> Claiming(d)) /\ (Held(d.by)' <=> Held(d.by))
      BY <1>7 DEF Claiming, Held
    <3>3. QED
      BY <1>1, <1>2, <1>7, <2>2, <3>1, <3>2, StaysTimed
  <2>3. QED
    BY <1>6, <2>1, <2>2
<1>8. CASE c.op = "claim" /\ runtime'[s].phase = "gone"
  <2>1. ~Held(s)'
    BY <1>8 DEF Held, Holding
  <2>2. \A d \in calls' : d.by = s => ~Claiming(d)'
    BY <1>8 DEF Claiming
  <2>3. QED
    BY <1>6, <2>1, <2>2 DEF CallTimed
<1>9. CASE /\ c.op = "claim" /\ c.answer = "yes"
            /\ runtime[s].phase = "claiming"
            /\ runtime'[s].phase = "starting" /\ ~runtime'[s].lost
            /\ runtime'[s].since = 0 /\ runtime'[s].due = HeartbeatPeriod
  <2>1. Renewed(c)
    BY <1>1, <1>9 DEF CallTimed, Claiming
  <2>2. lease'.left + 0 + HeartbeatPeriod + MaxDelay >= TTL + HeartbeatPeriod
    BY <1>1, <2>1, Numbers, RowNumbers DEF Renewed
  <2>3. 0 + HeartbeatPeriod + MaxDelay >= 0 + HeartbeatPeriod
    BY Numbers
  <2>4. CoveredFrom(s, 0)'
    BY <1>9, <2>2, <2>3 DEF CoveredFrom
  <2>5. 0 \in Multiples /\ 0 + HeartbeatPeriod <= exit
    BY <1>3, MultipleFacts, Numbers
  <2>6. Covered(s, exit)'
    BY <1>1, <2>1, <2>4, <2>5 DEF Covered, Renewed
  <2>7. ASSUME NEW d \in calls', d.by = s
        PROVE  CallTimed(d)'
    <3>1. d.op # "heartbeat"
      BY <1>1, <1>9, <2>7 DEF TimedInv, PhaseInv, CallsInPhase, Holding
    <3>2. ~Claiming(d)'
      BY <1>9, <2>7 DEF Claiming
    <3>3. QED
      BY <3>1, <3>2 DEF CallTimed
  <2>8. QED
    BY <1>6, <2>6, <2>7
<1>10. CASE /\ c.op = "heartbeat" /\ c.answer = "yes"
            /\ runtime'[s].phase = runtime[s].phase
            /\ runtime'[s].lost = runtime[s].lost
            /\ runtime'[s].since = 0
            /\ runtime'[s].due = runtime[s].due
  <2>1. Held(s)' <=> Held(s)
    BY <1>10 DEF Held
  <2>2. ASSUME Held(s)
        PROVE  Covered(s, exit)'
    <3>1. OnBeat(c) /\ Renewed(c)
      BY <1>1, <1>10, <2>2 DEF CallTimed
    <3>2. PICK m \in Multiples :
            c.age + runtime[s].due = m + HeartbeatPeriod
      BY <3>1 DEF OnBeat
    <3>3. m \in Nat /\ m < exit
      <4>1. m \in Nat
        BY MultipleFacts
      <4>2. QED
        BY <1>1, <1>3, <3>2, <4>1, Numbers, TimerNumbers
    <3>4. m + HeartbeatPeriod <= exit
      BY <3>3, NextMultiple
    <3>5. /\ lease.holder = s
          /\ lease.left + m + HeartbeatPeriod + MaxDelay
               >= TTL + runtime[s].due
          /\ 0 + runtime[s].due + MaxDelay >= m + HeartbeatPeriod
      <4>1. lease.holder = s /\ lease.left + c.age >= TTL
        BY <3>1 DEF Renewed
      <4>2. QED
        BY <1>1, <3>2, <3>3, <4>1, Numbers, TimerNumbers, RowNumbers
    <3>6. CoveredFrom(s, m)'
      BY <1>1, <1>10, <3>5 DEF CoveredFrom
    <3>7. QED
      BY <1>1, <3>4, <3>5, <3>6 DEF Covered
  <2>3. ASSUME NEW d \in calls', d.by = s
        PROVE  CallTimed(d)'
    <3>1. d \in calls /\ CallTimed(d)
      BY <1>1 DEF TimedInv, CallsTimed
    <3>2. Claiming(d)' <=> Claiming(d)
      BY <1>10, <2>3 DEF Claiming
    <3>3. QED
      BY <1>1, <1>2, <1>10, <2>1, <2>3, <3>1, <3>2, StaysTimed
  <2>4. QED
    BY <1>6, <2>1, <2>2, <2>3
<1>11. QED
  BY <1>1, <1>7, <1>8, <1>9, <1>10, AnswerEffect

LEMMA TickKeepsTime ==
  ASSUME NEW exit \in Multiples, Timely(exit), TimedInv(exit), PhaseInv', Tick
  PROVE  CallsTimed' /\ LeaseCovers(exit)'
<1>1. /\ TypeOK /\ TypeOK'
      /\ lease'.holder = lease.holder
      /\ lease.left > 0 => lease'.left = lease.left - 1
      /\ \A s \in Sessions : /\ Held(s)' <=> Held(s)
                             /\ runtime'[s].phase = runtime[s].phase
  BY TickEffect, RowNumbers DEF TimedInv, PhaseInv, Held
<1>2. ASSUME NEW s \in Sessions, Held(s)
      PROVE  /\ runtime'[s].due = runtime[s].due - 1
             /\ runtime'[s].since =
                  IF runtime[s].since < LossDeadline
                  THEN runtime[s].since + 1 ELSE runtime[s].since
  BY <1>1, <1>2, TickEffect DEF Held
<1>3. ASSUME NEW s \in Sessions, Held(s)'
      PROVE  Covered(s, exit)'
  <2>1. Held(s) /\ Covered(s, exit)
    BY <1>1, <1>3 DEF TimedInv, LeaseCovers
  <2>2. PICK m \in Multiples :
          m + HeartbeatPeriod <= exit /\ CoveredFrom(s, m)
    BY <2>1 DEF Covered
  <2>3. lease.holder = s /\ lease.left > 0
    BY <1>1, <2>1, CoveredHolds
  <2>4. m \in Nat
    BY MultipleFacts
  <2>5. lease'.left + m + HeartbeatPeriod + MaxDelay >= TTL + runtime'[s].due
    <3>1. lease.left + m + HeartbeatPeriod + MaxDelay >= TTL + runtime[s].due
      BY <2>2 DEF CoveredFrom
    <3>2. QED
      BY <1>1, <1>2, <2>1, <2>3, <2>4, <3>1, Numbers, RowNumbers, TimerNumbers
  <2>6. \/ runtime'[s].since = LossDeadline
        \/ runtime'[s].since + runtime'[s].due + MaxDelay
             >= m + HeartbeatPeriod
    <3>1. \/ runtime[s].since = LossDeadline
          \/ runtime[s].since + runtime[s].due + MaxDelay
               >= m + HeartbeatPeriod
      BY <2>2 DEF CoveredFrom
    <3>2. QED
      BY <1>1, <1>2, <2>1, <2>4, <3>1, Numbers, TimerNumbers
  <2>7. CoveredFrom(s, m)'
    BY <2>5, <2>6 DEF CoveredFrom
  <2>8. QED
    BY <1>1, <2>2, <2>3, <2>7 DEF Covered
<1>4. ASSUME NEW d \in calls'
      PROVE  CallTimed(d)'
  <2>1. PICK c \in calls : /\ d.by = c.by /\ d.op = c.op
                           /\ d.answer = c.answer /\ d.age = c.age + 1
    BY <1>1, TickEffect
  <2>2. c.by \in Sessions /\ c.age \in Nat /\ CallTimed(c)
    BY <1>1, CallNumbers DEF TimedInv, CallsTimed
  <2>3. Renewed(c) => Renewed(d)'
    <3>1. ASSUME Renewed(c)
          PROVE  Renewed(d)'
      <4>1. lease.left > 0 /\ lease.left + c.age >= TTL /\ lease.holder = c.by
        BY <1>1, <3>1, RenewedHolds DEF Renewed
      <4>2. lease'.left + d.age >= TTL
        BY <1>1, <2>1, <2>2, <4>1, Numbers, RowNumbers
      <4>3. QED
        BY <1>1, <2>1, <4>1, <4>2 DEF Renewed
    <3>2. QED
      BY <3>1
  <2>4. ASSUME OnBeat(c), Held(c.by)
        PROVE  OnBeat(d)'
    <3>1. PICK m \in Multiples :
            c.age + runtime[c.by].due = m + HeartbeatPeriod
      BY <2>4 DEF OnBeat
    <3>2. d.age + runtime'[d.by].due = m + HeartbeatPeriod
      <4>1. runtime'[d.by].due = runtime[c.by].due - 1
        BY <1>2, <2>1, <2>2, <2>4
      <4>2. m \in Nat
        BY MultipleFacts
      <4>3. QED
        BY <1>1, <2>1, <2>2, <3>1, <4>1, <4>2, Numbers, TimerNumbers
    <3>3. QED
      BY <3>2 DEF OnBeat
  <2>5. Claiming(d)' => Claiming(c)
    BY <1>1, <2>1, <2>2 DEF Claiming
  <2>6. Held(d.by)' => Held(c.by)
    BY <1>1, <2>1, <2>2
  <2>7. QED
    BY <2>1, <2>2, <2>3, <2>4, <2>5, <2>6 DEF CallTimed
<1>5. QED
  BY <1>3, <1>4 DEF CallsTimed, LeaseCovers

LEMMA TimedKept ==
  ASSUME NEW exit \in Multiples, Timely(exit), TimedInv(exit), [Next]_vars
  PROVE  TimedInv(exit)'
<1>1. PhaseInv'
  BY PhaseKept DEF TimedInv
<1>2. CASE UNCHANGED vars
  <2>1. /\ TypeOK /\ TypeOK'
        /\ lease' = lease /\ runtime' = runtime /\ calls' = calls
    BY <1>1, <1>2 DEF TimedInv, PhaseInv, vars
  <2>2. \A q \in Sessions : Spared(q)
    BY <2>1, RowNumbers DEF Spared
  <2>3. ASSUME NEW c \in calls
        PROVE  CallTimed(c)'
    <3>1. c.by \in Sessions /\ CallTimed(c)
      BY <2>1, CallNumbers DEF TimedInv, CallsTimed
    <3>2. (Claiming(c)' <=> Claiming(c)) /\ (Held(c.by)' <=> Held(c.by))
      BY <2>1 DEF Claiming, Held
    <3>3. QED
      BY <2>1, <2>2, <3>1, <3>2, StaysTimed
  <2>4. ASSUME NEW s \in Sessions, Held(s)'
        PROVE  Covered(s, exit)'
    <3>1. Covered(s, exit)
      BY <2>1, <2>4 DEF TimedInv, LeaseCovers, Held
    <3>2. QED
      BY <2>1, <2>2, <3>1, StaysCovered
  <2>5. QED
    BY <1>1, <2>1, <2>3, <2>4 DEF TimedInv, CallsTimed, LeaseCovers
<1>3. CASE ~UNCHANGED vars
  <2>1. CallsTimed' /\ LeaseCovers(exit)'
    BY <1>1, <1>3, NextCases, ServeKeepsTime, AnswerKeepsTime,
       TimerKeepsTime, MoveKeepsTime, TickKeepsTime
  <2>2. QED
    BY <1>1, <2>1 DEF TimedInv
<1>4. QED
  BY <1>2, <1>3

LEMMA TimedInit == ASSUME NEW exit PROVE Init => TimedInv(exit)
<1>1. Init => PhaseInv /\ CallsTimed
  BY TypeInit
     DEF Init, PhaseInv, LossLeavesGateway, CallsInPhase, CallsTimed
<1>2. Init => LeaseCovers(exit)
  BY DEF Init, LeaseCovers, Held, Holding
<1>3. QED
  BY <1>1, <1>2 DEF TimedInv

LEMMA TimedGateway ==
  ASSUME NEW exit \in Multiples, Timely(exit), TimedInv(exit)
  PROVE  GatewayWithinLease
<1>1. ASSUME NEW s \in Sessions, OnGateway(s)
      PROVE  lease.holder = s /\ lease.left > 0
  <2>1. Held(s)
    BY <1>1
       DEF OnGateway, Gateway, Held, Holding, TimedInv, PhaseInv,
           LossLeavesGateway
  <2>2. TypeOK /\ Covered(s, exit)
    BY <2>1 DEF TimedInv, PhaseInv, LeaseCovers
  <2>3. QED
    BY <2>2, CoveredHolds
<1>2. QED
  BY <1>1 DEF GatewayWithinLease

(* The times fit in the code: in milliseconds, a lease of 45 s, a heartbeat *)
(* every 10 s, a deadline of 35 s, and round trips under 5 s.              *)
LEMMA CodeTimesFit ==
  ASSUME TTL = 45000, HeartbeatPeriod = 10000, LossDeadline = 35000,
         MaxDelay < 5000
  PROVE  TimelyLoss
<1>1. MaxDelay \in Nat
  BY LeaseAssumption
<1>2. 40000 = 4 * HeartbeatPeriod
  OBVIOUS
<1>3. 40000 \in Multiples
  BY <1>2 DEF Multiples
<1>4. Timely(40000)
  BY <1>1 DEF Timely
<1>5. QED
  BY <1>3, <1>4 DEF TimelyLoss

(* Provided the times fit, a runtime is on the gateway only while the row  *)
(* is its own and the lease has time left.                                 *)
THEOREM LeaseGateway ==
  ASSUME TimelyLoss
  PROVE  Spec => []GatewayWithinLease
<1>1. PICK exit \in Multiples : Timely(exit)
  BY DEF TimelyLoss
<1>2. Init => TimedInv(exit)
  BY TimedInit
<1>3. TimedInv(exit) /\ [Next]_vars => TimedInv(exit)'
  BY <1>1, TimedKept
<1>4. TimedInv(exit) => GatewayWithinLease
  BY <1>1, TimedGateway
<1>5. QED
  BY <1>2, <1>3, <1>4, PTL DEF Spec

(* One active bot runtime per installation: provided the times fit, never  *)
(* are two on the gateway.                                                 *)
THEOREM LeaseOneActive ==
  ASSUME TimelyLoss
  PROVE  Spec => []OneActiveRuntime
<1>1. GatewayWithinLease => OneActiveRuntime
  BY DEF GatewayWithinLease, OneActiveRuntime
<1>2. QED
  BY <1>1, LeaseGateway, PTL
=============================================================================
