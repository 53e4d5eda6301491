--------------------------- MODULE LaneScheduler ---------------------------
(***************************************************************************)
(* The per-lane hand-off semaphore in front of processAction, and the      *)
(* listener that feeds it: Realtime dispatches, background sweeps, delayed *)
(* retries, and the stop() that must leave nothing running.                *)
(*                                                                         *)
(* A task is one call of LaneScheduler.run.  A step is one stretch of code *)
(* between two awaits, so a task that was given a slot ("granted") runs    *)
(* only when its continuation does, and anything may come in between.      *)
(***************************************************************************)
EXTENDS Naturals, Sequences, FiniteSets

CONSTANTS
  Tasks,     (* calls of run                                               *)
  Commerce,  (* those in the commerce lane; the others are in the game lane*)
  Swept,     (* those a sweep makes; the others come from Realtime         *)
  Sweeps,    (* background sweeps that may be under way together           *)
  NoTask,    (* what a sweep awaits between two rows                       *)
  Budget     (* LANE_CONCURRENCY of each lane                              *)

ASSUME LaneAssumption ==
  /\ IsFiniteSet(Tasks)
  /\ Commerce \subseteq Tasks
  /\ Swept \subseteq Tasks
  /\ NoTask \notin Tasks
  /\ "off" \notin Tasks \cup {NoTask}
  /\ Budget \in Nat \ {0}

VARIABLES
  task,     (* the state of each task                                      *)
  retried,  (* tasks that had their delayed retry (bound: one per task)    *)
  active,   (* slots taken in each lane                                    *)
  waiters,  (* FIFO of tasks waiting for a slot in each lane               *)
  sweep,    (* the task each sweep awaits, NoTask between rows, or "off"   *)
  stop      (* how far stop() got; the scheduler is closed from its start  *)

vars == <<task, retried, active, waiters, sweep, stop>>

Lanes == {"commerce", "game"}
Lane(t) == IF t \in Commerce THEN "commerce" ELSE "game"

(* "parked" is a task whose retry waits in a timer.                        *)
TaskStates == {"idle", "waiting", "granted", "running", "parked", "done"}

closed == stop # "no"
Idle == \A l \in Lanes : active[l] = 0 /\ waiters[l] = <<>>

----------------------------------------------------------------------------
(* The scheduler.                                                          *)

EnterSharing(t) ==
  IF closed THEN task' = [task EXCEPT ![t] = "done"] /\ UNCHANGED <<active, waiters>>
  ELSE IF active["commerce"] + active["game"] < 2 * Budget - 1
  THEN /\ task' = [task EXCEPT ![t] = "granted"]
       /\ active' = [active EXCEPT ![Lane(t)] = @ + 1]
       /\ UNCHANGED waiters
  ELSE /\ task' = [task EXCEPT ![t] = "waiting"]
       /\ waiters' = [waiters EXCEPT ![Lane(t)] = Append(@, t)]
       /\ UNCHANGED active

EnterOverBudget(t) ==
  IF closed THEN task' = [task EXCEPT ![t] = "done"] /\ UNCHANGED <<active, waiters>>
  ELSE IF active[Lane(t)] <= Budget
  THEN /\ task' = [task EXCEPT ![t] = "granted"]
       /\ active' = [active EXCEPT ![Lane(t)] = @ + 1]
       /\ UNCHANGED waiters
  ELSE /\ task' = [task EXCEPT ![t] = "waiting"]
       /\ waiters' = [waiters EXCEPT ![Lane(t)] = Append(@, t)]
       /\ UNCHANGED active

(* run: refused once closed, else acquire a slot or queue for one.         *)
Enter(t) ==
  IF closed THEN task' = [task EXCEPT ![t] = "done"] /\ UNCHANGED <<active, waiters>>
  ELSE IF active[Lane(t)] < Budget
  THEN /\ task' = [task EXCEPT ![t] = "granted"]
       /\ active' = [active EXCEPT ![Lane(t)] = @ + 1]
       /\ UNCHANGED waiters
  ELSE /\ task' = [task EXCEPT ![t] = "waiting"]
       /\ waiters' = [waiters EXCEPT ![Lane(t)] = Append(@, t)]
       /\ UNCHANGED active

LeaveWaking(t, s) ==
  LET l == Lane(t) IN
  /\ active' = [active EXCEPT ![l] = @ - 1]
  /\ IF waiters[l] # <<>>
     THEN /\ task' = [task EXCEPT ![t] = s, ![Head(waiters[l])] = "granted"]
          /\ waiters' = [waiters EXCEPT ![l] = Tail(@)]
     ELSE task' = [task EXCEPT ![t] = s] /\ UNCHANGED waiters
  /\ stop' = IF stop = "drain" /\ Idle' THEN "stopped" ELSE stop

LeaveForgettingDrain(t, s) ==
  LET l == Lane(t) IN
  IF waiters[l] # <<>>
  THEN /\ task' = [task EXCEPT ![t] = s, ![Head(waiters[l])] = "granted"]
       /\ waiters' = [waiters EXCEPT ![l] = Tail(@)]
       /\ UNCHANGED <<active, stop>>
  ELSE /\ task' = [task EXCEPT ![t] = s]
       /\ active' = [active EXCEPT ![l] = @ - 1]
       /\ UNCHANGED <<waiters, stop>>

(* release: hand the slot to the first waiter, else give it back, and let  *)
(* whoever drains the scheduler go when that was the last.                 *)
Leave(t, s) ==
  LET l == Lane(t) IN
  IF waiters[l] # <<>>
  THEN /\ task' = [task EXCEPT ![t] = s, ![Head(waiters[l])] = "granted"]
       /\ waiters' = [waiters EXCEPT ![l] = Tail(@)]
       /\ UNCHANGED <<active, stop>>
  ELSE /\ task' = [task EXCEPT ![t] = s]
       /\ active' = [active EXCEPT ![l] = @ - 1]
       /\ UNCHANGED waiters
       /\ stop' = IF stop = "drain" /\ Idle' THEN "stopped" ELSE stop

(* The continuation of a granted run.  A Realtime task finds the listener  *)
(* stopped and does nothing; a swept or retried one goes ahead.            *)
Begin(t) ==
  /\ task[t] = "granted"
  /\ IF closed /\ t \notin Swept \cup retried
     THEN Leave(t, "done")
     ELSE task' = [task EXCEPT ![t] = "running"] /\ UNCHANGED <<active, waiters, stop>>
  /\ UNCHANGED <<retried, sweep>>

(* processAction settles, having scheduled a delayed retry of the row or   *)
(* not; schedule refuses once the scheduler is closed.                     *)
Settle(t) ==
  /\ task[t] = "running"
  /\ \/ Leave(t, "done")
     \/ ~closed /\ t \notin retried /\ Leave(t, "parked")
  /\ UNCHANGED <<retried, sweep>>

TimerFires(t) ==
  /\ task[t] = "parked"
  /\ Enter(t)
  /\ retried' = retried \cup {t}
  /\ UNCHANGED <<sweep, stop>>

----------------------------------------------------------------------------
(* The listener.                                                           *)

(* dispatchPendingAction, for one Realtime event.                          *)
Dispatch(t) ==
  /\ task[t] = "idle"
  /\ t \notin Swept
  /\ ~closed
  /\ Enter(t)
  /\ UNCHANGED <<retried, sweep, stop>>

(* The minute timer or a fresh subscription starts a sweep.                *)
SweepStart(x) ==
  /\ sweep[x] = "off"
  /\ ~closed
  /\ sweep' = [sweep EXCEPT ![x] = NoTask]
  /\ UNCHANGED <<task, retried, active, waiters, stop>>

Unswept == {t \in Swept : task[t] = "idle"}

(* The sweep's next row, commerce rows first.  A closed scheduler throws,  *)
(* which ends the sweep and leaves its rows pending.                       *)
SweepTake(x, t) ==
  /\ sweep[x] = NoTask
  /\ t \in Unswept
  /\ t \in Commerce \/ Unswept \cap Commerce = {}
  /\ IF closed
     THEN sweep' = [sweep EXCEPT ![x] = "off"] /\ UNCHANGED <<task, active, waiters>>
     ELSE sweep' = [sweep EXCEPT ![x] = t] /\ Enter(t)
  /\ UNCHANGED <<retried, stop>>

(* The awaited run has settled, or no row is left.                         *)
SweepAdvance(x) ==
  /\ sweep[x] \in Swept
  /\ task[sweep[x]] \in {"parked", "done"}
  /\ sweep' = [sweep EXCEPT ![x] = NoTask]
  /\ UNCHANGED <<task, retried, active, waiters, stop>>

SweepEnd(x) ==
  /\ sweep[x] = NoTask
  /\ Unswept = {}
  /\ sweep' = [sweep EXCEPT ![x] = "off"]
  /\ UNCHANGED <<task, retried, active, waiters, stop>>

(* stop(): close the scheduler, which cancels the delayed retries, and     *)
(* wait for the background work first.                                     *)
Stop ==
  /\ stop = "no"
  /\ stop' = "background"
  /\ task' = [t \in Tasks |-> IF task[t] = "parked" THEN "done" ELSE task[t]]
  /\ UNCHANGED <<retried, active, waiters, sweep>>

BackgroundSettledIsAll ==
  /\ stop = "background"
  /\ \A x \in Sweeps : sweep[x] = "off"
  /\ stop' = "stopped"
  /\ UNCHANGED <<task, retried, active, waiters, sweep>>

(* ... then for drain(), which resolves at once when nothing runs.         *)
BackgroundSettled ==
  /\ stop = "background"
  /\ \A x \in Sweeps : sweep[x] = "off"
  /\ stop' = IF Idle THEN "stopped" ELSE "drain"
  /\ UNCHANGED <<task, retried, active, waiters, sweep>>

----------------------------------------------------------------------------
Init ==
  /\ task = [t \in Tasks |-> "idle"]
  /\ retried = {}
  /\ active = [l \in Lanes |-> 0]
  /\ waiters = [l \in Lanes |-> <<>>]
  /\ sweep = [x \in Sweeps |-> "off"]
  /\ stop = "no"

SweepStep(x) == (\E t \in Swept : SweepTake(x, t)) \/ SweepAdvance(x) \/ SweepEnd(x)

Next ==
  \/ \E t \in Tasks : Dispatch(t) \/ Begin(t) \/ Settle(t) \/ TimerFires(t)
  \/ \E x \in Sweeps : SweepStart(x) \/ SweepStep(x)
  \/ Stop
  \/ BackgroundSettled

Spec == Init /\ [][Next]_vars

(***************************************************************************)
(* Fairness: continuations run, and a commerce handler settles.  Nothing   *)
(* is assumed of game handlers: they have no timeout, so one may hang.     *)
(***************************************************************************)
Fairness ==
  /\ \A t \in Tasks : WF_vars(Begin(t))
  /\ \A t \in Commerce : WF_vars(Settle(t))
  /\ \A x \in Sweeps : WF_vars(SweepStep(x))
  /\ WF_vars(BackgroundSettled)

FairSpec == Spec /\ Fairness

----------------------------------------------------------------------------
(* What the scheduler and stop() promise.                                  *)

Holding(l) == {t \in Tasks : Lane(t) = l /\ task[t] \in {"granted", "running"}}

TypeOK ==
  /\ task \in [Tasks -> TaskStates]
  /\ retried \subseteq Tasks
  /\ active \in [Lanes -> Nat]
  /\ waiters \in [Lanes -> Seq(Tasks)]
  /\ sweep \in [Sweeps -> Swept \cup {NoTask, "off"}]
  /\ stop \in {"no", "background", "drain", "stopped"}

(* No hand-off, refusal or throw leaks a slot or lends one twice: a lane's *)
(* counter is the number of its tasks that hold a slot, and never exceeds  *)
(* the budget.                                                             *)
SlotsAccounted ==
  \A l \in Lanes : /\ active[l] = Cardinality(Holding(l))
                   /\ active[l] <= Budget

(* A task waits only while its lane is full, and a newcomer never overtakes*)
(* one that waits.                                                         *)
NoBarging ==
  [][\A t \in Tasks :
       (task[t] \in {"idle", "parked"} /\ task'[t] = "granted")
         => waiters[Lane(t)] = <<>>]_vars

(* Once stop() has resolved nothing is running, waiting or due to run, so  *)
(* no outward effect can outlive the audit consumer detached after it.     *)
QuietAfterStop ==
  stop = "stopped" => /\ \A t \in Tasks : task[t] \in {"idle", "done"}
                      /\ \A x \in Sweeps : sweep[x] = "off"

(* Paid work is never starved: a commerce task that queues gets its slot   *)
(* even when every game handler hangs.                                     *)
CommerceNotStarved ==
  \A t \in Commerce : (task[t] = "waiting") ~> (task[t] # "waiting")

(* stop() resolves, provided game handlers settle too.                     *)
StopResolves ==
  (\A t \in Tasks \ Commerce : WF_vars(Settle(t)))
    => ((stop = "background") ~> (stop = "stopped"))
=============================================================================
