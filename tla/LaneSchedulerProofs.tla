------------------------ MODULE LaneSchedulerProofs ------------------------
(***************************************************************************)
(* Proofs about the scheduler and stop(), for any tasks, sweeps and budget.*)
(***************************************************************************)
EXTENDS LaneScheduler, FiniteSetTheorems, SequenceTheorems, TLAPS

(* w lists the members of S, each once.                                    *)
Lists(w, S) ==
  /\ \A i \in 1..Len(w) : w[i] \in S
  /\ \A i, j \in 1..Len(w) : w[i] = w[j] => i = j
  /\ \A t \in S : \E i \in 1..Len(w) : w[i] = t

Waiting(l) == {t \in Tasks : Lane(t) = l /\ task[t] = "waiting"}

(* A lane: its queue is the tasks that wait, its counter the tasks that    *)
(* hold a slot, and nobody waits while a slot is free.                     *)
LaneOK(l) ==
  /\ Lists(waiters[l], Waiting(l))
  /\ active[l] = Cardinality(Holding(l))
  /\ active[l] <= Budget
  /\ waiters[l] # <<>> => active[l] = Budget

LanesOK == \A l \in Lanes : LaneOK(l)

(* How far stop() got says what can no longer happen.                      *)
StopOK ==
  /\ closed => \A t \in Tasks : task[t] # "parked"
  /\ stop \in {"drain", "stopped"} => \A x \in Sweeps : sweep[x] = "off"
  /\ stop = "stopped" => Idle

Inv == TypeOK /\ LanesOK /\ StopOK

----------------------------------------------------------------------------
(* Lists.                                                                  *)

LEMMA ListsNothing ==
  ASSUME NEW S, Lists(<<>>, S)
  PROVE  S = {}
  BY EmptySeq DEF Lists

LEMMA ListsAppend ==
  ASSUME NEW T, NEW w \in Seq(T), NEW S \in SUBSET T, Lists(w, S),
         NEW t \in T, t \notin S
  PROVE  Lists(Append(w, t), S \cup {t})
<1> DEFINE v == Append(w, t)
           n == Len(w)
<1>1. /\ n \in Nat /\ Len(v) = n + 1
      /\ \A i \in 1..n : v[i] = w[i]
      /\ v[n + 1] = t
  BY AppendProperties, LenProperties
<1>2. 1..Len(v) = (1..n) \cup {n + 1}
  BY <1>1
<1>3. /\ \A i \in 1..n : w[i] \in S
      /\ \A i, j \in 1..n : w[i] = w[j] => i = j
      /\ \A s \in S : \E i \in 1..n : w[i] = s
  BY DEF Lists
<1> HIDE DEF v, n
<1>4. \A i \in 1..Len(v) : v[i] \in S \cup {t}
  BY <1>1, <1>2, <1>3
<1>5. \A i, j \in 1..Len(v) : v[i] = v[j] => i = j
  BY <1>1, <1>2, <1>3
<1>6. \A s \in S \cup {t} : \E i \in 1..Len(v) : v[i] = s
  <2>1. \A s \in S : \E i \in 1..n : v[i] = s
    BY <1>1, <1>3
  <2>2. QED
    BY <1>1, <1>2, <2>1
<1>7. Lists(v, S \cup {t})
  BY <1>4, <1>5, <1>6 DEF Lists
<1>8. QED
  BY <1>7 DEF v

LEMMA ListsTail ==
  ASSUME NEW T, NEW w \in Seq(T), NEW S, Lists(w, S), w # <<>>
  PROVE  Head(w) \in S /\ Lists(Tail(w), S \ {Head(w)})
<1> DEFINE v == Tail(w)
           n == Len(w)
           h == Head(w)
<1>1. /\ n \in Nat /\ n > 0 /\ Len(v) = n - 1
      /\ \A i \in 1..(n - 1) : v[i] = w[i + 1]
      /\ h = w[1]
  BY HeadTailProperties, LenProperties, EmptySeq
<1>2. /\ \A i \in 1..n : w[i] \in S
      /\ \A i, j \in 1..n : w[i] = w[j] => i = j
      /\ \A s \in S : \E i \in 1..n : w[i] = s
  BY DEF Lists
<1> HIDE DEF v, n, h
<1>3. 1 \in 1..n /\ \A i \in 1..(n - 1) : i + 1 \in 1..n /\ i + 1 # 1
  BY <1>1
<1>4. \A i \in 1..Len(v) : v[i] \in S \ {h}
  BY <1>1, <1>2, <1>3
<1>5. \A i, j \in 1..Len(v) : v[i] = v[j] => i = j
  BY <1>1, <1>2, <1>3
<1>6. ASSUME NEW s \in S \ {h}
      PROVE  \E i \in 1..Len(v) : v[i] = s
  <2>1. PICK i \in 1..n : w[i] = s
    BY <1>2
  <2>2. i - 1 \in 1..(n - 1) /\ v[i - 1] = s
    BY <1>1, <2>1
  <2>3. QED
    BY <1>1, <2>2
<1>7. Lists(v, S \ {h})
  BY <1>4, <1>5, <1>6 DEF Lists
<1>8. h \in S
  BY <1>1, <1>2, <1>3
<1>9. QED
  BY <1>7, <1>8 DEF v, h

----------------------------------------------------------------------------
(* The lanes.                                                              *)

Typed ==
  /\ task \in [Tasks -> TaskStates]
  /\ active \in [Lanes -> Nat]
  /\ waiters \in [Lanes -> Seq(Tasks)]

LEMMA LaneIsLane == \A t : Lane(t) \in Lanes
  BY DEF Lane, Lanes

LEMMA HoldingFinite ==
  ASSUME NEW l
  PROVE  IsFiniteSet(Holding(l)) /\ Cardinality(Holding(l)) \in Nat
<1>1. Holding(l) \in SUBSET Tasks
  BY DEF Holding
<1>2. QED
  BY <1>1, LaneAssumption, FS_Subset, FS_CardinalityType

(* A lane whose tasks keep or lose no slot, and neither start nor stop to  *)
(* wait.                                                                   *)
LEMMA LaneStays ==
  ASSUME NEW l \in Lanes, LaneOK(l),
         active'[l] = active[l], waiters'[l] = waiters[l],
         \A t \in Tasks :
           Lane(t) = l =>
             /\ task'[t] = "waiting" <=> task[t] = "waiting"
             /\ task'[t] \in {"granted", "running"}
                  <=> task[t] \in {"granted", "running"}
  PROVE  LaneOK(l)'
<1>1. Waiting(l)' = Waiting(l) /\ Holding(l)' = Holding(l)
  BY DEF Waiting, Holding
<1>2. QED
  BY <1>1 DEF LaneOK, Lists

(* A newcomer: refused, given a free slot of a lane in which nobody waits, *)
(* or put at the end of the queue.                                         *)
LEMMA EnterEffect ==
  ASSUME Typed, LanesOK, NEW t \in Tasks, task[t] \in {"idle", "parked"},
         Enter(t)
  PROVE  /\ Typed' /\ LanesOK'
         /\ \A u \in Tasks : u # t => task'[u] = task[u]
         /\ task'[t] \in {"granted", "waiting", "done"}
         /\ task'[t] = "granted" => waiters[Lane(t)] = <<>>
         /\ closed => task'[t] = "done" /\ UNCHANGED <<active, waiters>>
<1> DEFINE l == Lane(t)
<1>0. /\ l \in Lanes /\ LaneOK(l)
      /\ active[l] \in Nat /\ waiters[l] \in Seq(Tasks)
      /\ Budget \in Nat
  BY LaneIsLane, LaneAssumption DEF LanesOK, Typed
<1>1. t \notin Holding(l) /\ t \notin Waiting(l)
  BY DEF Holding, Waiting
<1>2. ASSUME NEW to \in {"granted", "waiting", "done"},
             task' = [task EXCEPT ![t] = to]
      PROVE  /\ task' \in [Tasks -> TaskStates]
             /\ task'[t] = to
             /\ \A u \in Tasks : u # t => task'[u] = task[u]
             /\ Holding(l)' = IF to = "granted"
                              THEN Holding(l) \cup {t} ELSE Holding(l)
             /\ Waiting(l)' = IF to = "waiting"
                              THEN Waiting(l) \cup {t} ELSE Waiting(l)
  <2>1. /\ task' \in [Tasks -> TaskStates]
        /\ task'[t] = to
        /\ \A u \in Tasks : u # t => task'[u] = task[u]
    BY <1>2 DEF Typed, TaskStates
  <2>2. Holding(l)' = IF to = "granted"
                      THEN Holding(l) \cup {t} ELSE Holding(l)
    BY <1>2, <2>1 DEF Holding
  <2>3. Waiting(l)' = IF to = "waiting"
                      THEN Waiting(l) \cup {t} ELSE Waiting(l)
    BY <1>2, <2>1 DEF Waiting
  <2>4. QED
    BY <2>1, <2>2, <2>3
<1>3. ASSUME \A u \in Tasks : u # t => task'[u] = task[u],
             \A k \in Lanes : k # l => /\ active'[k] = active[k]
                                       /\ waiters'[k] = waiters[k],
             LaneOK(l)'
      PROVE  LanesOK'
  <2>1. ASSUME NEW k \in Lanes, k # l
        PROVE  LaneOK(k)'
    BY <1>3, <2>1, LaneStays DEF LanesOK
  <2>2. QED
    BY <1>3, <2>1 DEF LanesOK
<1>4. CASE closed
  <2>1. task' = [task EXCEPT ![t] = "done"] /\ UNCHANGED <<active, waiters>>
    BY <1>4 DEF Enter
  <2>2. /\ task' \in [Tasks -> TaskStates] /\ task'[t] = "done"
        /\ \A u \in Tasks : u # t => task'[u] = task[u]
        /\ Holding(l)' = Holding(l) /\ Waiting(l)' = Waiting(l)
    BY <1>2, <2>1
  <2>3. LaneOK(l)'
    BY <1>0, <2>1, <2>2 DEF LaneOK, Lists
  <2>4. QED
    BY <1>3, <2>1, <2>2, <2>3 DEF Typed
<1>5. CASE ~closed /\ active[l] < Budget
  <2>1. /\ task' = [task EXCEPT ![t] = "granted"]
        /\ active' = [active EXCEPT ![l] = active[l] + 1]
        /\ waiters' = waiters
    BY <1>5 DEF Enter
  <2>2. /\ task' \in [Tasks -> TaskStates] /\ task'[t] = "granted"
        /\ \A u \in Tasks : u # t => task'[u] = task[u]
        /\ Holding(l)' = Holding(l) \cup {t} /\ Waiting(l)' = Waiting(l)
    BY <1>2, <2>1
  <2>3. /\ active' \in [Lanes -> Nat] /\ active'[l] = active[l] + 1
        /\ \A k \in Lanes : k # l => active'[k] = active[k]
    BY <1>0, <2>1 DEF Typed
  <2>4. waiters[l] = <<>>
    BY <1>0, <1>5 DEF LaneOK
  <2>5. active'[l] = Cardinality(Holding(l)')
    BY <1>0, <1>1, <2>2, <2>3, HoldingFinite, FS_AddElement DEF LaneOK
  <2>6. active'[l] <= Budget
    BY <1>0, <1>5, <2>3
  <2>7. LaneOK(l)'
    BY <1>0, <2>1, <2>2, <2>4, <2>5, <2>6 DEF LaneOK, Lists
  <2>8. QED
    BY <1>3, <1>5, <2>1, <2>2, <2>3, <2>4, <2>7 DEF Typed
<1>6. CASE ~closed /\ ~(active[l] < Budget)
  <2>1. /\ task' = [task EXCEPT ![t] = "waiting"]
        /\ waiters' = [waiters EXCEPT ![l] = Append(waiters[l], t)]
        /\ active' = active
    BY <1>6 DEF Enter
  <2>2. /\ task' \in [Tasks -> TaskStates] /\ task'[t] = "waiting"
        /\ \A u \in Tasks : u # t => task'[u] = task[u]
        /\ Holding(l)' = Holding(l) /\ Waiting(l)' = Waiting(l) \cup {t}
    BY <1>2, <2>1
  <2>3. Append(waiters[l], t) \in Seq(Tasks)
    BY <1>0, AppendProperties
  <2>4. /\ waiters' \in [Lanes -> Seq(Tasks)]
        /\ waiters'[l] = Append(waiters[l], t)
        /\ \A k \in Lanes : k # l => waiters'[k] = waiters[k]
    BY <1>0, <2>1, <2>3 DEF Typed
  <2>5. Lists(Append(waiters[l], t), Waiting(l) \cup {t})
    <3>1. Waiting(l) \in SUBSET Tasks
      BY DEF Waiting
    <3>2. QED
      BY <1>0, <1>1, <3>1, ListsAppend DEF LaneOK
  <2>6. active[l] = Budget
    BY <1>0, <1>6 DEF LaneOK
  <2>7. LaneOK(l)'
    BY <1>0, <2>1, <2>2, <2>4, <2>5, <2>6 DEF LaneOK, Lists
  <2>8. QED
    BY <1>3, <1>6, <2>1, <2>2, <2>4, <2>7 DEF Typed
<1>7. QED
  BY <1>4, <1>5, <1>6

(* A task that gives up its slot: the first one that waits takes it, or it *)
(* becomes free.                                                           *)
LEMMA LeaveEffect ==
  ASSUME Typed, LanesOK, NEW t \in Tasks, task[t] \in {"granted", "running"},
         NEW s \in {"parked", "done"}, Leave(t, s)
  PROVE  /\ Typed' /\ LanesOK'
         /\ task'[t] = s
         /\ \A u \in Tasks :
              u # t => \/ task'[u] = task[u]
                       \/ task[u] = "waiting" /\ task'[u] = "granted"
         /\ \/ stop' = stop
            \/ stop = "drain" /\ stop' = "stopped" /\ Idle'
<1> DEFINE l == Lane(t)
           w == waiters[l]
           h == Head(w)
<1>0. /\ l \in Lanes /\ LaneOK(l)
      /\ active[l] \in Nat /\ w \in Seq(Tasks)
      /\ Budget \in Nat
      /\ Lists(w, Waiting(l))
  BY LaneIsLane, LaneAssumption DEF LanesOK, LaneOK, Typed
<1>1. t \in Holding(l)
  BY DEF Holding
<1>2. ASSUME LaneOK(l)',
             \A k \in Lanes : k # l => /\ active'[k] = active[k]
                                       /\ waiters'[k] = waiters[k],
             \A u \in Tasks : Lane(u) # l => task'[u] = task[u]
      PROVE  LanesOK'
  <2>1. ASSUME NEW k \in Lanes, k # l
        PROVE  LaneOK(k)'
    BY <1>2, <2>1, LaneStays DEF LanesOK
  <2>2. QED
    BY <1>2, <2>1 DEF LanesOK
<1>3. CASE w # <<>>
  <2>1. /\ task' = [task EXCEPT ![t] = s, ![h] = "granted"]
        /\ waiters' = [waiters EXCEPT ![l] = Tail(w)]
        /\ UNCHANGED <<active, stop>>
    BY <1>3 DEF Leave
  <2>2. h \in Waiting(l) /\ Lists(Tail(w), Waiting(l) \ {h})
    BY <1>0, <1>3, ListsTail
  <2>3. h \in Tasks /\ Lane(h) = l /\ task[h] = "waiting" /\ h # t
    BY <2>2 DEF Waiting
  <2>4. Tail(w) \in Seq(Tasks)
    BY <1>0, <1>3, HeadTailProperties
  <2> HIDE DEF h
  <2>5. /\ task' \in [Tasks -> TaskStates]
        /\ task'[t] = s /\ task'[h] = "granted"
        /\ \A u \in Tasks : u # t /\ u # h => task'[u] = task[u]
    BY <2>1, <2>3 DEF Typed, TaskStates
  <2>6. /\ waiters' \in [Lanes -> Seq(Tasks)]
        /\ waiters'[l] = Tail(w)
        /\ \A k \in Lanes : k # l => waiters'[k] = waiters[k]
    BY <1>0, <2>1, <2>4 DEF Typed
  <2>7. Waiting(l)' = Waiting(l) \ {h}
    BY <2>3, <2>5 DEF Waiting
  <2>8. Holding(l)' = (Holding(l) \ {t}) \cup {h}
    BY <1>1, <2>3, <2>5 DEF Holding
  <2>9. Cardinality(Holding(l)') = Cardinality(Holding(l))
    <3>1. /\ IsFiniteSet(Holding(l) \ {t})
          /\ Cardinality(Holding(l) \ {t}) = Cardinality(Holding(l)) - 1
      BY <1>1, HoldingFinite, FS_RemoveElement
    <3>2. h \notin Holding(l) \ {t}
      BY <2>3 DEF Holding
    <3>3. Cardinality((Holding(l) \ {t}) \cup {h})
            = Cardinality(Holding(l) \ {t}) + 1
      BY <3>1, <3>2, FS_AddElement
    <3>4. Cardinality(Holding(l)) \in Nat
      BY HoldingFinite
    <3> HIDE DEF l
    <3>5. QED
      BY <2>8, <3>1, <3>3, <3>4
  <2>10. active[l] = Budget
    BY <1>0, <1>3 DEF LaneOK
  <2> HIDE DEF l, w
  <2>11. LaneOK(l)'
    BY <1>0, <2>1, <2>2, <2>6, <2>7, <2>9, <2>10 DEF LaneOK, Lists
  <2>12. LanesOK'
    BY <1>2, <2>1, <2>3, <2>5, <2>6, <2>11 DEF l
  <2>13. QED
    BY <2>1, <2>3, <2>5, <2>6, <2>12 DEF Typed
<1>4. CASE w = <<>>
  <2>1. /\ task' = [task EXCEPT ![t] = s]
        /\ active' = [active EXCEPT ![l] = active[l] - 1]
        /\ waiters' = waiters
        /\ stop' = IF stop = "drain" /\ Idle' THEN "stopped" ELSE stop
    BY <1>4 DEF Leave
  <2>2. /\ task' \in [Tasks -> TaskStates] /\ task'[t] = s
        /\ \A u \in Tasks : u # t => task'[u] = task[u]
    BY <2>1 DEF Typed, TaskStates
  <2>3. Waiting(l)' = Waiting(l)
    BY <2>2 DEF Waiting
  <2>4. Holding(l)' = Holding(l) \ {t}
    BY <1>1, <2>2 DEF Holding
  <2>5. Cardinality(Holding(l)') = Cardinality(Holding(l)) - 1
    BY <1>1, <2>4, HoldingFinite, FS_RemoveElement
  <2>6. Cardinality(Holding(l)') \in Nat
    BY <2>4, HoldingFinite, FS_RemoveElement, FS_CardinalityType
  <2>7. active[l] - 1 \in Nat
    BY <1>0, <2>5, <2>6 DEF LaneOK
  <2>8. /\ active' \in [Lanes -> Nat] /\ active'[l] = active[l] - 1
        /\ \A k \in Lanes : k # l => active'[k] = active[k]
    BY <1>0, <2>1, <2>7 DEF Typed
  <2>9. active'[l] = Cardinality(Holding(l)')
    BY <1>0, <2>5, <2>8 DEF LaneOK
  <2>10. active'[l] <= Budget
    BY <1>0, <2>8 DEF LaneOK
  <2>11. waiters'[l] = <<>> /\ waiters'[l] = waiters[l]
    BY <1>4, <2>1
  <2> HIDE DEF l, w
  <2>12. LaneOK(l)'
    BY <1>0, <2>3, <2>9, <2>10, <2>11 DEF LaneOK, Lists, w
  <2>13. LanesOK'
    BY <1>2, <2>1, <2>2, <2>8, <2>12 DEF l
  <2>14. QED
    BY <2>1, <2>2, <2>8, <2>13 DEF Typed
<1>5. QED
  BY <1>3, <1>4

(* When nothing holds a slot or waits, no task is under way.               *)
LEMMA IdleIsQuiet ==
  ASSUME LanesOK, Idle, NEW t \in Tasks
  PROVE  task[t] \notin {"waiting", "granted", "running"}
<1> DEFINE l == Lane(t)
<1>1. l \in Lanes
  BY LaneIsLane
<1>2. LaneOK(l) /\ active[l] = 0 /\ waiters[l] = <<>>
  BY <1>1 DEF LanesOK, Idle
<1>3. Holding(l) = {}
  BY <1>2, HoldingFinite, FS_EmptySet DEF LaneOK
<1>4. Waiting(l) = {}
  BY <1>2, ListsNothing DEF LaneOK
<1>5. QED
  BY <1>3, <1>4 DEF Holding, Waiting

----------------------------------------------------------------------------
(* The invariant.                                                          *)

LEMMA TypedIsTyped == TypeOK => Typed
  BY DEF TypeOK, Typed

LEMMA InvInit == Init => Inv
<1> SUFFICES ASSUME Init PROVE Inv
  OBVIOUS
<1>1. TypeOK
  BY EmptySeq DEF Init, TypeOK, TaskStates
<1>2. ASSUME NEW l \in Lanes
      PROVE  LaneOK(l)
  <2>1. Holding(l) = {} /\ Waiting(l) = {}
    BY DEF Init, Holding, Waiting
  <2>2. active[l] = 0 /\ waiters[l] = <<>>
    BY DEF Init
  <2>3. Lists(<<>>, {})
    BY EmptySeq DEF Lists
  <2>4. QED
    BY <2>1, <2>2, <2>3, FS_EmptySet, LaneAssumption DEF LaneOK
<1>3. StopOK
  BY DEF Init, StopOK, closed
<1>4. QED
  BY <1>1, <1>2, <1>3 DEF Inv, LanesOK

(* Steps that touch no lane.                                               *)
LEMMA LanesStay ==
  ASSUME LanesOK, UNCHANGED <<active, waiters>>,
         \A t \in Tasks :
           \/ task'[t] = task[t]
           \/ {task[t], task'[t]}
                \cap {"waiting", "granted", "running"} = {}
           \/ task[t] = "granted" /\ task'[t] = "running"
  PROVE  LanesOK'
<1>1. ASSUME NEW l \in Lanes
      PROVE  LaneOK(l)'
  BY LaneStays DEF LanesOK
<1>2. QED
  BY <1>1 DEF LanesOK

LEMMA InvKept ==
  ASSUME Inv, [Next]_vars
  PROVE  Inv'
<1>0. /\ TypeOK /\ Typed /\ LanesOK /\ StopOK
      /\ stop = "stopped" =>
           \A t \in Tasks : task[t] \notin {"waiting", "granted", "running"}
  BY TypedIsTyped, IdleIsQuiet DEF Inv, StopOK
<1>1. ASSUME NEW t \in Tasks, Dispatch(t) \/ TimerFires(t)
      PROVE  Inv'
  <2>1. /\ task[t] \in {"idle", "parked"} /\ Enter(t) /\ ~closed
        /\ UNCHANGED <<sweep, stop>>
        /\ retried' \subseteq Tasks
    BY <1>0, <1>1 DEF Dispatch, TimerFires, StopOK, TypeOK
  <2>2. Typed' /\ LanesOK'
    BY <1>0, <2>1, EnterEffect
  <2>3. TypeOK'
    BY <1>0, <2>1, <2>2 DEF TypeOK, Typed
  <2>4. StopOK'
    BY <2>1 DEF StopOK, closed
  <2>5. QED
    BY <2>2, <2>3, <2>4 DEF Inv
<1>2. ASSUME NEW t \in Tasks, Begin(t) \/ Settle(t)
      PROVE  Inv'
  <2>1. task[t] \in {"granted", "running"} /\ UNCHANGED <<retried, sweep>>
    BY <1>2 DEF Begin, Settle
  <2>2. stop # "stopped"
    BY <1>0, <2>1
  <2>3. CASE /\ task[t] = "granted"
             /\ task' = [task EXCEPT ![t] = "running"]
             /\ UNCHANGED <<active, waiters, stop>>
    <3>1. TypeOK'
      BY <1>0, <2>1, <2>3 DEF TypeOK, TaskStates
    <3>2. LanesOK'
      BY <1>0, <2>3, LanesStay DEF TypeOK
    <3>3. StopOK'
      BY <1>0, <2>1, <2>2, <2>3 DEF StopOK, closed, TypeOK
    <3>4. QED
      BY <3>1, <3>2, <3>3 DEF Inv
  <2>4. ASSUME NEW s \in {"parked", "done"}, Leave(t, s),
               s = "parked" => ~closed
        PROVE  Inv'
    <3>1. /\ Typed' /\ LanesOK' /\ task'[t] = s
          /\ \A u \in Tasks : u # t =>
               task'[u] = task[u] \/ task'[u] = "granted"
          /\ \/ stop' = stop
             \/ stop = "drain" /\ stop' = "stopped" /\ Idle'
      BY <1>0, <2>1, <2>4, LeaveEffect
    <3>2. TypeOK'
      BY <1>0, <2>1, <3>1 DEF TypeOK, Typed
    <3>3. StopOK'
      BY <1>0, <2>1, <2>2, <2>4, <3>1 DEF StopOK, closed
    <3>4. QED
      BY <3>1, <3>2, <3>3 DEF Inv
  <2>5. QED
    BY <1>2, <2>3, <2>4 DEF Begin, Settle
<1>3. ASSUME NEW x \in Sweeps, NEW t \in Swept, SweepTake(x, t)
      PROVE  Inv'
  <2>1. /\ t \in Tasks /\ task[t] = "idle"
        /\ sweep[x] = NoTask /\ NoTask # "off"
        /\ UNCHANGED <<retried, stop>>
    BY <1>3, LaneAssumption DEF SweepTake, Unswept
  <2>2. CASE closed
    <3>1. /\ sweep' = [sweep EXCEPT ![x] = "off"]
          /\ UNCHANGED <<task, active, waiters>>
      BY <1>3, <2>2 DEF SweepTake
    <3>2. TypeOK'
      BY <1>0, <2>1, <3>1 DEF TypeOK
    <3>3. LanesOK'
      BY <1>0, <3>1, LanesStay
    <3>4. StopOK'
      BY <1>0, <2>1, <3>1 DEF StopOK, closed, Idle, TypeOK
    <3>5. QED
      BY <3>2, <3>3, <3>4 DEF Inv
  <2>3. CASE ~closed
    <3>1. sweep' = [sweep EXCEPT ![x] = t] /\ Enter(t)
      BY <1>3, <2>3 DEF SweepTake
    <3>2. Typed' /\ LanesOK'
      BY <1>0, <2>1, <3>1, EnterEffect
    <3>3. TypeOK'
      BY <1>0, <2>1, <3>1, <3>2 DEF TypeOK, Typed
    <3>4. StopOK'
      BY <2>1, <2>3 DEF StopOK, closed
    <3>5. QED
      BY <3>2, <3>3, <3>4 DEF Inv
  <2>4. QED
    BY <2>2, <2>3
<1>4. ASSUME NEW x \in Sweeps,
             SweepStart(x) \/ SweepAdvance(x) \/ SweepEnd(x)
      PROVE  Inv'
  <2>1. UNCHANGED <<task, retried, active, waiters, stop>>
    BY <1>4 DEF SweepStart, SweepAdvance, SweepEnd
  <2>2. \/ sweep' = [sweep EXCEPT ![x] = "off"]
        \/ /\ sweep' = [sweep EXCEPT ![x] = NoTask]
           /\ ~closed \/ sweep[x] # "off"
    BY <1>4, LaneAssumption DEF SweepStart, SweepAdvance, SweepEnd
  <2>3. TypeOK'
    BY <1>0, <2>1, <2>2 DEF TypeOK
  <2>4. LanesOK'
    BY <1>0, <2>1, LanesStay
  <2>5. StopOK'
    BY <1>0, <2>1, <2>2 DEF StopOK, closed, Idle, TypeOK
  <2>6. QED
    BY <2>3, <2>4, <2>5 DEF Inv
<1>5. CASE Stop
  <2>1. /\ stop' = "background"
        /\ UNCHANGED <<retried, active, waiters, sweep>>
        /\ task' \in [Tasks -> TaskStates]
        /\ \A t \in Tasks :
             task'[t] = IF task[t] = "parked" THEN "done" ELSE task[t]
    BY <1>0, <1>5 DEF Stop, TypeOK, TaskStates
  <2>2. TypeOK'
    BY <1>0, <2>1 DEF TypeOK
  <2>3. LanesOK'
    BY <1>0, <2>1, LanesStay
  <2>4. StopOK'
    BY <2>1 DEF StopOK, closed
  <2>5. QED
    BY <2>2, <2>3, <2>4 DEF Inv
<1>6. CASE BackgroundSettled
  <2>1. /\ stop = "background"
        /\ \A x \in Sweeps : sweep[x] = "off"
        /\ stop' = IF Idle THEN "stopped" ELSE "drain"
        /\ UNCHANGED <<task, retried, active, waiters, sweep>>
    BY <1>6 DEF BackgroundSettled
  <2>2. TypeOK'
    BY <1>0, <2>1 DEF TypeOK
  <2>3. LanesOK'
    BY <1>0, <2>1, LanesStay
  <2>4. StopOK'
    BY <1>0, <2>1 DEF StopOK, closed, Idle
  <2>5. QED
    BY <2>2, <2>3, <2>4 DEF Inv
<1>7. CASE UNCHANGED vars
  <2>1. UNCHANGED <<task, retried, active, waiters, sweep, stop>>
    BY <1>7 DEF vars
  <2>2. LanesOK'
    BY <1>0, <2>1, LanesStay
  <2>3. QED
    BY <1>0, <2>1, <2>2 DEF Inv, TypeOK, StopOK, closed, Idle
<1>8. QED
  BY <1>1, <1>2, <1>3, <1>4, <1>5, <1>6, <1>7 DEF Next, SweepStep

LEMMA Invariance == Spec => []Inv
<1>1. Inv /\ [Next]_vars => Inv'
  BY InvKept
<1>2. QED
  BY InvInit, <1>1, PTL DEF Spec

(* Tasks, counters, queues and sweeps hold values of their types; no       *)
(* counter goes below zero.                                                *)
THEOREM LaneTypeOK == Spec => []TypeOK
<1>1. Inv => TypeOK
  BY DEF Inv
<1>2. QED
  BY <1>1, Invariance, PTL

(* No hand-off, refusal or throw leaks a slot or lends one twice.          *)
THEOREM LaneSlots == Spec => []SlotsAccounted
<1>1. Inv => SlotsAccounted
  BY DEF Inv, LanesOK, LaneOK, SlotsAccounted
<1>2. QED
  BY <1>1, Invariance, PTL

(* Once stop() has resolved nothing is running, waiting or due to run.     *)
THEOREM LaneQuietAfterStop == Spec => []QuietAfterStop
<1>1. ASSUME Inv, stop = "stopped"
      PROVE  /\ \A t \in Tasks : task[t] \in {"idle", "done"}
             /\ \A x \in Sweeps : sweep[x] = "off"
  <2>1. /\ Idle /\ \A x \in Sweeps : sweep[x] = "off"
        /\ \A t \in Tasks : task[t] \in TaskStates /\ task[t] # "parked"
    BY <1>1 DEF Inv, StopOK, closed, TypeOK
  <2>2. \A t \in Tasks : task[t] \notin {"waiting", "granted", "running"}
    BY <1>1, <2>1, IdleIsQuiet DEF Inv
  <2>3. QED
    BY <2>1, <2>2 DEF TaskStates
<1>2. Inv => QuietAfterStop
  BY <1>1 DEF QuietAfterStop
<1>3. QED
  BY <1>2, Invariance, PTL

(* A task waits only while its lane is full, and a newcomer never          *)
(* overtakes one that waits.                                               *)
THEOREM LaneNoBarging == Spec => NoBarging
<1> DEFINE Fair == \A t \in Tasks :
                     (task[t] \in {"idle", "parked"} /\ task'[t] = "granted")
                       => waiters[Lane(t)] = <<>>
<1>1. ASSUME Inv, Next
      PROVE  Fair
  <2>1. TypeOK /\ Typed /\ LanesOK
    BY <1>1, TypedIsTyped DEF Inv
  <2>2. ASSUME NEW u \in Tasks, task[u] \in {"idle", "parked"}, Enter(u)
        PROVE  Fair
    BY <2>1, <2>2, EnterEffect
  <2>3. ASSUME NEW u \in Tasks, task[u] \in {"granted", "running"},
               NEW s \in {"parked", "done"}, Leave(u, s)
        PROVE  Fair
    BY <2>1, <2>3, LeaveEffect
  <2>4. CASE \E u \in Tasks : Dispatch(u) \/ TimerFires(u)
    BY <2>2, <2>4 DEF Dispatch, TimerFires
  <2>5. CASE \E u \in Tasks : Begin(u) \/ Settle(u)
    <3>1. PICK u \in Tasks : Begin(u) \/ Settle(u)
      BY <2>5
    <3>2. CASE task' = [task EXCEPT ![u] = "running"] /\ task[u] = "granted"
      BY <2>1, <3>2 DEF TypeOK
    <3>3. QED
      BY <2>3, <3>1, <3>2 DEF Begin, Settle
  <2>6. CASE \E x \in Sweeps, u \in Swept : SweepTake(x, u)
    <3>1. PICK x \in Sweeps, u \in Swept : SweepTake(x, u)
      BY <2>6
    <3>2. task' = task \/ (u \in Tasks /\ task[u] = "idle" /\ Enter(u))
      BY <3>1, LaneAssumption DEF SweepTake, Unswept
    <3>3. QED
      BY <2>2, <3>2
  <2>7. CASE task' = task \/ Stop
    BY <2>7 DEF Stop
  <2>8. QED
    BY <1>1, <2>4, <2>5, <2>6, <2>7
       DEF Next, SweepStep, SweepStart, SweepAdvance, SweepEnd,
           BackgroundSettled
<1>2. Inv /\ [Next]_vars => [Fair]_vars
  BY <1>1
<1>3. QED
  BY <1>2, Invariance, PTL DEF Spec, NoBarging
=============================================================================
