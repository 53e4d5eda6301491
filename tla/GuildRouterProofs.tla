------------------------ MODULE GuildRouterProofs -------------------------
(***************************************************************************)
(* Proofs about the guild router, for every set of guilds and callers and  *)
(* every number of departures and faults.                                  *)
(***************************************************************************)
EXTENDS GuildRouter, TLAPS

(* A teardown stops the services of a guild exactly while its context says *)
(* so.                                                                     *)
TeardownInStep ==
  \A g \in Guilds : removing[g] = "stopping" <=> context[g] = "stopping"

(* What destroyAll has reached at each of its stages.  A context left over *)
(* while it waits is one it waits for, or one whose teardown it has seen   *)
(* fail.                                                                   *)
DrainInStep ==
  /\ drain.at # "none" => ~accepting
  /\ drain.at \in {"stop", "done"} => \A g \in Guilds : starting[g] = 0
  /\ drain.at = "stop" =>
       \A g \in Guilds :
         context[g] # "none" =>
           g \in drain.of /\ (removing[g] # "none" \/ drain.failed)
  /\ drain.at = "done" => \A g \in Guilds : context[g] = "none"

RouterInv == TypeOK /\ OneContextPerGuild /\ TeardownInStep /\ DrainInStep

----------------------------------------------------------------------------
(* Moving calls keeps their type, and hands out nothing but by "has".      *)
LEMMA MoveTyped ==
  ASSUME TypeOK, NEW C \in SUBSET Callers, NEW at \in CallStates
  PROVE  Move(C, at) \in [Callers -> [at : CallStates, guild : Guilds]]
  BY RouterAssumption DEF TypeOK, Move, NoCall, CallStates

LEMMA MoveHandsOutNothing ==
  ASSUME NEW C \in SUBSET Callers, NEW at \in CallStates \ {"has"},
         NEW c \in Callers, calls[c].at # "has"
  PROVE  Move(C, at)[c].at # "has"
  BY DEF Move, NoCall, CallStates

LEMMA WaitingCallers ==
  ASSUME NEW g, NEW at
  PROVE  Waiting(g, at) \in SUBSET Callers
  BY DEF Waiting

(* What remove does to the guilds in G, in a state that is in step.        *)
LEMMA RemoveInStep ==
  ASSUME RouterInv, NEW G \in SUBSET Guilds, Remove(G)
  PROVE  /\ removing' \in [Guilds -> {"none", "init", "stopping"}]
         /\ context' \in [Guilds -> ContextStates]
         /\ access' \in [Guilds -> {"absent", "fresh", "stale"}]
         /\ \A g \in Guilds :
              /\ context'[g] = "none" <=> context[g] = "none"
              /\ removing'[g] = "stopping" <=> context'[g] = "stopping"
              /\ removing[g] # "none" => removing'[g] # "none"
              /\ g \in G /\ context[g] # "none" => removing'[g] # "none"
  BY DEF Remove, RouterInv, TypeOK, TeardownInStep, OneContextPerGuild,
         ContextStates

----------------------------------------------------------------------------
(* The invariant holds initially, and every step of the router keeps it.   *)
LEMMA RouterInit == Init => RouterInv
  BY RouterAssumption
     DEF Init, NoCall, NoDrain, ContextStates, CallStates, RouterInv, TypeOK,
         OneContextPerGuild, TeardownInStep, DrainInStep

(* Steps of the calls of getContext.                                       *)
LEMMA GetContextKeeps ==
  ASSUME RouterInv, NEW c \in Callers, NEW g \in Guilds, GetContext(c, g)
  PROVE  RouterInv'
<1> USE DEF RouterInv
<1>1. drain.at = "none"
  BY DEF GetContext, DrainInStep, TypeOK
<1>2. TypeOK'
  BY RouterAssumption
     DEF GetContext, Enter, StartsInit, NoCall, CallStates, TypeOK
<1>3. OneContextPerGuild'
  BY DEF GetContext, Enter, StartsInit, OneContextPerGuild, TypeOK
<1>4. TeardownInStep'
  BY DEF GetContext, TeardownInStep
<1>5. DrainInStep'
  BY <1>1 DEF GetContext, DrainInStep
<1>6. QED
  BY <1>2, <1>3, <1>4, <1>5

LEMMA FinishKeeps ==
  ASSUME RouterInv, NEW c \in Callers, Finish(c)
  PROVE  RouterInv'
<1>1. TypeOK'
  BY RouterAssumption DEF Finish, NoCall, CallStates, RouterInv, TypeOK
<1>2. QED
  BY <1>1 DEF Finish, RouterInv, OneContextPerGuild, TeardownInStep,
              DrainInStep

(* Ends of an initialisation.                                              *)
LEMMA PublishKeeps ==
  ASSUME RouterInv, NEW g \in Guilds, Publish(g)
  PROVE  RouterInv'
<1> USE DEF RouterInv
<1>1. starting[g] = 1 /\ context[g] = "none" /\ removing[g] # "stopping"
  BY DEF Publish, OneContextPerGuild, TeardownInStep, TypeOK
<1>2. drain.at \notin {"stop", "done"}
  BY <1>1 DEF DrainInStep
<1>3. calls' \in [Callers -> [at : CallStates, guild : Guilds]]
  BY MoveTyped, WaitingCallers DEF Publish, CallStates
<1>4. TypeOK'
  BY <1>3 DEF Publish, ContextStates, TypeOK
<1>5. OneContextPerGuild'
  BY <1>1 DEF Publish, OneContextPerGuild, TypeOK
<1>6. TeardownInStep'
  BY <1>1 DEF Publish, TeardownInStep, TypeOK
<1>7. DrainInStep'
  BY <1>2 DEF Publish, DrainInStep
<1>8. QED
  BY <1>4, <1>5, <1>6, <1>7

LEMMA InitFailsKeeps ==
  ASSUME RouterInv, NEW g \in Guilds, InitFails(g)
  PROVE  RouterInv'
<1> USE DEF RouterInv
<1>1. calls' \in [Callers -> [at : CallStates, guild : Guilds]]
  BY MoveTyped, WaitingCallers DEF InitFails, CallStates
<1>2. TypeOK'
  BY <1>1, RouterAssumption DEF InitFails, TypeOK
<1>3. OneContextPerGuild'
  BY DEF InitFails, OneContextPerGuild, TypeOK
<1>4. TeardownInStep'
  BY DEF InitFails, TeardownInStep
<1>5. DrainInStep'
  BY DEF InitFails, DrainInStep, TypeOK
<1>6. QED
  BY <1>2, <1>3, <1>4, <1>5

(* Steps of a teardown.                                                    *)
LEMMA StopInitialisedKeeps ==
  ASSUME RouterInv, NEW g \in Guilds, StopInitialised(g)
  PROVE  RouterInv'
  BY DEF StopInitialised, ContextStates, RouterInv, TypeOK,
         OneContextPerGuild, TeardownInStep, DrainInStep

LEMMA RemoveEndsKeeps ==
  ASSUME RouterInv, NEW g \in Guilds, RemoveEnds(g)
  PROVE  RouterInv'
<1> USE DEF RouterInv
<1>1. starting[g] = 0
  BY DEF RemoveEnds, OneContextPerGuild, TeardownInStep, TypeOK
<1>2. /\ calls' \in [Callers -> [at : CallStates, guild : Guilds]]
      /\ starting' = starting \/ accepting
      /\ \/ starting' = starting
         \/ starting' = [starting EXCEPT ![g] = 1]
         \/ starting' = [starting EXCEPT ![g] = 0]
      /\ access' \in [Guilds -> {"absent", "fresh", "stale"}]
  <2>1. /\ Move(Waiting(g, "removal"), "init")
             \in [Callers -> [at : CallStates, guild : Guilds]]
        /\ Move(Waiting(g, "removal"), "idle")
             \in [Callers -> [at : CallStates, guild : Guilds]]
    BY MoveTyped, WaitingCallers DEF CallStates
  <2>2. CASE Waiting(g, "removal") # {} /\ accepting
    BY <1>1, <2>1, <2>2 DEF RemoveEnds, Resume, TypeOK
  <2>3. CASE ~(Waiting(g, "removal") # {} /\ accepting)
    BY <2>1, <2>3 DEF RemoveEnds, Resume, TypeOK
  <2>4. QED
    BY <2>2, <2>3
<1>3. TypeOK'
  <2>1. starting' \in [Guilds -> Nat]
    BY <1>2 DEF TypeOK
  <2>2. removing' \in [Guilds -> {"none", "init", "stopping"}]
    BY DEF RemoveEnds, TypeOK
  <2>3. context' \in [Guilds -> ContextStates]
    BY DEF RemoveEnds, ContextStates, TypeOK
  <2>4. QED
    BY <1>2, <2>1, <2>2, <2>3 DEF RemoveEnds, TypeOK
<1>4. OneContextPerGuild'
  BY <1>1, <1>2 DEF RemoveEnds, OneContextPerGuild, TypeOK
<1>5. TeardownInStep'
  BY DEF RemoveEnds, TeardownInStep, TypeOK
<1>6. DrainInStep'
  BY <1>2 DEF RemoveEnds, DrainInStep, TypeOK
<1>7. QED
  BY <1>3, <1>4, <1>5, <1>6

LEMMA RemoveFailsKeeps ==
  ASSUME RouterInv, NEW g \in Guilds, RemoveFails(g)
  PROVE  RouterInv'
<1> USE DEF RouterInv
<1>1. calls' \in [Callers -> [at : CallStates, guild : Guilds]]
  BY MoveTyped, WaitingCallers DEF RemoveFails, CallStates
<1>2. /\ drain'.at = drain.at /\ drain'.of = drain.of
      /\ drain'.failed = (drain.failed \/ g \in drain.of)
      /\ drain' \in [at : {"none", "init", "stop", "done"},
                     of : SUBSET Guilds, failed : BOOLEAN]
  BY DEF RemoveFails, TypeOK
<1>3. context[g] = "stopping"
  BY DEF RemoveFails, TeardownInStep
<1>4. TypeOK'
  BY <1>1, <1>2, RouterAssumption DEF RemoveFails, ContextStates, TypeOK
<1>5. OneContextPerGuild'
  BY <1>3 DEF RemoveFails, OneContextPerGuild, TypeOK
<1>6. TeardownInStep'
  BY DEF RemoveFails, TeardownInStep, TypeOK
<1>7. DrainInStep'
  BY <1>2, <1>3 DEF RemoveFails, DrainInStep, TypeOK
<1>8. QED
  BY <1>4, <1>5, <1>6, <1>7

(* Guilds the bot joins, leaves and loses to idleness.                     *)
LEMMA JoinKeeps ==
  ASSUME RouterInv, NEW g \in Guilds, Join(g)
  PROVE  RouterInv'
  BY DEF Join, RouterInv, TypeOK, OneContextPerGuild, TeardownInStep,
         DrainInStep

LEMMA FallIdleKeeps ==
  ASSUME RouterInv, NEW g \in Guilds, FallIdle(g)
  PROVE  RouterInv'
  BY DEF FallIdle, RouterInv, TypeOK, OneContextPerGuild, TeardownInStep,
         DrainInStep

LEMMA LeaveKeeps ==
  ASSUME RouterInv, NEW g \in Guilds, Leave(g)
  PROVE  RouterInv'
<1>1. {g} \in SUBSET Guilds /\ Remove({g})
  BY DEF Leave
<1>2. TypeOK'
  BY <1>1, RemoveInStep, RouterAssumption DEF Leave, RouterInv, TypeOK
<1>3. QED
  BY <1>1, <1>2, RemoveInStep
     DEF Leave, RouterInv, OneContextPerGuild, TeardownInStep, DrainInStep

LEMMA EvictIdleKeeps ==
  ASSUME RouterInv, EvictIdle
  PROVE  RouterInv'
<1>1. Evictable \in SUBSET Guilds /\ Remove(Evictable)
  BY DEF EvictIdle, Evictable
<1>2. TypeOK'
  BY <1>1, RemoveInStep DEF EvictIdle, RouterInv, TypeOK
<1>3. QED
  BY <1>1, <1>2, RemoveInStep
     DEF EvictIdle, RouterInv, OneContextPerGuild, TeardownInStep,
         DrainInStep

(* Steps of destroyAll.                                                    *)
LEMMA DestroyAllKeeps ==
  ASSUME RouterInv, DestroyAll
  PROVE  RouterInv'
  BY DEF DestroyAll, RouterInv, TypeOK, OneContextPerGuild, TeardownInStep,
         DrainInStep

LEMMA DrainTakesKeeps ==
  ASSUME RouterInv, DrainTakes
  PROVE  RouterInv'
<1> DEFINE Kept == {g \in Guilds : context[g] # "none"}
<1>1. Kept \in SUBSET Guilds /\ Remove(Kept)
  BY DEF DrainTakes
<1>2. /\ drain' \in [at : {"none", "init", "stop", "done"},
                     of : SUBSET Guilds, failed : BOOLEAN]
      /\ drain'.at = "stop" /\ drain'.of = Kept
  BY DEF DrainTakes, RouterInv, TypeOK
<1>3. TypeOK'
  BY <1>1, <1>2, RemoveInStep DEF DrainTakes, RouterInv, TypeOK
<1>4. OneContextPerGuild' /\ TeardownInStep'
  BY <1>1, RemoveInStep
     DEF DrainTakes, RouterInv, OneContextPerGuild, TeardownInStep
<1>5. DrainInStep'
  BY <1>1, <1>2, RemoveInStep DEF DrainTakes, RouterInv, DrainInStep, TypeOK
<1>6. QED
  BY <1>3, <1>4, <1>5 DEF RouterInv

LEMMA DrainEndsKeeps ==
  ASSUME RouterInv, DrainEnds
  PROVE  RouterInv'
<1> USE DEF RouterInv
<1>1. CASE drain.failed
  BY <1>1 DEF DrainEnds, NoDrain, TypeOK, OneContextPerGuild, TeardownInStep,
              DrainInStep
<1>2. CASE ~drain.failed
  BY <1>2 DEF DrainEnds, NoDrain, TypeOK, OneContextPerGuild, TeardownInStep,
              DrainInStep
<1>3. QED
  BY <1>1, <1>2

----------------------------------------------------------------------------
(* The invariant of the router: its type, one set of services per guild,   *)
(* teardowns and the drain in step with the contexts.                      *)
THEOREM RouterInvariant == Spec => []RouterInv
<1>1. ASSUME RouterInv, [Next]_vars
      PROVE  RouterInv'
  <2>1. CASE Next
    BY <1>1, <2>1, GetContextKeeps, FinishKeeps, PublishKeeps, InitFailsKeeps,
       StopInitialisedKeeps, RemoveEndsKeeps, RemoveFailsKeeps, JoinKeeps,
       LeaveKeeps, FallIdleKeeps, EvictIdleKeeps, DestroyAllKeeps,
       DrainTakesKeeps, DrainEndsKeeps
       DEF Next
  <2>2. CASE UNCHANGED vars
    BY <1>1, <2>2 DEF vars, RouterInv, TypeOK, OneContextPerGuild,
                      TeardownInStep, DrainInStep
  <2>3. QED
    BY <1>1, <2>1, <2>2
<1>2. QED
  BY RouterInit, <1>1, PTL DEF Spec

(* Every variable of the router holds a value of its type.                 *)
THEOREM RouterTypeOK == Spec => []TypeOK
<1>1. RouterInv => TypeOK
  BY DEF RouterInv
<1>2. QED
  BY RouterInvariant, <1>1, PTL

(* The router never has two sets of services of one guild in hand.         *)
THEOREM RouterOneContext == Spec => []OneContextPerGuild
<1>1. RouterInv => OneContextPerGuild
  BY DEF RouterInv
<1>2. QED
  BY RouterInvariant, <1>1, PTL

(* A destroyAll that succeeded left nothing behind, and nothing comes      *)
(* after it.                                                               *)
THEOREM RouterDrains == Spec => []DrainLeavesNothing
<1>1. RouterInv => DrainLeavesNothing
  BY DEF RouterInv, DrainInStep, TeardownInStep, DrainLeavesNothing
<1>2. QED
  BY RouterInvariant, <1>1, PTL

(* No call is handed the context of a guild whose teardown has begun, nor  *)
(* one of a router that drains.                                            *)
THEOREM RouterHandsOutKept == Spec => HandedOutIsKept
<1> DEFINE Handed ==
      \A c \in Callers :
        calls[c].at # "has" /\ calls'[c].at = "has" =>
          /\ accepting'
          /\ removing'[calls'[c].guild] = "none"
          /\ context'[calls'[c].guild] \in {"live", "half"}
<1>1. ASSUME RouterInv, [Next]_vars
      PROVE  Handed
  <2> USE <1>1 DEF RouterInv
  <2>1. ASSUME NEW c \in Callers, NEW g \in Guilds, GetContext(c, g)
        PROVE  Handed
    BY <2>1 DEF GetContext, Enter, NoCall, TeardownInStep, ContextStates,
                TypeOK
  <2>2. ASSUME NEW c \in Callers, Finish(c)
        PROVE  Handed
    BY <2>2 DEF Finish, NoCall, TypeOK
  <2>3. ASSUME NEW g \in Guilds, Publish(g)
        PROVE  Handed
    <3>1. ASSUME NEW c \in Callers, calls[c].at # "has", calls'[c].at = "has"
          PROVE  /\ accepting /\ removing[g] = "none"
                 /\ calls'[c].guild = g
      BY <2>3, <3>1 DEF Publish, Move, Waiting, NoCall, TypeOK
    <3>2. QED
      BY <2>3, <3>1 DEF Publish, TypeOK
  <2>4. ASSUME NEW g \in Guilds, InitFails(g) \/ RemoveFails(g)
        PROVE  Handed
    BY <2>4, MoveHandsOutNothing, WaitingCallers
       DEF InitFails, RemoveFails, CallStates
  <2>5. ASSUME NEW g \in Guilds, RemoveEnds(g)
        PROVE  Handed
    BY <2>5, MoveHandsOutNothing, WaitingCallers
       DEF RemoveEnds, Resume, CallStates
  <2>6. CASE UNCHANGED calls
    BY <2>6
  <2>7. CASE UNCHANGED vars
    BY <2>6, <2>7 DEF vars
  <2>8. CASE Next
    BY <2>1, <2>2, <2>3, <2>4, <2>5, <2>6, <2>8
       DEF Next, StopInitialised, Join, Leave, FallIdle, EvictIdle,
           DestroyAll, DrainTakes, DrainEnds
  <2>9. QED
    BY <2>7, <2>8
<1>2. QED
  BY RouterInvariant, <1>1, PTL DEF Spec, HandedOutIsKept
===========================================================================
