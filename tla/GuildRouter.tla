---------------------------- MODULE GuildRouter ----------------------------
(***************************************************************************)
(* The guild router of a bot process: the context of each guild is         *)
(* initialised when it is first asked for, handed out, torn down when the  *)
(* bot leaves the guild or the guild falls idle, and drained at shutdown.  *)
(*                                                                         *)
(* JavaScript runs to completion between two awaits, so a step is one      *)
(* stretch of the router's code up to its next await.                      *)
(***************************************************************************)
EXTENDS Naturals

CONSTANTS
  Guilds,    (* guilds the bot has been invited to                         *)
  Primary,   (* client.guildId, the guild the instance exists to serve     *)
  Callers,   (* callers of getContext: the boot loop and guildCreate       *)
  MaxLeaves, (* bound: guildDelete events                                  *)
  MaxFaults  (* bound: initialisations and teardowns that fail             *)

ASSUME RouterAssumption ==
  /\ Primary \in Guilds
  /\ MaxLeaves \in Nat
  /\ MaxFaults \in Nat

VARIABLES
  joined,     (* client.guilds.cache                                       *)
  due,        (* guilds the boot loop or guildCreate has yet to ask for    *)
  accepting,  (* acceptingContexts                                         *)
  timer,      (* evictionTimer is set                                      *)
  context,    (* contexts: the services of the context kept for a guild    *)
  starting,   (* initContext operations under way that the router awaits   *)
  removing,   (* removing: where the teardown of each guild stands         *)
  access,     (* lastAccess, against IDLE_TIMEOUT_MS                       *)
  drain,      (* destroyAllInProgress                                      *)
  calls,      (* the getContext calls under way, and what they returned    *)
  leaves,     (* guildDelete events so far                                 *)
  faults      (* faults so far                                             *)

vars == <<joined, due, accepting, timer, context, starting, removing, access,
          drain, calls, leaves, faults>>

----------------------------------------------------------------------------
(* State.                                                                  *)

(* "half" is a context whose teardown threw after stopping some services.  *)
ContextStates == {"none", "live", "stopping", "half"}

(* A call waits for a teardown or for the initialisation, or "has" a       *)
(* context and works with it.                                              *)
CallStates == {"idle", "removal", "init", "has"}

NoCall  == [at |-> "idle", guild |-> Primary]
NoDrain == [at |-> "none", of |-> {}, failed |-> FALSE]

Waiting(g, at) == {c \in Callers : calls[c].at = at /\ calls[c].guild = g}

(* What the calls in C do next.                                            *)
Move(C, at) == [c \in Callers |-> IF c \notin C THEN calls[c]
                                  ELSE IF at = "idle" THEN NoCall
                                  ELSE [calls[c] EXCEPT !.at = at]]

Init ==
  /\ joined = Guilds
  /\ due = Guilds
  /\ accepting = TRUE
  /\ timer = TRUE
  /\ context = [g \in Guilds |-> "none"]
  /\ starting = [g \in Guilds |-> 0]
  /\ removing = [g \in Guilds |-> "none"]
  /\ access = [g \in Guilds |-> "absent"]
  /\ drain = NoDrain
  /\ calls = [c \in Callers |-> NoCall]
  /\ leaves = 0
  /\ faults = 0

----------------------------------------------------------------------------
(* getContext, past its wait for a teardown, for the calls C of guild g:   *)
(* the first of them starts the initialisation, the others share it.       *)

StartsInit(g) == context[g] = "none" /\ starting[g] = 0 /\ g \in joined

EnterTwice(C, g) ==
  /\ access' = [access EXCEPT ![g] = "fresh"]
  /\ starting' = [starting EXCEPT ![g] =
       @ + (IF context[g] = "none" /\ g \in joined THEN 1 ELSE 0)]
  /\ calls' = [c \in Callers |->
       IF c \notin C THEN calls[c]
       ELSE IF context[g] # "none" THEN [at |-> "has", guild |-> g]
       ELSE IF g \in joined THEN [at |-> "init", guild |-> g]
       ELSE NoCall]

Enter(C, g) ==
  /\ access' = [access EXCEPT ![g] = "fresh"]
  /\ starting' = [starting EXCEPT ![g] = @ + (IF StartsInit(g) THEN 1 ELSE 0)]
  /\ calls' = [c \in Callers |->
       IF c \notin C THEN calls[c]
       ELSE IF context[g] # "none" THEN [at |-> "has", guild |-> g]
       ELSE IF starting[g] > 0 \/ g \in joined
            THEN [at |-> "init", guild |-> g]
       ELSE NoCall]

(* The boot loop asks for each guild it found, and guildCreate for each    *)
(* guild the bot joins; nothing else does.                                 *)
GetContext(c, g) ==
  /\ calls[c].at = "idle"
  /\ g \in due
  /\ accepting
  /\ due' = due \ {g}
  /\ IF removing[g] # "none"
     THEN /\ calls' = [calls EXCEPT ![c] = [at |-> "removal", guild |-> g]]
          /\ UNCHANGED <<access, starting>>
     ELSE Enter({c}, g)
  /\ UNCHANGED <<joined, accepting, timer, context, removing, drain, leaves,
                 faults>>

(* The caller is done with its context.                                    *)
Finish(c) ==
  /\ calls[c].at = "has"
  /\ calls' = [calls EXCEPT ![c] = NoCall]
  /\ UNCHANGED <<joined, due, accepting, timer, context, starting, removing,
                 access, drain, leaves, faults>>

----------------------------------------------------------------------------
(* The end of an initialisation.  The context is kept first; its callers   *)
(* get it only if no teardown and no drain has begun meanwhile.            *)
PublishUnfenced(g) ==
  /\ starting[g] > 0
  /\ starting' = [starting EXCEPT ![g] = @ - 1]
  /\ context' = [context EXCEPT ![g] = "live"]
  /\ calls' = Move(Waiting(g, "init"), IF accepting THEN "has" ELSE "idle")
  /\ UNCHANGED <<joined, due, accepting, timer, removing, access, drain,
                 leaves, faults>>

Publish(g) ==
  /\ starting[g] > 0
  /\ starting' = [starting EXCEPT ![g] = @ - 1]
  /\ context' = [context EXCEPT ![g] = "live"]
  /\ calls' = Move(Waiting(g, "init"),
                   IF accepting /\ removing[g] = "none" THEN "has" ELSE "idle")
  /\ UNCHANGED <<joined, due, accepting, timer, removing, access, drain,
                 leaves, faults>>

(* The initialisation throws, or outlives INIT_TIMEOUT_MS: its callers get *)
(* the error, and what it started or goes on to start nobody tracks.       *)
InitTimerFires(g) ==
  /\ faults < MaxFaults
  /\ faults' = faults + 1
  /\ starting' = [starting EXCEPT ![g] = @ - 1]
  /\ calls' = Move(Waiting(g, "init"), "idle")
  /\ UNCHANGED <<joined, due, accepting, timer, context, removing, access,
                 drain, leaves>>

InitFails(g) ==
  /\ starting[g] > 0
  /\ faults < MaxFaults
  /\ faults' = faults + 1
  /\ starting' = [starting EXCEPT ![g] = @ - 1]
  /\ calls' = Move(Waiting(g, "init"), "idle")
  /\ UNCHANGED <<joined, due, accepting, timer, context, removing, access,
                 drain, leaves>>

----------------------------------------------------------------------------
(* remove, for the guilds in G: a teardown under way is shared, a guild    *)
(* being initialised is torn down once that ends, and a guild without      *)
(* either has nothing to tear down.                                        *)
Remove(G) ==
  /\ removing' = [g \in Guilds |->
       IF g \notin G \/ removing[g] # "none" THEN removing[g]
       ELSE IF starting[g] > 0 THEN "init"
       ELSE IF context[g] # "none" THEN "stopping"
       ELSE "none"]
  /\ context' = [g \in Guilds |->
       IF removing[g] = "none" /\ removing'[g] = "stopping" THEN "stopping"
       ELSE context[g]]
  /\ access' = [g \in Guilds |->
       IF g \in G /\ removing'[g] = "none" THEN "absent" ELSE access[g]]

(* The initialisation a teardown waited for has ended.                     *)
StopInitialised(g) ==
  /\ removing[g] = "init"
  /\ starting[g] = 0
  /\ context[g] # "none"
  /\ removing' = [removing EXCEPT ![g] = "stopping"]
  /\ context' = [context EXCEPT ![g] = "stopping"]
  /\ UNCHANGED <<joined, due, accepting, timer, starting, access, drain, calls,
                 leaves, faults>>

(* A teardown ends, and the calls that waited for it go on.                *)
ResumeUnchecked(g) ==
  IF Waiting(g, "removal") # {}
  THEN /\ calls' = Move(Waiting(g, "removal"),
                        IF g \in joined THEN "init" ELSE "idle")
       /\ starting' = [starting EXCEPT ![g] =
                         @ + (IF g \in joined THEN 1 ELSE 0)]
       /\ access' = [access EXCEPT ![g] = "fresh"]
  ELSE /\ calls' = Move(Waiting(g, "removal"), "idle")
       /\ access' = [access EXCEPT ![g] = "absent"]
       /\ UNCHANGED starting

Resume(g) ==
  IF Waiting(g, "removal") # {} /\ accepting
  THEN /\ calls' = Move(Waiting(g, "removal"),
                        IF g \in joined THEN "init" ELSE "idle")
       /\ starting' = [starting EXCEPT ![g] =
                         @ + (IF g \in joined THEN 1 ELSE 0)]
       /\ access' = [access EXCEPT ![g] = "fresh"]
  ELSE /\ calls' = Move(Waiting(g, "removal"), "idle")
       /\ access' = [access EXCEPT ![g] = "absent"]
       /\ UNCHANGED starting

RemoveEnds(g) ==
  /\ \/ removing[g] = "stopping"
     \/ removing[g] = "init" /\ starting[g] = 0 /\ context[g] = "none"
  /\ removing' = [removing EXCEPT ![g] = "none"]
  /\ context' = [context EXCEPT ![g] = "none"]
  /\ Resume(g)
  /\ UNCHANGED <<joined, due, accepting, timer, drain, leaves, faults>>

(* destroyGuildServices throws: the context stays for another attempt, and *)
(* the calls that waited get the error.                                    *)
RemoveFails(g) ==
  /\ removing[g] = "stopping"
  /\ faults < MaxFaults
  /\ faults' = faults + 1
  /\ removing' = [removing EXCEPT ![g] = "none"]
  /\ context' = [context EXCEPT ![g] = "half"]
  /\ calls' = Move(Waiting(g, "removal"), "idle")
  /\ drain' = [drain EXCEPT !.failed = @ \/ g \in drain.of]
  /\ UNCHANGED <<joined, due, accepting, timer, starting, access, leaves>>

----------------------------------------------------------------------------
(* guildCreate and guildDelete.                                            *)
Join(g) ==
  /\ g \notin joined
  /\ joined' = joined \cup {g}
  /\ due' = due \cup {g}
  /\ UNCHANGED <<accepting, timer, context, starting, removing, access, drain,
                 calls, leaves, faults>>

Leave(g) ==
  /\ g \in joined
  /\ leaves < MaxLeaves
  /\ leaves' = leaves + 1
  /\ joined' = joined \ {g}
  /\ Remove({g})
  /\ UNCHANGED <<due, accepting, timer, starting, drain, calls, faults>>

(* IDLE_TIMEOUT_MS passes without a call of getContext for the guild.      *)
FallIdle(g) ==
  /\ access[g] = "fresh"
  /\ access' = [access EXCEPT ![g] = "stale"]
  /\ UNCHANGED <<joined, due, accepting, timer, context, starting, removing,
                 drain, calls, leaves, faults>>

(* The contexts evictIdle tears down.                                      *)
EvictableLive ==
  {g \in Guilds \ {Primary} : access[g] = "stale" /\ context[g] = "live"}

Evictable ==
  {g \in Guilds \ {Primary} : access[g] = "stale" /\ context[g] # "none"}

EvictIdle ==
  /\ timer
  /\ \E g \in Evictable : removing[g] = "none"
  /\ Remove(Evictable)
  /\ UNCHANGED <<joined, due, accepting, timer, starting, drain, calls, leaves,
                 faults>>

----------------------------------------------------------------------------
(* destroyAll.                                                             *)
DestroyAll ==
  /\ drain.at = "none"
  /\ drain' = [at |-> "init", of |-> {}, failed |-> FALSE]
  /\ accepting' = FALSE
  /\ timer' = FALSE
  /\ UNCHANGED <<joined, due, context, starting, removing, access, calls,
                 leaves, faults>>

(* Every initialisation in flight has settled: every context kept is       *)
(* removed.                                                                *)
DrainTakes ==
  /\ drain.at = "init"
  /\ \A g \in Guilds : starting[g] = 0
  /\ drain' = [drain EXCEPT !.at = "stop",
                            !.of = {g \in Guilds : context[g] # "none"}]
  /\ Remove({g \in Guilds : context[g] # "none"})
  /\ UNCHANGED <<joined, due, accepting, timer, starting, calls, leaves,
                 faults>>

(* A drain that failed re-opens the router, for another attempt.           *)
DrainEnds ==
  /\ drain.at = "stop"
  /\ \A g \in drain.of : removing[g] = "none"
  /\ drain' = IF drain.failed THEN NoDrain ELSE [NoDrain EXCEPT !.at = "done"]
  /\ accepting' = drain.failed
  /\ UNCHANGED <<joined, due, timer, context, starting, removing, access,
                 calls, leaves, faults>>

----------------------------------------------------------------------------
Next ==
  \/ \E c \in Callers, g \in Guilds : GetContext(c, g)
  \/ \E c \in Callers : Finish(c)
  \/ \E g \in Guilds :
       \/ Publish(g) \/ InitFails(g)
       \/ StopInitialised(g) \/ RemoveEnds(g) \/ RemoveFails(g)
       \/ Join(g) \/ Leave(g) \/ FallIdle(g)
  \/ EvictIdle
  \/ DestroyAll \/ DrainTakes \/ DrainEnds

Spec == Init /\ [][Next]_vars

(* Promises settle and intervals fire: no step that was started is left    *)
(* unfinished, the boot loop and guildCreate make their calls, time        *)
(* passes, and the eviction interval runs while it is set.                 *)
Fairness ==
  /\ \A c \in Callers : WF_vars(Finish(c))
  /\ \A g \in Guilds :
       /\ WF_vars(Publish(g)) /\ WF_vars(FallIdle(g))
       /\ WF_vars(StopInitialised(g)) /\ WF_vars(RemoveEnds(g))
       /\ WF_vars(\E c \in Callers : GetContext(c, g))
  /\ WF_vars(EvictIdle)
  /\ WF_vars(DrainTakes) /\ WF_vars(DrainEnds)

FairSpec == Spec /\ Fairness

----------------------------------------------------------------------------
(* Every variable holds a value of its type.                               *)
TypeOK ==
  /\ joined \subseteq Guilds
  /\ due \subseteq Guilds
  /\ accepting \in BOOLEAN
  /\ timer \in BOOLEAN
  /\ context \in [Guilds -> ContextStates]
  /\ starting \in [Guilds -> Nat]
  /\ removing \in [Guilds -> {"none", "init", "stopping"}]
  /\ access \in [Guilds -> {"absent", "fresh", "stale"}]
  /\ drain \in [at : {"none", "init", "stop", "done"}, of : SUBSET Guilds,
                failed : BOOLEAN]
  /\ calls \in [Callers -> [at : CallStates, guild : Guilds]]
  /\ leaves \in 0..MaxLeaves
  /\ faults \in 0..MaxFaults

(* However calls, teardowns and the drain interleave, the router never has *)
(* two sets of services of one guild in hand: no second initialisation     *)
(* starts while the first runs or while its context still has services to  *)
(* stop.                                                                   *)
OneContextPerGuild ==
  \A g \in Guilds : starting[g] + (IF context[g] = "none" THEN 0 ELSE 1) <= 1

(* A destroyAll that succeeded left nothing behind: no context, no         *)
(* initialisation that will publish one, no teardown still stopping one.   *)
DrainLeavesNothing ==
  drain.at = "done" =>
    \A g \in Guilds :
      context[g] = "none" /\ starting[g] = 0 /\ removing[g] # "stopping"

(* A call is never handed the context of a guild whose teardown has begun, *)
(* nor one of a router that drains.                                        *)
HandedOutIsKept ==
  [][\A c \in Callers :
       calls[c].at # "has" /\ calls'[c].at = "has" =>
         /\ accepting'
         /\ removing'[calls'[c].guild] = "none"
         /\ context'[calls'[c].guild] \in {"live", "half"}]_vars

(* While the router evicts, the services of a guild the bot has left do    *)
(* not run on for ever: a teardown that failed is tried again.  (The       *)
(* primary guild is never evicted.)                                        *)
LeftGuildIsTornDown ==
  \A g \in Guilds \ {Primary} :
    g \notin joined /\ context[g] # "none"
      ~> context[g] = "none" \/ g \in joined \/ ~timer
=============================================================================
