--------------------------- MODULE DeployContract ---------------------------
(***************************************************************************)
(* What the operator of a guild may rely on for a deployment, however many *)
(* processes try to carry it out: one request is open at a time, it starts *)
(* at most once, one deployment at a time writes to Discord and only while *)
(* its request is open, no verdict comes while it writes, success only to  *)
(* a deployment that was carried out, and what is told is the verdict.     *)
(***************************************************************************)
EXTENDS Naturals

CONSTANT Requests

VARIABLES
  verdict,  (* "none" until the request is made, "open" until it is final  *)
  started,  (* how often the request was started                           *)
  writing,  (* the requests whose deployment is writing to Discord         *)
  told      (* the verdicts announced of each request                      *)

vars == <<verdict, started, writing, told>>

Init ==
  /\ verdict = [r \in Requests |-> "none"]
  /\ started = [r \in Requests |-> 0]
  /\ writing = {}
  /\ told = [r \in Requests |-> {}]

Ask(r) ==
  /\ verdict[r] = "none"
  /\ \A s \in Requests : verdict[s] # "open"
  /\ verdict' = [verdict EXCEPT ![r] = "open"]
  /\ UNCHANGED <<started, writing, told>>

(* A start may come too late: then it writes nothing.                      *)
Start(r) ==
  /\ verdict[r] # "none"
  /\ started[r] = 0
  /\ started' = [started EXCEPT ![r] = 1]
  /\ UNCHANGED <<verdict, writing, told>>

BeginWrite(r) ==
  /\ verdict[r] = "open"
  /\ started[r] = 1
  /\ writing = {}
  /\ writing' = {r}
  /\ UNCHANGED <<verdict, started, told>>

EndWrite ==
  /\ writing' = {}
  /\ UNCHANGED <<verdict, started, told>>

Decide(r, v) ==
  /\ verdict[r] = "open"
  /\ writing = {}
  /\ v = "success" => started[r] = 1
  /\ verdict' = [verdict EXCEPT ![r] = v]
  /\ UNCHANGED <<started, writing, told>>

Tell(r) ==
  /\ verdict[r] \in {"success", "failed"}
  /\ told' = [told EXCEPT ![r] = {verdict[r]}]
  /\ UNCHANGED <<verdict, started, writing>>

Next ==
  \/ \E r \in Requests :
       \/ Ask(r) \/ Start(r) \/ BeginWrite(r) \/ Tell(r)
       \/ \E v \in {"success", "failed"} : Decide(r, v)
  \/ EndWrite

Spec == Init /\ [][Next]_vars
=============================================================================
