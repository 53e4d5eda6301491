-------------------------- MODULE ReceiptContract --------------------------
(***************************************************************************)
(* What a customer and an operator may rely on for a receipt row: its DM   *)
(* arrives at most once, the row is completed only after it arrived, and   *)
(* a verdict stands.  A held receipt may still arrive, or have arrived:    *)
(* an attempt in flight when the row is held cannot be called back.        *)
(* Several rows may move in one step, as one recovery settles several.     *)
(***************************************************************************)
EXTENDS Naturals

CONSTANT Receipts

VARIABLES
  verdict,  (* "open" until the row is final                               *)
  arrived   (* receipt DMs delivered for each row                          *)

Verdicts == {"open", "completed", "held"}

Init ==
  /\ verdict = [r \in Receipts |-> "open"]
  /\ arrived = [r \in Receipts |-> 0]

Deliver(r) ==
  /\ verdict[r] # "completed"
  /\ arrived[r] = 0
  /\ arrived'[r] = 1
  /\ verdict'[r] = verdict[r]

Complete(r) ==
  /\ verdict[r] = "open"
  /\ arrived[r] = 1
  /\ verdict'[r] = "completed"
  /\ arrived'[r] = arrived[r]

Hold(r) ==
  /\ verdict[r] = "open"
  /\ verdict'[r] = "held"
  /\ arrived'[r] = arrived[r]

Rest(r) == verdict'[r] = verdict[r] /\ arrived'[r] = arrived[r]

Next ==
  /\ verdict' \in [Receipts -> Verdicts]
  /\ arrived' \in [Receipts -> 0..1]
  /\ \A r \in Receipts : Deliver(r) \/ Complete(r) \/ Hold(r) \/ Rest(r)

Spec == Init /\ [][Next]_<<verdict, arrived>>
=============================================================================
