--------------------------- MODULE MCActionQueue ---------------------------
(* Small instances of ActionQueue for TLC.                                 *)
EXTENDS ActionQueue, TLC

InterchangeableIds == Permutations(Receipts) \cup Permutations(Workers)
=============================================================================
