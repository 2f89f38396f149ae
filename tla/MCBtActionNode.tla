--------------------------- MODULE MCBtActionNode ---------------------------
(* Three goals: one that is replaced, its replacement, and one sent after either was given up. *)
EXTENDS BtActionNode

CONSTANTS MaxGoals

GoalIds == 1 .. MaxGoals
=============================================================================
