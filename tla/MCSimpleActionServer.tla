----------------------- MODULE MCSimpleActionServer -----------------------
(* Small instances of SimpleActionServer: three goals are enough for a current goal,
   a pending one and a third that replaces it or meets the worker's end. *)
EXTENDS SimpleActionServer

CONSTANTS g1, g2, g3

ThreeGoals == {g1, g2, g3}
=============================================================================
