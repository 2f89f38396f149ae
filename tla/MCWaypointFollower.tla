------------------------- MODULE MCWaypointFollower -------------------------
(* Two goals, so that one can preempt, cancel or follow the other. *)
EXTENDS WaypointFollower, TLC

CONSTANTS g1, g2

TwoGoals == {g1, g2}
TwoPoses == g1 :> 2 @@ g2 :> 2
OneEmpty == g1 :> 1 @@ g2 :> 0
Routes == {TwoPoses, OneEmpty}
=============================================================================
