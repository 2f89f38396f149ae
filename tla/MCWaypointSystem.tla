-------------------------- MODULE MCWaypointSystem --------------------------
(* Two scenes: a route of two poses that may shrink to one, and one whose file may be missing,
   empty or hold a single pose; or a route of two poses alone. *)
EXTENDS WaypointSystem, TLC

CONSTANTS ONE_GO, TWO_GO

OneScene == {ONE_GO}
OneFile == ONE_GO :> {2}
TwoScenes == {ONE_GO, TWO_GO}
TwoFiles == ONE_GO :> {1, 2} @@ TWO_GO :> {NoFile, 0, 1}
=============================================================================
