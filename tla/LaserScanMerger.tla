--------------------------- MODULE LaserScanMerger ---------------------------
(***************************************************************************)
(* The laser_scan_merger node as a whole: a callback that publishes runs   *)
(* appendFilteredPoints over the clouds of the lidars it merges, and no    *)
(* other callback runs before it is done.  Beams and points are local to   *)
(* publishMessages, so every message starts from empty ones; a message     *)
(* given up because a transform failed takes its beams with it.            *)
(***************************************************************************)
EXTENDS ScansMerger, ScanSectors

nodeVars == <<vars, sectorVars>>

NodeInit == MergerInit /\ SectorInit /\ left = {}

\* The clouds of a message that will be published, and its empty beams.
FreshScan ==
  /\ left' \in SUBSET Points
  /\ seen' = {} /\ merged_points' = {}
  /\ ranges' = [k \in Beams |-> EmptyBeam]

Callback ==
  /\ left = {}
  /\ MergerNext
  /\ IF output' # output THEN FreshScan ELSE UNCHANGED sectorVars

FillScan == SectorNext /\ UNCHANGED vars

NodeSpec == NodeInit /\ [][Callback \/ FillScan]_nodeVars
=============================================================================
