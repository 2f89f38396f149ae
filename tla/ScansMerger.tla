----------------------------- MODULE ScansMerger -----------------------------
(***************************************************************************)
(* ScansMerger: the two lidar callbacks and publishMessages of the         *)
(* laser_scan_merger node, which joins the front and the rear scan into    *)
(* the one scan that amcl and both costmaps use.                           *)
(*                                                                         *)
(* One thread spins the node, so a callback with the publishMessages it    *)
(* calls is one step.  A scan is its stamp: each lidar sends rising        *)
(* stamps, and either lidar may be late or fall silent.  Whether a         *)
(* transform can be looked up is up to tf2, which is external.             *)
(***************************************************************************)
EXTENDS Integers, FiniteSets, FiniteSetsExt

CONSTANT MaxStamp  \* bound on the stamps

ASSUME MergerAssumption == MaxStamp \in Nat

Lidars == {"front", "rear"}
Other(l) == IF l = "front" THEN "rear" ELSE "front"
Stamps == 0 .. MaxStamp  \* 0: no scan yet

VARIABLES
  received,  \* front_scan_received_, rear_scan_received_
  error,     \* front_scan_error_, rear_scan_error_
  scan,      \* stamps of front_pcl_ and rear_pcl_
  output,    \* the message published last: its stamp, and the scans in it
  shown,     \* history: last scan of each lidar that was published
  skipped,   \* history: callbacks since one last called publishMessages
  failed,    \* history: a transform failed since the last message
  behind,    \* history: scans of the other lidar since the last scan of this one
  stopped    \* updateParams threw and rclcpp::spin ended

vars == <<received, error, scan, output, shown, skipped, failed, behind, stopped>>

MergerTypeOK ==
  /\ received \in [Lidars -> BOOLEAN]
  /\ error \in [Lidars -> BOOLEAN]
  /\ scan \in [Lidars -> Stamps]
  /\ output \in [stamp : Stamps, scans : [Lidars -> Stamps]]
  /\ shown \in [Lidars -> Stamps]
  /\ skipped \in Nat
  /\ failed \in BOOLEAN
  /\ behind \in [Lidars -> Nat]
  /\ stopped \in BOOLEAN

MergerInit ==
  /\ received = [l \in Lidars |-> FALSE]
  /\ error = [l \in Lidars |-> FALSE]
  /\ scan = [l \in Lidars |-> 0]
  /\ output = [stamp |-> 0, scans |-> [l \in Lidars |-> 0]]
  /\ shown = [l \in Lidars |-> 0]
  /\ skipped = 0
  /\ failed = FALSE
  /\ behind = [l \in Lidars |-> 0]
  /\ stopped = FALSE

-----------------------------------------------------------------------------
\* [Mutant] merging waits for both lidars, as if no error flag existed.
MustPublish_both(l) == received[Other(l)]

\* A callback publishes if the other lidar has sent a scan too, or has missed its turn.
MustPublish(l) == received[Other(l)] \/ error[Other(l)]

\* [Mutant] both scans, whatever the error flags say.
merged_always(l) == Lidars

\* The lidars whose scans the callback of l merges: its own error flag has just been cleared.
merged(l) == {m \in Lidars : m = l \/ ~error[m]}

\* The newest stamp of the scans that are merged.
output_stamp(used, scans) ==
  CHOOSE t \in {scans[l] : l \in used} : \A l \in used : scans[l] <= t

\* [Mutant] a merged message leaves the received flags up.
publish_keeps_flags(l, used, scans) ==
  /\ output' = [stamp |-> output_stamp(used, scans),
                 scans |-> [m \in Lidars |-> IF m \in used THEN scans[m] ELSE 0]]
  /\ shown' = [m \in Lidars |-> IF m \in used THEN scans[m] ELSE shown[m]]
  /\ received' = [received EXCEPT ![l] = TRUE]
  /\ failed' = FALSE

\* publishMessages to its end: the lidars that are not in error, and all flags down.
publish(l, used, scans) ==
  /\ output' = [stamp |-> output_stamp(used, scans),
                 scans |-> [m \in Lidars |-> IF m \in used THEN scans[m] ELSE 0]]
  /\ shown' = [m \in Lidars |-> IF m \in used THEN scans[m] ELSE shown[m]]
  /\ received' = [m \in Lidars |-> FALSE]
  /\ failed' = FALSE

\* A transform lookup fails: publishMessages returns and the received flags stay up.
transform_fails(l) ==
  /\ received' = [received EXCEPT ![l] = TRUE]
  /\ failed' = TRUE
  /\ UNCHANGED <<output, shown>>

\* [Mutant] a scan that is not merged leaves the other lidar's error flag alone.
wait_for_other_silently(l) ==
  /\ received' = [received EXCEPT ![l] = TRUE]
  /\ error' = [error EXCEPT ![l] = FALSE]
  /\ UNCHANGED <<output, shown, failed>>

\* [Mutant] a scan that is not merged leaves its own error flag up.
wait_for_other_in_error(l) ==
  /\ received' = [received EXCEPT ![l] = TRUE]
  /\ error' = [error EXCEPT ![Other(l)] = TRUE]
  /\ UNCHANGED <<output, shown, failed>>

\* No publication yet: the other lidar is in error until it sends a scan.
wait_for_other(l) ==
  /\ received' = [received EXCEPT ![l] = TRUE]
  /\ error' = [error EXCEPT ![l] = FALSE, ![Other(l)] = TRUE]
  /\ UNCHANGED <<output, shown, failed>>

\* frontScanCallback and rearScanCallback.
scanCallback(l, stamp) ==
  /\ ~stopped
  /\ stamp > scan[l]
  /\ scan' = [scan EXCEPT ![l] = stamp]
  /\ behind' = [behind EXCEPT ![l] = 0, ![Other(l)] = @ + 1]
  /\ \/ /\ MustPublish(l)
        /\ error' = [error EXCEPT ![l] = FALSE]
        /\ skipped' = 0
        /\ \/ publish(l, merged(l), [scan EXCEPT ![l] = stamp])
           \/ transform_fails(l)
     \/ /\ ~MustPublish(l)
        /\ wait_for_other(l)
        /\ skipped' = skipped + 1
  /\ UNCHANGED stopped

\* The params service declares every parameter again, which throws.
updateParams ==
  /\ ~stopped
  /\ stopped' = TRUE
  /\ UNCHANGED <<received, error, scan, output, shown, skipped, failed, behind>>

MergerNext ==
  \/ \E l \in Lidars, stamp \in Stamps : scanCallback(l, stamp)
  \/ updateParams

MergerSpec == MergerInit /\ [][MergerNext]_vars

-----------------------------------------------------------------------------
(* Properties. *)

\* Whatever publishMessages shows of a lidar is newer than all it has shown of it: no scan
\* is merged twice, whatever lidar falls silent and whatever transform fails in between.
NothingShownTwice ==
  [][output' # output =>
       \A l \in Lidars : output'.scans[l] # 0 => output'.scans[l] > shown[l]]_vars

\* At most one callback in a row ends without trying to publish: a silent lidar costs the
\* other one a single scan.
SilenceCostsOneScan == skipped <= 1

\* publishMessages never finds both lidars in error: the branch that stamps an empty cloud
\* with the current time, and divides by its point step, is dead.
OneLidarIsSound == ~(error["front"] /\ error["rear"])

\* Unless a transform failed since the last message, the other lidar has not spoken since a
\* scan that waits for it came in: scans that are merged are neighbours in time.
MergedScansAreNeighbours ==
  \A l \in Lidars : received[l] /\ ~failed => behind[l] = 0
=============================================================================
