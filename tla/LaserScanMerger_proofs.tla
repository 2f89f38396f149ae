----------------------- MODULE LaserScanMerger_proofs -----------------------
(***************************************************************************)
(* Proofs about the laser_scan_merger node: its flags, for any number of   *)
(* scans, and the scan it fills, for any clouds, any number of beams and   *)
(* any rounding to float that is monotone and keeps floats.                *)
(*                                                                         *)
(* The flags' invariant ties the four of them together: a lidar that has a *)
(* scan waiting is not in error, its scan is unpublished, and the other    *)
(* lidar is in error or has a scan waiting too.                            *)
(***************************************************************************)
EXTENDS LaserScanMerger, TLAPS

\* A scan that waits is unpublished and its lidar is not in error.
WaitingScan ==
  \A l \in Lidars : received[l] => ~error[l] /\ scan[l] > shown[l]

\* After a callback that did not publish, the lidar it belongs to has a scan waiting and
\* the other one is in error: whichever speaks next will publish.
SkipIsFlagged ==
  skipped # 0 => /\ skipped = 1
                 /\ \E l \in Lidars : received[l] /\ error[Other(l)]

\* Without a failed transform at most one lidar waits, and it was the last to speak.
WaitingIsLast ==
  ~failed => \A l \in Lidars : received[l] => behind[l] = 0 /\ error[Other(l)]

\* Nothing newer than the last scan was ever shown.
ShownIsPast == \A l \in Lidars : shown[l] <= scan[l]

MergerInv ==
  /\ MergerTypeOK
  /\ OneLidarIsSound
  /\ WaitingScan
  /\ SkipIsFlagged
  /\ WaitingIsLast
  /\ ShownIsPast

\* The newest stamp exists and is one of the stamps merged.
LEMMA NewestStamp ==
  ASSUME NEW used \in SUBSET Lidars, used # {}, NEW scans \in [Lidars -> Stamps]
  PROVE  output_stamp(used, scans) \in Stamps
<1>1. \E t \in {scans[l] : l \in used} : \A l \in used : scans[l] <= t
  <2>1. \A l \in Lidars : scans[l] \in Int
    BY MergerAssumption DEF Stamps
  <2>2. PICK m \in used : \A l \in used : scans[l] <= scans[m]
    <3>1. CASE used = {"front"} \/ used = {"rear"}
      BY <2>1, <3>1 DEF Lidars
    <3>2. CASE used = {"front", "rear"}
      BY <2>1, <3>2 DEF Lidars
    <3>3. QED
      BY <3>1, <3>2 DEF Lidars
  <2>3. QED
    BY <2>2
<1>2. QED
  BY <1>1 DEF output_stamp, Stamps, Lidars

LEMMA OtherLidar ==
  \A l \in Lidars : Other(l) \in Lidars /\ Other(l) # l /\ Lidars = {l, Other(l)}
BY DEF Lidars, Other

\* Every step keeps the types of the merger's variables.
LEMMA CallbackTypes ==
  ASSUME MergerTypeOK, NEW l \in Lidars, NEW stamp \in Stamps, scanCallback(l, stamp)
  PROVE  MergerTypeOK'
<1> USE OtherLidar
<1>1. scan' \in [Lidars -> Stamps] /\ behind' \in [Lidars -> Nat] /\ stopped' \in BOOLEAN
  BY DEF MergerTypeOK, scanCallback
<1>2. CASE MustPublish(l) /\ publish(l, merged(l), [scan EXCEPT ![l] = stamp])
           /\ error' = [error EXCEPT ![l] = FALSE] /\ skipped' = 0
  <2>1. merged(l) \in SUBSET Lidars /\ merged(l) # {}
    BY DEF merged
  <2>2. [scan EXCEPT ![l] = stamp] \in [Lidars -> Stamps]
    BY DEF MergerTypeOK
  <2>3. output_stamp(merged(l), [scan EXCEPT ![l] = stamp]) \in Stamps
    BY <2>1, <2>2, NewestStamp
  <2>4. 0 \in Stamps
    BY MergerAssumption DEF Stamps
  <2>5. output' \in [stamp : Stamps, scans : [Lidars -> Stamps]]
    BY <1>2, <2>2, <2>3, <2>4 DEF publish
  <2>6. shown' \in [Lidars -> Stamps] /\ received' \in [Lidars -> BOOLEAN] /\ failed' \in BOOLEAN
    BY <1>2, <2>2 DEF publish, MergerTypeOK
  <2>7. error' \in [Lidars -> BOOLEAN] /\ skipped' \in Nat
    BY <1>2 DEF MergerTypeOK
  <2>8. QED
    BY <1>1, <2>5, <2>6, <2>7 DEF MergerTypeOK
<1>3. CASE transform_fails(l) /\ error' = [error EXCEPT ![l] = FALSE] /\ skipped' = 0
  BY <1>1, <1>3 DEF transform_fails, MergerTypeOK
<1>4. CASE wait_for_other(l) /\ skipped' = skipped + 1
  <2>1. error' \in [Lidars -> BOOLEAN] /\ received' \in [Lidars -> BOOLEAN]
    BY <1>4, Zenon DEF wait_for_other, MergerTypeOK
  <2>2. skipped' \in Nat
    BY <1>4 DEF MergerTypeOK
  <2>3. QED
    BY <1>1, <1>4, <2>1, <2>2 DEF wait_for_other, MergerTypeOK
<1>5. QED
  BY <1>2, <1>3, <1>4 DEF scanCallback

\* A callback keeps the flags consistent, in each of its three endings.
LEMMA CallbackKeepsInv ==
  ASSUME MergerInv, NEW l \in Lidars, NEW stamp \in Stamps, scanCallback(l, stamp)
  PROVE  MergerInv'
<1> DEFINE o == Other(l)
<1>0. /\ MergerTypeOK /\ MergerTypeOK'
      /\ o \in Lidars /\ o # l /\ Other(o) = l
      /\ \A m \in Lidars : m = l \/ m = o
      /\ stamp \in Int /\ stamp > scan[l]
      /\ scan' = [scan EXCEPT ![l] = stamp]
      /\ behind'[l] = 0
  <2>1. MergerTypeOK /\ MergerTypeOK'
    BY CallbackTypes DEF MergerInv
  <2>2. /\ o \in Lidars /\ o # l /\ Other(o) = l
        /\ \A m \in Lidars : m = l \/ m = o
    BY DEF Other, Lidars
  <2>3. stamp \in Int /\ stamp > scan[l] /\ scan' = [scan EXCEPT ![l] = stamp]
    BY MergerAssumption DEF scanCallback, Stamps
  <2>4. behind'[l] = 0
    BY <2>1, <2>2 DEF scanCallback, MergerTypeOK
  <2>5. QED
    BY <2>1, <2>2, <2>3, <2>4
<1>1. CASE /\ MustPublish(l) /\ error' = [error EXCEPT ![l] = FALSE] /\ skipped' = 0
           /\ publish(l, merged(l), [scan EXCEPT ![l] = stamp])
  <2>1. \A m \in Lidars : ~received'[m]
    BY <1>1 DEF publish
  <2>2. ShownIsPast'
    BY <1>0, <1>1 DEF publish, ShownIsPast, MergerInv, MergerTypeOK, Stamps
  <2>3. OneLidarIsSound'
    BY <1>0, <1>1 DEF OneLidarIsSound, MergerInv, MergerTypeOK, Lidars
  <2>4. QED
    BY <1>0, <1>1, <2>1, <2>2, <2>3 DEF MergerInv, WaitingScan, SkipIsFlagged, WaitingIsLast
<1>2. CASE /\ MustPublish(l) /\ error' = [error EXCEPT ![l] = FALSE] /\ skipped' = 0
           /\ transform_fails(l)
  <2>1. WaitingScan'
    BY <1>0, <1>2 DEF transform_fails, WaitingScan, ShownIsPast, MergerInv, MergerTypeOK, Stamps
  <2>2. ShownIsPast'
    BY <1>0, <1>2 DEF transform_fails, ShownIsPast, MergerInv, MergerTypeOK, Stamps
  <2>3. OneLidarIsSound'
    BY <1>0, <1>2 DEF OneLidarIsSound, MergerInv, MergerTypeOK, Lidars
  <2>4. QED
    BY <1>0, <1>2, <2>1, <2>2, <2>3 DEF MergerInv, SkipIsFlagged, WaitingIsLast, transform_fails
<1>3. CASE ~MustPublish(l) /\ wait_for_other(l) /\ skipped' = skipped + 1
  <2>1. ~received[o] /\ ~error[o]
    BY <1>3 DEF MustPublish
  <2>2. /\ \A m \in Lidars : received'[m] <=> m = l \/ received[m]
        /\ ~error'[l] /\ error'[o] /\ received'[l] /\ ~received'[o]
    BY <1>0, <1>3, <2>1 DEF wait_for_other, MergerTypeOK
  <2>3. skipped = 0
    BY <1>0, <2>1 DEF MergerInv, SkipIsFlagged, WaitingScan, OneLidarIsSound
  <2>4. WaitingScan' /\ ShownIsPast'
    BY <1>0, <1>3, <2>2 DEF wait_for_other, WaitingScan, ShownIsPast, MergerInv, MergerTypeOK, Stamps
  <2>5. OneLidarIsSound' /\ WaitingIsLast'
    BY <1>0, <2>2 DEF OneLidarIsSound, WaitingIsLast, Lidars
  <2>6. SkipIsFlagged'
    BY <1>0, <1>3, <2>2, <2>3 DEF SkipIsFlagged
  <2>7. QED
    BY <1>0, <2>4, <2>5, <2>6 DEF MergerInv
<1>4. QED
  BY <1>1, <1>2, <1>3 DEF scanCallback

\* The invariant holds in every state of the merger.
THEOREM MergerInductive == MergerSpec => []MergerInv
<1>1. MergerInit => MergerInv
  <2> SUFFICES ASSUME MergerInit PROVE MergerInv
    OBVIOUS
  <2>1. 0 \in Stamps
    BY MergerAssumption DEF Stamps
  <2>2. MergerTypeOK
    BY <2>1 DEF MergerInit, MergerTypeOK
  <2>3. \A l \in Lidars : ~received[l] /\ ~error[l] /\ shown[l] = scan[l] /\ scan[l] = 0
    BY DEF MergerInit
  <2>4. OneLidarIsSound
    BY <2>3 DEF OneLidarIsSound, Lidars
  <2>5. ShownIsPast
    BY <2>3 DEF ShownIsPast
  <2>6. WaitingScan /\ SkipIsFlagged /\ WaitingIsLast
    BY <2>3 DEF MergerInit, WaitingScan, SkipIsFlagged, WaitingIsLast
  <2>7. QED
    BY <2>2, <2>4, <2>5, <2>6 DEF MergerInv
<1>2. MergerInv /\ [MergerNext]_vars => MergerInv'
  <2> SUFFICES ASSUME MergerInv, [MergerNext]_vars
               PROVE  MergerInv'
    OBVIOUS
  <2>1. CASE \E l \in Lidars, stamp \in Stamps : scanCallback(l, stamp)
    BY <2>1, CallbackKeepsInv
  <2>2. CASE updateParams
    BY <2>2 DEF updateParams, MergerInv, MergerTypeOK, OneLidarIsSound, WaitingScan,
                SkipIsFlagged, WaitingIsLast, ShownIsPast
  <2>3. CASE UNCHANGED vars
    BY <2>3 DEF vars, MergerInv, MergerTypeOK, OneLidarIsSound, WaitingScan,
                SkipIsFlagged, WaitingIsLast, ShownIsPast
  <2>4. QED
    BY <2>1, <2>2, <2>3 DEF MergerNext
<1>3. QED
  BY <1>1, <1>2, PTL DEF MergerSpec

-----------------------------------------------------------------------------
(* The flags of the node. *)

\* What the node does to its flags is what ScansMerger specifies: filling a scan leaves them
\* alone.
THEOREM NodeImplementsMerger == NodeSpec => MergerSpec
<1>1. NodeInit => MergerInit
  BY DEF NodeInit
<1>2. [Callback \/ FillScan]_nodeVars => [MergerNext]_vars
  BY DEF Callback, FillScan, nodeVars
<1>. QED  BY <1>1, <1>2, PTL DEF NodeSpec, MergerSpec

\* The merger's variables keep their types.
THEOREM MergerTypeCorrect == NodeSpec => []MergerTypeOK
<1>1. MergerInv => MergerTypeOK
  BY DEF MergerInv
<1>2. QED
  BY <1>1, MergerInductive, NodeImplementsMerger, PTL

\* A silent lidar costs the other one at most a single scan, for any number of scans.
THEOREM SilenceIsCheap == NodeSpec => []SilenceCostsOneScan
<1>1. MergerInv => SilenceCostsOneScan
  BY DEF MergerInv, MergerTypeOK, SkipIsFlagged, SilenceCostsOneScan
<1>2. QED
  BY <1>1, MergerInductive, NodeImplementsMerger, PTL

\* publishMessages never finds both lidars in error.
THEOREM NeverBothInError == NodeSpec => []OneLidarIsSound
<1>1. MergerInv => OneLidarIsSound
  BY DEF MergerInv
<1>2. QED
  BY <1>1, MergerInductive, NodeImplementsMerger, PTL

\* Unless a transform failed, the scan that waits was the last to come in.
THEOREM NeighboursAreMerged == NodeSpec => []MergedScansAreNeighbours
<1>1. MergerInv => MergedScansAreNeighbours
  BY DEF MergerInv, WaitingIsLast, MergedScansAreNeighbours
<1>2. QED
  BY <1>1, MergerInductive, NodeImplementsMerger, PTL

\* No scan is ever published twice.
THEOREM ScansAreShownOnce == NodeSpec => NothingShownTwice
<1> DEFINE Fresh == output' # output =>
             \A l \in Lidars : output'.scans[l] # 0 => output'.scans[l] > shown[l]
<1>1. MergerInv /\ [MergerNext]_vars => [Fresh]_vars
  <2> SUFFICES ASSUME MergerInv, MergerNext, output' # output,
                      NEW m \in Lidars, output'.scans[m] # 0
               PROVE  output'.scans[m] > shown[m]
    OBVIOUS
  <2>1. PICK l \in Lidars, stamp \in Stamps :
          /\ MustPublish(l) /\ scanCallback(l, stamp)
          /\ publish(l, merged(l), [scan EXCEPT ![l] = stamp])
    BY DEF MergerNext, scanCallback, updateParams, transform_fails, wait_for_other
  <2>2. /\ m \in merged(l)
        /\ output'.scans[m] = [scan EXCEPT ![l] = stamp][m]
    BY <2>1 DEF publish
  <2>3. CASE m = l
    BY <2>1, <2>2, <2>3 DEF scanCallback, MergerInv, MergerTypeOK, ShownIsPast, Stamps
  <2>4. CASE m # l
    <3>1. m = Other(l) /\ ~error[m]
      BY <2>2, <2>4, OtherLidar DEF merged
    <3>2. received[m]
      BY <2>1, <3>1 DEF MustPublish
    <3>3. QED
      BY <2>2, <2>4, <3>2 DEF MergerInv, MergerTypeOK, WaitingScan
  <2>5. QED
    BY <2>3, <2>4
<1>2. QED
  BY <1>1, MergerInductive, NodeImplementsMerger, PTL DEF MergerSpec, NothingShownTwice

-----------------------------------------------------------------------------
(* The scan it fills. *)

SectorInv == SectorTypeOK /\ merged_points \subseteq seen /\ BeamIsClosest

\* Integer division by a positive number.
LEMMA Division ==
  ASSUME NEW x \in Nat, NEW t \in Nat \ {0}
  PROVE  /\ x \div t \in Nat
         /\ (x \div t) * t <= x
         /\ x < (x \div t) * t + t
<1>1. x \div t \in Nat
  OBVIOUS
<1>2. x = t * (x \div t) + (x % t) /\ x % t \in 0 .. t - 1
  OBVIOUS
<1>3. QED
  BY <1>1, <1>2

\* A point's beam exists, and the point's angle lies in the beam's sector, ends included.
LEMMA IndexInSector ==
  ASSUME NEW p \in Points
  PROVE  /\ idx(p) \in Beams
         /\ idx(p) * Turn <= ranges_num * p.angle
         /\ ranges_num * p.angle <= idx(p) * Turn + Turn
<1> DEFINE x == ranges_num * p.angle
           i == x \div Turn
<1>1. Turn \in Nat \ {0} /\ ranges_num \in Nat \ {0, 1} /\ p.angle \in 0 .. Turn
  BY SectorAssumption
<1>2. x \in Nat /\ x <= ranges_num * Turn
  BY <1>1
<1>3. i \in Nat /\ i * Turn <= x /\ x < i * Turn + Turn
  BY <1>1, <1>2, Division
<1>4. idx(p) = IF i >= ranges_num THEN ranges_num - 1 ELSE i
  BY DEF idx
<1> HIDE DEF i, x
<1>5. CASE i >= ranges_num
  <2>1. i * Turn >= ranges_num * Turn
    BY <1>1, <1>3, <1>5
  <2>2. (ranges_num - 1) * Turn + Turn = ranges_num * Turn /\ (ranges_num - 1) * Turn <= ranges_num * Turn
    BY <1>1
  <2>3. x = ranges_num * Turn
    BY <1>1, <1>2, <1>3, <2>1
  <2>4. idx(p) = ranges_num - 1
    BY <1>4, <1>5
  <2>5. QED
    BY <1>1, <2>2, <2>3, <2>4 DEF x, Beams
<1>6. CASE ~(i >= ranges_num)
  <2>1. idx(p) = i /\ i \in Beams
    BY <1>1, <1>3, <1>4, <1>6 DEF Beams
  <2>2. QED
    BY <1>2, <1>3, <2>1, <1>1 DEF x
<1>7. QED
  BY <1>5, <1>6

\* Angles of beams 1 / (ranges_num - 1) of a turn apart fall into sectors of width
\* 1 / ranges_num of a turn.
LEMMA BeamInSector ==
  ASSUME NEW n \in Nat \ {0, 1}, NEW t \in Nat \ {0}, NEW k \in 0 .. n - 1, NEW a \in 0 .. t,
         k * t <= n * a, n * a <= k * t + t
  PROVE  /\ -(t * (n - 1)) <= (k * t) * n - a * (n - 1) * n
         /\ (k * t) * n - a * (n - 1) * n <= t * (n - 1)
<1>1. (n - 1) * (k * t) <= (n - 1) * (n * a)
  OBVIOUS
<1>2. (n - 1) * (n * a) <= (n - 1) * (k * t + t)
  OBVIOUS
<1>3. k * t <= (n - 1) * t
  OBVIOUS
<1>4. QED
  BY <1>1, <1>2, <1>3

\* Rounding, for ranges below infinity.
LEMMA Rounding ==
  ASSUME NEW r \in 0 .. Infinity - 1, NEW s \in 0 .. Infinity - 1
  PROVE  /\ Float[r] \in 0 .. Infinity - 1
         /\ r <= s => Float[r] <= Float[s]
         /\ s < Float[r] /\ r <= s => Float[s] = Float[r]
         /\ s >= Float[r] /\ s <= r => Float[s] = Float[r]
<1>1. Float[r] \in 0 .. Infinity - 1 /\ Float[s] \in 0 .. Infinity - 1
  BY FloatAssumption
<1>2. Float[Float[r]] = Float[r] /\ (r <= s => Float[r] <= Float[s])
  BY FloatAssumption
<1>3. s <= Float[r] => Float[s] <= Float[Float[r]]
  BY <1>1, FloatAssumption
<1>4. s >= Float[r] => Float[s] >= Float[Float[r]]
  BY <1>1, FloatAssumption
<1>5. s <= r => Float[s] <= Float[r]
  BY FloatAssumption
<1>6. QED
  BY <1>1, <1>2, <1>3, <1>4, <1>5, SectorAssumption

\* One round of the loop keeps every beam at its closest point.
LEMMA AppendKeepsClosest ==
  ASSUME SectorInv, NEW p \in left, append(p)
  PROVE  SectorInv'
<1>0. /\ p \in Points /\ seen \subseteq Points /\ seen' = seen \cup {p}
      /\ p.range \in 0 .. Infinity - 1
      /\ \A q \in Points : q.range \in 0 .. Infinity - 1
      /\ \A q \in Points : idx(q) \in Beams
      /\ Infinity \in Nat
      /\ ranges \in [Beams -> 0 .. Infinity]
  <2>1. p \in Points /\ seen \subseteq Points /\ ranges \in [Beams -> 0 .. Infinity]
    BY DEF SectorInv, SectorTypeOK
  <2>2. Infinity \in Nat /\ \A q \in Points : q.range \in 0 .. Infinity - 1
    BY SectorAssumption
  <2>3. QED
    BY <2>1, <2>2, IndexInSector DEF append
<1>1. SectorTypeOK' /\ (merged_points \subseteq seen)'
  <2>1. left' \subseteq Points /\ seen' \subseteq Points /\ merged_points' \subseteq seen'
    BY <1>0 DEF append, SectorInv, SectorTypeOK
  <2>2. Float[p.range] \in 0 .. Infinity
    BY <1>0, Rounding
  <2>3. ranges' \in [Beams -> 0 .. Infinity]
    BY <1>0, <2>2 DEF append
  <2>4. QED
    BY <2>1, <2>3 DEF SectorTypeOK
<1>2. ASSUME NEW k \in Beams
      PROVE  \/ InBeam(k)' = {} /\ ranges'[k] = Infinity
             \/ \E b \in InBeam(k)' : /\ \A q \in InBeam(k)' : b.range <= q.range
                                      /\ ranges'[k] = Float[b.range]
  <2>0. InBeam(k) \subseteq Points
    BY <1>0 DEF InBeam
  <2>1. CASE ~(pointPassesFilters(p) /\ idx(p) = k)
    <3>1. InBeam(k)' = InBeam(k)
      BY <1>0, <2>1 DEF InBeam
    <3>2. ranges'[k] = ranges[k]
      BY <1>0, <2>1 DEF append
    <3>3. QED
      BY <3>1, <3>2 DEF SectorInv, BeamIsClosest
  <2>2. CASE pointPassesFilters(p) /\ idx(p) = k
    <3>1. InBeam(k)' = InBeam(k) \cup {p}
      BY <1>0, <2>2 DEF InBeam
    <3>2. ranges'[k] = IF p.range < ranges[k] THEN Float[p.range] ELSE ranges[k]
      BY <1>0, <2>2 DEF append, closer
    <3>3. CASE InBeam(k) = {} /\ ranges[k] = Infinity
      <4>1. InBeam(k)' = {p} /\ ranges'[k] = Float[p.range] /\ p.range <= p.range
        BY <1>0, <3>1, <3>2, <3>3
      <4>2. QED
        BY <4>1
    <3>4. CASE \E b \in InBeam(k) : /\ \A q \in InBeam(k) : b.range <= q.range
                                    /\ ranges[k] = Float[b.range]
      <4>1. PICK b \in InBeam(k) : /\ \A q \in InBeam(k) : b.range <= q.range
                                   /\ ranges[k] = Float[b.range]
        BY <3>4
      <4>2. b.range \in 0 .. Infinity - 1 /\ b \in InBeam(k)'
        BY <1>0, <2>0, <3>1
      <4>3. CASE b.range <= p.range
        <5>1. \A q \in InBeam(k)' : b.range <= q.range
          BY <3>1, <4>1, <4>3
        <5>2. ranges'[k] = Float[b.range]
          BY <1>0, <3>2, <4>1, <4>2, <4>3, Rounding
        <5>3. QED
          BY <4>2, <5>1, <5>2
      <4>4. CASE p.range < b.range
        <5>1. \A q \in InBeam(k)' : p.range <= q.range
          <6>1. \A q \in InBeam(k) : q.range \in Int /\ b.range <= q.range
            BY <1>0, <2>0, <4>1
          <6>2. QED
            BY <1>0, <3>1, <4>2, <4>4, <6>1
        <5>2. ranges'[k] = Float[p.range]
          BY <1>0, <3>2, <4>1, <4>2, <4>4, Rounding
        <5>3. QED
          BY <3>1, <5>1, <5>2
      <4>5. QED
        BY <1>0, <4>2, <4>3, <4>4
    <3>5. QED
      BY <3>3, <3>4 DEF SectorInv, BeamIsClosest
  <2>3. QED
    BY <2>1, <2>2
<1>3. QED
  BY <1>1, <1>2 DEF SectorInv, BeamIsClosest

\* However many messages are published, every state of their beams keeps the loop's
\* invariant: a callback that publishes starts from empty beams, any other leaves them alone.
THEOREM SectorInductive == NodeSpec => []SectorInv
<1>1. NodeInit => SectorInv
  <2> SUFFICES ASSUME NodeInit PROVE SectorInv
    OBVIOUS
  <2>1. SectorTypeOK /\ merged_points \subseteq seen
    BY SectorAssumption DEF NodeInit, SectorInit, SectorTypeOK, EmptyBeam
  <2>2. BeamIsClosest
    BY DEF NodeInit, SectorInit, BeamIsClosest, InBeam, EmptyBeam
  <2>3. QED
    BY <2>1, <2>2 DEF SectorInv
<1>2. SectorInv /\ [Callback \/ FillScan]_nodeVars => SectorInv'
  <2> SUFFICES ASSUME SectorInv, [Callback \/ FillScan]_nodeVars PROVE SectorInv'
    OBVIOUS
  <2>1. CASE FillScan
    BY <2>1, AppendKeepsClosest DEF FillScan, SectorNext
  <2>2. CASE FreshScan
    <3>1. SectorTypeOK' /\ (merged_points \subseteq seen)'
      BY <2>2, SectorAssumption DEF FreshScan, SectorTypeOK, EmptyBeam
    <3>2. BeamIsClosest'
      BY <2>2 DEF FreshScan, BeamIsClosest, InBeam, EmptyBeam
    <3>3. QED
      BY <3>1, <3>2 DEF SectorInv
  <2>3. CASE UNCHANGED sectorVars
    BY <2>3 DEF sectorVars, SectorInv, SectorTypeOK, BeamIsClosest, InBeam
  <2>4. QED
    BY <2>1, <2>2, <2>3 DEF Callback, nodeVars
<1>3. QED
  BY <1>1, <1>2, PTL DEF NodeSpec

\* The variables of the loop keep their types: no beam outside the scan is written.
THEOREM SectorTypeCorrect == NodeSpec => []SectorTypeOK
<1>1. SectorInv => SectorTypeOK
  BY DEF SectorInv
<1>2. QED
  BY <1>1, SectorInductive, PTL

\* Every beam holds the closest of its points, in any order of the points.
THEOREM BeamsHoldClosest == NodeSpec => []BeamIsClosest
<1>1. SectorInv => BeamIsClosest
  BY DEF SectorInv
<1>2. QED
  BY <1>1, SectorInductive, PTL

\* The angle a beam is announced at is at most a sector away from the points it reports.
THEOREM BeamsPointAtPoints == NodeSpec => []BeamPointsAtItsPoints
<1>1. SectorInv => BeamPointsAtItsPoints
  <2> SUFFICES ASSUME SectorInv, NEW p \in merged_points
               PROVE  LET d == BeamAngle(idx(p)) * ranges_num
                                 - p.angle * (ranges_num - 1) * ranges_num
                      IN  -(Turn * (ranges_num - 1)) <= d /\ d <= Turn * (ranges_num - 1)
    BY DEF BeamPointsAtItsPoints
  <2>1. p \in Points
    BY DEF SectorInv, SectorTypeOK
  <2>2. Turn \in Nat \ {0} /\ ranges_num \in Nat \ {0, 1} /\ p.angle \in 0 .. Turn
    BY <2>1, SectorAssumption
  <2>3. /\ idx(p) \in 0 .. ranges_num - 1
        /\ idx(p) * Turn <= ranges_num * p.angle
        /\ ranges_num * p.angle <= idx(p) * Turn + Turn
    BY <2>1, IndexInSector DEF Beams
  <2>4. \A k \in 0 .. ranges_num - 1 :
          k * Turn <= ranges_num * p.angle /\ ranges_num * p.angle <= k * Turn + Turn =>
            LET d == (k * Turn) * ranges_num - p.angle * (ranges_num - 1) * ranges_num
            IN  -(Turn * (ranges_num - 1)) <= d /\ d <= Turn * (ranges_num - 1)
    BY <2>2, BeamInSector
  <2>5. QED
    BY <2>3, <2>4, Zenon DEF BeamAngle
<1>2. QED
  BY <1>1, SectorInductive, PTL
=============================================================================
