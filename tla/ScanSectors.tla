----------------------------- MODULE ScanSectors -----------------------------
(***************************************************************************)
(* appendFilteredPoints: how one merged scan is filled from the points of  *)
(* the two clouds.  The scan has ranges_num beams; each point that passes  *)
(* the filters goes to the beam its angle falls into, which keeps the      *)
(* shortest range.                                                         *)
(*                                                                         *)
(* Points come in any order, so the loop takes any point that is left.     *)
(* Coordinates are whole numbers of a small unit; range and angle of a     *)
(* point are what hypot and atan2 return for it, the angle counted from    *)
(* -pi in steps of 2 pi / Turn.  Ranges are computed as double and stored  *)
(* as float: Float rounds, monotonically, and keeps what is rounded.       *)
(***************************************************************************)
EXTENDS Integers

CONSTANTS
  Points,        \* records with fields x, y, range and angle
  Turn,          \* angle steps of a full turn
  ranges_num,    \* p_ranges_num_
  min_x_range, max_x_range, min_y_range, max_y_range,  \* p_min_x_range_ ...
  min_scanner_range, max_scanner_range,
  filter_robot_body,
  body_min_x, body_max_x, body_min_y, body_max_y,
  Float,         \* static_cast<float> of each range
  Infinity       \* the range of an empty beam

ASSUME SectorAssumption ==
  /\ Turn \in Nat \ {0} /\ ranges_num \in Nat \ {0, 1}
  /\ Points \subseteq [x : Int, y : Int, range : Nat, angle : 0 .. Turn]
  /\ {min_x_range, max_x_range, min_y_range, max_y_range} \subseteq Int
  /\ {min_scanner_range, max_scanner_range} \subseteq Int
  /\ {body_min_x, body_max_x, body_min_y, body_max_y} \subseteq Int
  /\ filter_robot_body \in BOOLEAN
  /\ Infinity \in Nat
  /\ \A p \in Points : p.range < Infinity

\* Rounding to float: monotone, and a float rounds to itself.
ASSUME FloatAssumption ==
  /\ Float \in [0 .. Infinity - 1 -> 0 .. Infinity - 1]
  /\ \A r, s \in 0 .. Infinity - 1 : r <= s => Float[r] <= Float[s]
  /\ \A r \in 0 .. Infinity - 1 : Float[Float[r]] = Float[r]

VARIABLES
  left,    \* points of the clouds the loops have not come to
  seen,    \* history: points they have been through
  ranges,  \* the beams of the scan
  merged_points  \* the cloud

sectorVars == <<left, seen, ranges, merged_points>>

Beams == 0 .. ranges_num - 1

SectorTypeOK ==
  /\ left \subseteq Points
  /\ seen \subseteq Points
  /\ ranges \in [Beams -> 0 .. Infinity]
  /\ merged_points \subseteq Points

EmptyBeam == Infinity

\* publishMessages starts with empty beams.
SectorInit ==
  /\ left \in SUBSET Points
  /\ seen = {}
  /\ ranges = [k \in Beams |-> EmptyBeam]
  /\ merged_points = {}

-----------------------------------------------------------------------------
inside_output_bounds(p) ==
  /\ p.x > min_x_range /\ p.x < max_x_range
  /\ p.y > min_y_range /\ p.y < max_y_range
  /\ p.range > min_scanner_range /\ p.range < max_scanner_range

inside_robot_body(p) ==
  /\ p.x > body_min_x /\ p.x < body_max_x
  /\ p.y > body_min_y /\ p.y < body_max_y

pointPassesFilters(p) ==
  inside_output_bounds(p) /\ (filter_robot_body => ~inside_robot_body(p))

\* [Mutant] the angle counted from straight ahead; what is behind ends up in the last beam.
idx_from_ahead(p) ==
  IF 2 * p.angle < Turn THEN ranges_num - 1
  ELSE (ranges_num * (2 * p.angle - Turn)) \div (2 * Turn)

\* The beam of a point; the angle +pi belongs to the last one.
idx(p) ==
  LET i == (ranges_num * p.angle) \div Turn
  IN  IF i >= ranges_num THEN ranges_num - 1 ELSE i

\* [Mutant] the last point of a beam wins.
closer_last(p, k) == TRUE

closer(p, k) == p.range < ranges[k]

\* One round of the loop.
append(p) ==
  /\ p \in left
  /\ left' = left \ {p}
  /\ seen' = seen \cup {p}
  /\ IF pointPassesFilters(p)
       THEN /\ ranges' = IF closer(p, idx(p)) THEN [ranges EXCEPT ![idx(p)] = Float[p.range]]
                                              ELSE ranges
            /\ merged_points' = merged_points \cup {p}
       ELSE UNCHANGED <<ranges, merged_points>>

SectorNext == \E p \in left : append(p)

SectorSpec == SectorInit /\ [][SectorNext]_sectorVars

-----------------------------------------------------------------------------
(* Properties. *)

\* Where a consumer of the scan takes beam k to point: angle_min + k * angle_increment, in
\* steps of a turn, times ranges_num - 1.
BeamAngle(k) == k * Turn

\* The points a beam has to report.
InBeam(k) == {p \in seen : pointPassesFilters(p) /\ idx(p) = k}

\* A beam holds the range of the closest of its points, rounded once, whatever the order
\* of the points; without points it stays at infinity.  Comparing a double with the float
\* stored before loses no obstacle.
BeamIsClosest ==
  \A k \in Beams :
    \/ InBeam(k) = {} /\ ranges[k] = Infinity
    \/ \E p \in InBeam(k) : /\ \A q \in InBeam(k) : p.range <= q.range
                            /\ ranges[k] = Float[p.range]

\* Sectors have width Turn / ranges_num and beams are announced Turn / (ranges_num - 1)
\* apart, yet a beam points into the sector of the points it reports: the two angles are at
\* most one sector apart.
BeamPointsAtItsPoints ==
  \A p \in merged_points :
    LET d == BeamAngle(idx(p)) * ranges_num - p.angle * (ranges_num - 1) * ranges_num
    IN  -(Turn * (ranges_num - 1)) <= d /\ d <= Turn * (ranges_num - 1)
=============================================================================
