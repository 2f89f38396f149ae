-------------------------- MODULE MCLaserScanMerger --------------------------
(* Points ahead of the robot, two of them in the same beam, behind it where the angle wraps,
   and on its body; floats are the even numbers, ties rounded up. *)
EXTENDS LaserScanMerger, TLC

Pt(x, y, range, angle) == [x |-> x, y |-> y, range |-> range, angle |-> angle]

SomePoints ==
  {Pt(3, 0, 3, 6), Pt(5, 0, 5, 6), Pt(1, 0, 1, 6), Pt(-3, 0, 3, 12), Pt(-4, 0, 4, 0)}
FarBehind == -8
BodyBehind == -2
EvenFloat == [r \in 0 .. 9 |-> IF r = 9 THEN 8 ELSE r + (r % 2)]
=============================================================================
