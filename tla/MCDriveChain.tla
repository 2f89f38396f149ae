---------------------------- MODULE MCDriveChain ----------------------------
(* Two goals, so that one can preempt, cancel or follow the other: two good ones without a
   zero velocity at success, or, with one, a second goal whose preemption fails (a missing
   controller does what a missing goal checker can do).  A reversal takes two periods. *)
EXTENDS DriveChain, TLC

CONSTANTS g1, g2

TwoGoals == {g1, g2}
Setup(second, zero) ==
  [kind |-> g1 :> "good" @@ g2 :> second, publish_zero_velocity |-> zero]
SetupsTried == {Setup("good", FALSE), Setup("no_checker", TRUE), Setup("empty_path", TRUE)}
BothWays == {1, -1}
Backwards == -1
=============================================================================
