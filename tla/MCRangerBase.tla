---------------------------- MODULE MCRangerBase ----------------------------
(* A Ranger Mini V1, the one robot with conversions of its own, and a Mini V2, driven straight,
   on the spot and sideways. *)
EXTENDS RangerBase

TwoModels == {"ranger_mini_v1", "ranger_mini_v2"}
OneModel == {"ranger_mini_v1"}

Spin == [forward |-> FALSE, lateral |-> FALSE, tight |-> TRUE]
Sideways == [forward |-> FALSE, lateral |-> TRUE, tight |-> FALSE]
ThreeTwists == {Stop, Spin, Sideways}
=============================================================================
