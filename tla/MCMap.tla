-------------------------------- MODULE MCMap --------------------------------
(***************************************************************************)
(* Instances of FeMap for TLC.  Tables have two, four or eight slots.      *)
(* Names collide at the last slot of the small tables, where the probe     *)
(* sequence wraps around, and may part when the table grows.               *)
(***************************************************************************)
EXTENDS FeMap, TLC

MCHashes == [Name -> {0, 3, 4, 7}]

MCSymmetry == Permutations(Name) \cup Permutations(Value)

=============================================================================
