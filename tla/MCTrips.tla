------------------------------- MODULE MCTrips -------------------------------
(* Small instances of Trips for TLC.                                        *)
EXTENDS Trips, TLC

\* One item costs a unit, the others give one back.
EitherSign == [x \in Item |-> IF x = CHOOSE i \in Item : TRUE THEN 1 ELSE -1]

TripSymmetry == Permutations(Worker)
=============================================================================
