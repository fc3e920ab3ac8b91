------------------------------ MODULE MCRides ------------------------------
(* Small instances of Rides for TLC.                                        *)
EXTENDS Rides, TLC

DriverSymmetry == Permutations(Driver)
=============================================================================
