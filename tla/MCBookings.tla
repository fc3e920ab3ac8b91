----------------------------- MODULE MCBookings -----------------------------
(* Small instances of Bookings for TLC.                                    *)
EXTENDS Bookings, TLC

\* The amount plays no part in how bookings move.
AmountOfOne == [p \in Payment |-> 1]

RaceSymmetry == Permutations(Payment) \cup Permutations(Worker)
=============================================================================
