----------------------------- MODULE MCRefunds ------------------------------
(* Small instances of Refunds for TLC.                                     *)
EXTENDS Refunds, TLC

\* A payment of three units: room for three refunds of one, for a full one, and
\* for attempts that exceed what is left.  A second payment is of nothing.
Amounts == [p \in Payment |-> IF p = CHOOSE q \in Payment : TRUE THEN 3 ELSE 0]

\* Also refunds of nothing and of less: create takes any integer.
AnyAmount == {-1, 0, 1, 3}

RefundSymmetry == Permutations(Refund) \cup Permutations(Clerk)
=============================================================================
