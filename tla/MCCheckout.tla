----------------------------- MODULE MCCheckout -----------------------------
(* Small instances of Checkout for TLC.                                    *)
EXTENDS Checkout, TLC

\* Two units: room for one refund in two parts, or in one.
AmountOfTwo == [p \in Payment |-> 2]

\* Also a refund of less than nothing.
AnyAmount == {-1, 1, 2}

RefundSymmetry == Permutations(Refund)
=============================================================================
