-------------------------- MODULE MCPaymentIntake ---------------------------
(* Small instances of PaymentIntake for TLC.                               *)
EXTENDS PaymentIntake, TLC

\* The amount plays no part in how payments come in.
AmountOfOne == [p \in Payment |-> 1]
=============================================================================
