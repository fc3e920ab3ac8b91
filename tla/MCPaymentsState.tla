-------------------------- MODULE MCPaymentsState ---------------------------
(* Small instances of PaymentsState for TLC.                               *)
EXTENDS PaymentsState, TLC

\* Every payment is for three minor units: room for one partial refund below,
\* and one input equal to, the amount.
AmountOfThree == [p \in Payment |-> 3]

\* The calls of the staff are interchangeable.
StaffSymmetry == Permutations(Staff)
=============================================================================
