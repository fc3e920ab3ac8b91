SPECIFICATION RefundSpec
CONSTANTS
    Payment = {p1}
    Refund = {r1, r2, r3}
    Clerk = {k1, k2}
    Amount <- Amounts
    RefundInput = {1, 2}
SYMMETRY RefundSymmetry
INVARIANTS RefundsWithinPayment
CHECK_DEADLOCK FALSE
