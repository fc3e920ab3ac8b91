SPECIFICATION RefundSpec
CONSTANTS
    Payment = {p1, p2}
    Refund = {r1, r2, r3, r4}
    Clerk = {k1}
    Amount <- Amounts
    RefundInput <- AnyAmount
SYMMETRY RefundSymmetry
INVARIANTS RefundsWithinPayment StatusTellsRefunds
PROPERTIES SettledRefundIsFinal
CHECK_DEADLOCK FALSE
