SPECIFICATION Spec
CONSTANTS
    Booking = {b1}
    NoBooking = NoBooking
    Amount <- AmountOfTwo
    StateRole = {}
    MaxRows = 1
    Swallow = TRUE
    Payment = {p1}
    Worker = {w1}
    Copy = {k1}
    MaxFailures = 1
    Refund = {r1, r2}
    Clerk = {c1}
    RefundInput <- AnyAmount
SYMMETRY RefundSymmetry
INVARIANTS MoneyAccounted
CHECK_DEADLOCK FALSE
