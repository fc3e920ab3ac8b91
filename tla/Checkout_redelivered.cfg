SPECIFICATION Spec
CONSTANTS
    Booking = {b1}
    NoBooking = NoBooking
    Payment = {p1}
    Amount <- AmountOfTwo
    Worker = {}
    StateRole = {}
    MaxRows = 1
    Copy = {k1}
    MaxFailures = 1
    Swallow = TRUE
    Refund = {r1}
    Clerk = {c1}
    RefundInput = {2}
PROPERTIES RefundedStays
CHECK_DEADLOCK FALSE
