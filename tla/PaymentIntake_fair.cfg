SPECIFICATION FairSpec
CONSTANTS
    NoBooking = NoBooking
    Amount <- AmountOfOne
    Booking = {b1, b2}
    Payment = {p1, p2}
    Copy = {k1}
    MaxFailures = 1
    Swallow = FALSE
INVARIANTS ChargedFirst
PROPERTIES ChargeConfirmsBooking
CHECK_DEADLOCK FALSE
