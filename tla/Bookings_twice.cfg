SPECIFICATION Spec
CONSTANTS
    Booking = {b1}
    NoBooking = NoBooking
    Payment = {p1, p2}
    Amount <- AmountOfOne
    Worker = {w1, w2}
    StateRole = {}
    MaxRows = 2
INVARIANTS ChargedOnce
CHECK_DEADLOCK FALSE
