SPECIFICATION Spec
CONSTANTS
    NoBooking = NoBooking
    Amount <- AmountOfOne
    Booking = {b1}
    Payment = {p1, p2}
    Worker = {w1, w2}
    StateRole = {"SUPPORT", "ADMIN"}
    MaxRows = 1
SYMMETRY RaceSymmetry
INVARIANTS ConfirmedIsPaid RecordedLegally PaidOnce ReviewedIsCompleted
PROPERTIES PaidCommissionStays ImplementsDeal
CHECK_DEADLOCK FALSE
