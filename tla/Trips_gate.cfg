SPECIFICATION Spec
CONSTANTS
    Trip = {t1}
    Item = {i1, i2}
    Estimate <- EitherSign
    Details = {1, 2}
    Worker = {w1, w2}
    MaxVersion = 2
SYMMETRY TripSymmetry
INVARIANTS ActiveIsApproved EstimatesHold GateOnNewest
PROPERTIES SentIsFrozen
CHECK_DEADLOCK FALSE
