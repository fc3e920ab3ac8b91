SPECIFICATION Spec
CONSTANTS
    Partner = {p1}
    NoPartner = NoPartner
    Request = {r1, r2}
    Documents = {d1, d2}
    Worker = {w1, w2}
SYMMETRY OnboardingSymmetry
INVARIANTS ActiveIsSigned ActivationIsWhole
PROPERTIES FinalStays SubmittedIsFrozen
CHECK_DEADLOCK FALSE
