SPECIFICATION Spec
CONSTANTS
    Ride = {r1}
    Driver = {d1, d2}
    NoRide = NoRide
    NoDriver = NoDriver
    Worker = {w1}
    StaffStatus = {"SUSPENDED"}
    MaxEvents = 5
SYMMETRY DriverSymmetry
INVARIANTS StagesInOrder OneCrew CrewedRide
PROPERTIES FinalStays
CHECK_DEADLOCK FALSE
