SPECIFICATION Spec
CONSTANTS
    Payment = {p1}
    Staff = {s1, s2}
    Amount <- AmountOfThree
    AmountInput = {1, 3}
    NoAmount = NoAmount
    MaxHistory = 6
SYMMETRY StaffSymmetry
INVARIANTS HistoryHolds LedgerMatchesHistory MoneyInOrder
PROPERTIES NoStatusJump ImplementsEscrow
CHECK_DEADLOCK FALSE
