SPECIFICATION Spec
CONSTANTS
    Parts <- AllParts
    Caller = {c1, c2}
    Nil = Nil
    Verifier = {v1, v2}
    Slip = {s1}
    MaxGuesses = 1
    MaxCodes = 2
    MaxWrong = 2
    Role = {"ADMIN", "SUPPORT"}
    MaxSecrets = 2
    Event = {e1}
    Channel = {"push", "email"}
    MaxAttempts = 3
    MaxStalls = 1
    MaxErrors = 3
    Chat = {h1}
    Action = {a1}
    Topic = {"trip"}
    Risk = {"HIGH", "CRITICAL"}
    Keys = {k1, k2}
    Sale = {l1, l2}
    Amount <- EitherAmount
    MonthDays = 2
    Months = 2
    Day = {2, 3}
    Partner = {p, o}
    Period = {1, 2}
    Net = {3, 5}
    Row = {r1}
    MaxVersion = 3
    Sync = {t, q}
    Employer = {p}
    Driver = {d}
    Vehicle = {v, w}
    Plate = {x}
    Plans = {p}
    Direct = {x}
    Delivery = {d}
    Member = {m, n}
    EventId = {e1}
    MaxTracked = 2
    Request = {q1, q2}
    Pages <- AllPages
    MaxAsks = 2
    MaxMoves = 1
CONSTRAINT Ahead
INVARIANTS CodesHold AsProvenAndAsked ToldAtLeastOnce ToolsHold BooksAgree OffersHold AssetsHold PlansMatchBookings ClientsHold
PROPERTIES IssuedAndClosed JobsEnd
CHECK_DEADLOCK FALSE
