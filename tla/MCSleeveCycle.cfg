SPECIFICATION Spec
CONSTANTS
    b1 = b1
    s1 = s1
    s2 = s2
    b2 = b2
    r1 = r1
    r2 = r2
    Orders = {s1, s2, b2}
    StrategyOf <- MCStrategyOf
    SideOf <- MCSideOf
    SessionCap = 1
    Runs = {r1, r2}
    Scheduled = {r1, r2}
    NoRun = NoRun
    NoOrder = NoOrder
    Absent = Absent
    Answers <- MCPartial
    Held = 1
    MaxDay = 1
SYMMETRY MCSymmetry
INVARIANTS
    TypeOK
    SleevesAreTrue
    SellsOnlyItsOwn
    QuietLedgerMatches
    CapHolds
    EndsAreSettleable
PROPERTIES
    ImplementsStrategyAccounts
    ImplementsSerialSubmission
CHECK_DEADLOCK FALSE
