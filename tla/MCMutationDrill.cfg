SPECIFICATION Spec
CONSTANTS
    o1 = o1
    p1 = p1
    v1 = v1
    r1 = r1
    r2 = r2
    Owners = {v1}
    NoOwner = NoOwner
    Orders = {o1}
    Plans = {p1}
    OrderOf <- MCOrderOf
    NoPlan = NoPlan
    Observations <- MCFewObservations
    Absent = Absent
    Runs = {r1, r2}
    NoRun = NoRun
    Certified = o1
    RunId = v1
    MaxLeases = 2
    Ttl = 1
    MaxTime = 1
    MaxControlWrites = 0
SYMMETRY MCSymmetry
INVARIANTS
    OneInside
    ReportIsTrue
    ResubmitsOnlyUnlisted
PROPERTIES
    ImplementsOneShotCancel
CHECK_DEADLOCK FALSE
