SPECIFICATION Spec
CONSTANTS
    o1 = o1
    p1 = p1
    v1 = v1
    r1 = r1
    r2 = r2
    Owners = {v1}
    NoOwner = NoOwner
    Orders = {o1}
    Plans = {p1}
    OrderOf <- MCOrderOf
    NoPlan = NoPlan
    Observations <- MCObservations
    Absent = Absent
    Runs = {r1}
    NoRun = NoRun
    Certified = o1
    RunId = v1
    MaxLeases = 2
    Ttl = 1
    MaxTime = 1
    MaxControlWrites = 0
PROPERTIES
    UnresolvedBlocksSubmit
CHECK_DEADLOCK FALSE
