SPECIFICATION Spec
CONSTANTS
    o1 = o1
    o2 = o2
    p1 = p1
    p2 = p2
    r1 = r1
    r2 = r2
    c1 = c1
    Owners = {r1}
    NoOwner = NoOwner
    Operators = {c1}
    Orders = {o1, o2}
    Plans = {p1, p2}
    OrderOf <- MCOrderOf
    Observations <- MCObservations
    NoPlan = NoPlan
    NoOrder = NoOrder
    Absent = Absent
    Ttl = 1
    MaxTime = 0
    MaxControlWrites = 0
PROPERTIES
    TerminalStateStable
CHECK_DEADLOCK FALSE
