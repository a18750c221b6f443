SPECIFICATION FairSpec
CONSTANTS
    o1 = o1
    p1 = p1
    r1 = r1
    c1 = c1
    c2 = c2
    x1 = x1
    w1 = w1
    Owners = {r1}
    NoOwner = NoOwner
    Orders = {o1}
    Plans = {p1}
    OrderOf <- MCOrderOf
    NoPlan = NoPlan
    Observations <- MCObservations
    Absent = Absent
    NoOrder = NoOrder
    Cancellers = {c1}
    Reconcilers = {x1}
    Watchers = {w1}
    Submitted <- MCSubmitted
    Ttl = 1
    MaxTime = 0
    MaxControlWrites = 0
    MaxAge = 1
INVARIANTS
    TerminalRowsAreTrue
PROPERTIES
    CancelConverges
CHECK_DEADLOCK FALSE
