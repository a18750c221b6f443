SPECIFICATION Spec
CONSTANTS
    o1 = o1
    p1 = p1
    r1 = r1
    c1 = c1
    c2 = c2
    x1 = x1
    w1 = w1
    Owners = {r1}
    NoOwner = NoOwner
    Orders = {o1}
    Plans = {p1}
    OrderOf <- MCOrderOf
    NoPlan = NoPlan
    Observations <- MCManyObservations
    Absent = Absent
    NoOrder = NoOrder
    Cancellers = {c1}
    Reconcilers = {x1}
    Watchers = {}
    Submitted <- MCSubmitted
    Ttl = 1
    MaxTime = 1
    MaxControlWrites = 0
    MaxAge = 1
PROPERTIES
    ReconcileKeepsFills
CHECK_DEADLOCK FALSE
