SPECIFICATION Spec
CONSTANTS
    o1 = o1
    p1 = p1
    r1 = r1
    c1 = c1
    c2 = c2
    x1 = x1
    w1 = w1
    Owners = {r1}
    NoOwner = NoOwner
    Orders = {o1}
    Plans = {p1}
    OrderOf <- MCOrderOf
    NoPlan = NoPlan
    Observations <- MCTwoObservations
    Absent = Absent
    NoOrder = NoOrder
    Cancellers = {c1, c2}
    Reconcilers = {x1}
    Watchers = {}
    Submitted <- MCSubmitted
    Ttl = 1
    MaxTime = 1
    MaxControlWrites = 1
    MaxAge = 1
SYMMETRY MCSymmetry
INVARIANTS
    TypeOK
    AtMostOneCancel
    CancelLeavesEvidence
    CanceledIsRecordable
PROPERTIES
    ImplementsOneShotCancel
CHECK_DEADLOCK FALSE
