SPECIFICATION Spec
CONSTANTS
    o1 = o1
    o2 = o2
    p1 = p1
    p2 = p2
    r1 = r1
    r2 = r2
    c1 = c1
    Owners = {r1, r2}
    NoOwner = NoOwner
    Operators = {}
    Orders = {o1, o2}
    Plans = {p1, p2}
    OrderOf <- MCOrderOf
    Observations <- MCObservations
    NoPlan = NoPlan
    NoOrder = NoOrder
    Absent = Absent
    Ttl = 1
    MaxTime = 1
    MaxControlWrites = 1
SYMMETRY MCSymmetry
INVARIANTS
    TypeOK
    AtMostOneSubmit
    ClaimPrecedesCall
    OneOutstanding
    HaltBoundsExposure
PROPERTIES
    ClaimsInFencingOrder
    ImplementsSerialSubmission
CHECK_DEADLOCK FALSE
