SPECIFICATION Spec
CONSTANTS
    a = a
    b = b
    s1 = s1
    Owners = {a, b}
    NoOwner = NoOwner
    Sessions = {s1}
    NoSession = NoSession
    SessionAt <- MCOneSession
    MaxAttempts = 3
    Ttl = 1
    MaxTime = 3
    MaxControlWrites = 0
SYMMETRY MCSymmetry
PROPERTIES
    SafetyNeverRetried
CHECK_DEADLOCK FALSE
