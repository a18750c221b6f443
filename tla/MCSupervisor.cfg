SPECIFICATION FairSpec
CONSTANTS
    a = a
    b = b
    s1 = s1
    Owners = {a, b}
    NoOwner = NoOwner
    Sessions = {s1}
    NoSession = NoSession
    SessionAt <- MCOneSession
    MaxAttempts = 2
    Ttl = 1
    MaxTime = 2
    MaxControlWrites = 1
INVARIANTS
    TypeOK
    AttemptsBounded
    HaltBoundsRuns
PROPERTIES
    StopIsObeyed
    SessionsSettle
    SuccessIsFinal
    SafetyNeverRetried
    ClearsOwnPidOnly
    ImplementsSessionRuns
CHECK_DEADLOCK FALSE
