SPECIFICATION FairSpec
CONSTANTS
    b1 = b1
    s1 = s1
    s2 = s2
    b2 = b2
    r1 = r1
    r2 = r2
    Orders = {b1}
    StrategyOf <- MCStrategyOf
    SideOf <- MCSideOf
    SessionCap = 1
    Runs = {r1, r2}
    Scheduled = {r1}
    NoRun = NoRun
    NoOrder = NoOrder
    Absent = Absent
    Answers <- MCAnswers
    Held = 0
    MaxDay = 0
PROPERTIES
    IntentsSettle
CHECK_DEADLOCK FALSE
