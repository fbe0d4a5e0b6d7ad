SPECIFICATION FairSpec
CONSTANTS
    e1 = e1
    e2 = e2
    r1 = r1
    r2 = r2
    r3 = r3
    m1 = m1
    m2 = m2
    m3 = m3
    NoHandle = NoHandle
    NoItem = NoItem
    Eps = {e1, e2}
    Handles = {h1}
    Calls = {r1, r2, r3}
    CallOn <- MCCallOn
    Msgs = {m1, m2, m3}
    MsgTo <- MCMsgTo
    ErrorHandling = {e1}
    Blocking = TRUE
CHECK_DEADLOCK FALSE
INVARIANTS
    TypeOK
    NobodyWaitsForPooled
    WaitersFound
    NoStrayAmCancel
    GivenOnce
    LostOnlyToAbandoned
    InOrder
PROPERTY ErrorReleases
