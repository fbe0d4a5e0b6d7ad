SPECIFICATION Spec
CONSTANTS
    a = a
    b = b
    c1 = c1
    c2 = c2
    d1 = d1
    Peers = {a, b}
    Other <- MCOther
    Calls = {d1}
    Caller <- MCCaller
    ErrorHandling = {b}
    Blocking = TRUE
    Faults = TRUE
    Polite = FALSE
    Rejects = {a}
    Timeouts = {b}
    Aborters = {b}
    Counters = {b}
    Watchers = {b}
    MaxSend <- OneSends
    MaxRecv = 2
CHECK_DEADLOCK FALSE
INVARIANTS
    TypeOK
    Conservation
    LimitCloses
    
