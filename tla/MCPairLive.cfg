SPECIFICATION FairSpec
CONSTANTS
    a = a
    b = b
    c1 = c1
    c2 = c2
    d1 = d1
    Peers = {a, b}
    Other <- MCOther
    Calls = {c1, d1}
    Caller <- MCCaller
    ErrorHandling = {b}
    Blocking = TRUE
    Faults = FALSE
    Polite = TRUE
    Rejects = {}
    Timeouts = {}
    Aborters = {a}
    Counters = {}
    Watchers = {}
    MaxSend <- ServerSends
    MaxRecv = 1
CHECK_DEADLOCK FALSE
PROPERTIES
    CloseReturns
    
    NoRecvHang
