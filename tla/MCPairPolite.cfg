SPECIFICATION Spec
CONSTANTS
    a = a
    b = b
    c1 = c1
    c2 = c2
    d1 = d1
    Peers = {a, b}
    Other <- MCOther
    Calls = {c1, c2, d1}
    Caller <- MCCaller
    ErrorHandling = {b}
    Blocking = TRUE
    Faults = TRUE
    Polite = TRUE
    Rejects = {}
    Timeouts = {b}
    Aborters = {}
    Counters = {}
    Watchers = {}
    MaxSend <- OneSends
    MaxRecv = 1
CHECK_DEADLOCK FALSE
INVARIANTS
    NothingUnread
    CtrlTruthful
    CtrlNeverRefused
