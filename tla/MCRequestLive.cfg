SPECIFICATION FairSpec
CONSTANTS
    e1 = e1
    e2 = e2
    wk = wk
    snd = snd
    rcv = rcv
    other = other
    fls = fls
    NoOp = NoOp
    Ops = {snd, rcv, other}
    Handles = {h1, h2}
    Endpoints = {e1, e2}
    Worker = wk
    Owner <- OwnerLive
    Kind <- KindLive
    ErrorHandling = {e1}
    Blocking = TRUE
    MaxUid = 4
PROPERTIES
    CloseResolves
    ErrorResolves
CHECK_DEADLOCK FALSE
