SPECIFICATION Spec
CONSTANTS
    e1 = e1
    e2 = e2
    wk = wk
    snd = snd
    rcv = rcv
    other = other
    fls = fls
    NoOp = NoOp
    Ops = {snd, rcv, other, fls}
    Handles = {h1, h2}
    Endpoints = {e1, e2}
    Worker = wk
    Owner <- OwnerReuse
    Kind <- KindReuse
    ErrorHandling = {e1}
    Blocking = TRUE
    MaxUid = 4
INVARIANTS
    TypeOK
    RequestIdentity
    InflightLive
    NoOrphan
    NoStrayCancel
PROPERTIES
    HonestCallback
    
CHECK_DEADLOCK FALSE
