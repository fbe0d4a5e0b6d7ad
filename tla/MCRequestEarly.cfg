SPECIFICATION Spec
CONSTANTS
    e1 = e1
    e2 = e2
    wk = wk
    snd = snd
    rcv = rcv
    other = other
    fls = fls
    NoOp = NoOp
    Ops = {rcv, other}
    Handles = {h1, h2}
    Endpoints = {e1, e2}
    Worker = wk
    Owner <- OwnerTags
    Kind <- KindTags
    ErrorHandling = {e1}
    Blocking = TRUE
    MaxUid = 4
INVARIANT HonestOk
CHECK_DEADLOCK FALSE
