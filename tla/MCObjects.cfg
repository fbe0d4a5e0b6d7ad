SPECIFICATION Spec
CONSTANTS
    e1 = e1
    e2 = e2
    r1 = r1
    App = App
    Ctx = Ctx
    Wrk = Wrk
    Eps = {e1, e2}
    Lis = {l1}
    Mems = {m1}
    Rkeys = {r1}
    Addrs = {a1}
    EpOf <- MCEpOf
    SelfReferring = {l1}
    CanRefuse = {e2, r1}
    MaxDepth = 1
    MaxMade = 4
CONSTRAINT FewMade
CHECK_DEADLOCK FALSE
INVARIANTS
    TypeOK
    NoUseAfterFree
    AssertionOnlyByUser
    ResetShutsDown
    DroppedIsFreed
