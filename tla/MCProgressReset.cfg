SPECIFICATION Spec
CONSTANTS
    a1 = a1
    a2 = a2
    f1 = f1
    f2 = f2
    NoApp = NoApp
    NoFd = NoFd
    Apps = {a1, a2}
    Loops = {l1, l2}
    Modes = {TRUE, FALSE}
    Fds = {f1, f2}
    FdFor <- MCFdFor
    MaxEvents = 2
CHECK_DEADLOCK FALSE
INVARIANT GuaranteedProgress
