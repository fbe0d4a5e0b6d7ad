SPECIFICATION FairSpec
CONSTANTS
    a = a
    b = b
    Conns = {1, 2, 3}
    Procs = {a, b}
    From <- MCFrom
    To <- MCTo
    Faulty = {3}
    MaxOpening = 2
    Established = {1}
    Aborters <- MCAborters
    Closers <- MCClosers
    None = None
CHECK_DEADLOCK FALSE
INVARIANTS
    SamePair
    
 
