SPECIFICATION Spec
CONSTANTS
    A = A  B = B  e1 = e1  e2 = e2  e3 = e3
    Account = {A, B}
    Primary = A
    Email = {e1, e2}
    None = None
    InitialOwner <- OneEach
    MAX_TRANSITIONS = 1
    Reuse = TRUE
    Overlap = TRUE
    MaxCounter = 2
INVARIANTS RingContiguous TokenFaithful
CHECK_DEADLOCK FALSE
