SPECIFICATION Spec
CONSTANTS
    A = A  B = B  e1 = e1  e2 = e2  e3 = e3
    Account = {A, B}
    Primary = A
    Email = {e1, e2, e3}
    None = None
    InitialOwner <- OneEach
    MAX_TRANSITIONS = 2
    Reuse = FALSE
    Overlap = FALSE
    MaxCounter = 3
INVARIANTS TypeOK ModseqComplete GmailReplay
PROPERTIES SiblingTokens ImplementsFeed
CHECK_DEADLOCK FALSE
