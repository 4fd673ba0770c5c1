SPECIFICATION Spec
CONSTANTS
    A = A  B = B  c1 = c1  c2 = c2  c3 = c3  yes = yes  no = no
    Account = {A, B}
    Primary = A
    Calendar = {c1, c2, c3}
    InitialOwner <- TwoAndOne
    Makers = {A, B}
    Status = {yes, no}
    None = None
    Star = Star
    FixtureIds = 1
    MaxMinted = 1
    Patches <- EditAnswerMove
    InitialEvents <- OneInvitation
    MAX_TRANSITIONS = 2
    MaxWrites = 3
INVARIANTS CalendarDeltaSound JmapChangesComplete EtagIdentifies
PROPERTIES CtagMoves TombstonesTrue
CHECK_DEADLOCK FALSE
