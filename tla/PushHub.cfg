SPECIFICATION Spec
CONSTANTS
    s1 = s1  s2 = s2  l1 = l1  k1 = k1
    NAccount = 2
    Caller = {1}
    Stepper = {s1, s2}
    Listener = {l1}
    Client = {k1}
    MaxSeq = 2
    MaxStep = 2
    MaxReset = 1
INVARIANTS AnnouncedOnce SilentAfterDelete
CHECK_DEADLOCK FALSE
