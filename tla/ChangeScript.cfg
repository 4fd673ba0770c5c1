SPECIFICATION LiveSpec
CONSTANTS
    s1 = s1  r1 = r1  r2 = r2  z1 = z1
    Stepper = {s1}
    Requester = {r1, r2}
    Resetter = {z1}
    Script <- ThreeSteps
    Trigger <- InScriptOrder
    Budget = 1
    Free = Free
INVARIANTS ScriptSound NoTornRead AnnouncedInTime
PROPERTY RequestsFinish
CHECK_DEADLOCK FALSE
