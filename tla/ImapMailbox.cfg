SPECIFICATION LiveSpec
CONSTANTS
    inbox = inbox  archive = archive  e1 = e1  e2 = e2 
    Mailbox = {inbox, archive}
    Email = {e1, e2}
    Retired = Retired
    Selected = inbox
    InitialOrder <- TwoInOrder
    InitialMember <- TwoInInbox
    MaxSlots = 4
    MaxSteps = 2
INVARIANTS SlotsSound QresyncPartition IdleSound
PROPERTIES UidsStable IdleEventuallyReads
CHECK_DEADLOCK FALSE
