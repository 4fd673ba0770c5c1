SPECIFICATION Spec
CONSTANTS
    A = A  B = B  inbox = inbox  work = work  e1 = e1
    Account = {A, B}
    Primary = A
    Name = {inbox, work}
    None = None
    Declared = 2
    MaxBoxes = 5
    InitialBoxes <- TwoBoxes
    Email = {e1}
    EmailAccount <- Owners
    InitialMember <- Filed
    Grants <- SomeGrants
    Fixtures <- SomeFixtures
    MaxChurn = 3
INVARIANTS SelectionSound NamespaceForeseen
PROPERTIES ForeignWritesGranted ReadOnlyHonoured RevokedIsNoperm
CHECK_DEADLOCK FALSE
