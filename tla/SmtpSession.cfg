SPECIFICATION Spec
CONSTANTS
    A = A  B = B
    Account = {A, B}
    Primary = A
    Tls = TRUE
    None = None
    MaxCommands = 8
INVARIANTS OneTransaction UpgradeForgets
CHECK_DEADLOCK FALSE
