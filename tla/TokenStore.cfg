SPECIFICATION Spec
CONSTANTS
    r1 = r1  r2 = r2  A = A  B = B  b1 = b1
    Request = {r1, r2}
    Account = {A, B}
    Primary = A
    Body = {b1}
    NoToken = NoToken
    NoAccount = NoAccount
    ResetRaces = FALSE
    MaxMints = 4
    MaxResets = 1
INVARIANTS TokensSound RefreshKeepsAccount
CHECK_DEADLOCK FALSE
