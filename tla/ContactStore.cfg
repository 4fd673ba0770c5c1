SPECIFICATION Spec
CONSTANTS
    A = A  B = B  f1 = f1  f2 = f2  g1 = g1  p = p  q = q
    Account = {A, B}
    Primary = A
    Folder = {f1, f2, g1}
    FolderAccount <- Books
    Card = {p, q}
    None = None
    FixtureIds = 2
    MaxMinted = 1
    Patches <- EditOrMove
    NewCards = {p}
    Edits = {q}
    Watched = {f1}
    PageSize = 1
    InitialContacts <- TwoContacts
    MAX_TRANSITIONS = 2
    MaxWrites = 3
INVARIANTS MirrorSound CtagCovers EtagIdentifies
CHECK_DEADLOCK FALSE
