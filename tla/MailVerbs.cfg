SPECIFICATION Spec
CONSTANTS
    c1 = c1
    Minted <- MCMinted
    Declared <- MCDeclared
    JmapPatch <- MCJmapPatch
    GmailPatch <- MCGmailPatch
    GraphPatch <- MCGraphPatch
    NewRole = {"none", "trash"}
    Place <- MCPlace
    Parent = {"user"}
    ScriptBox = {"m5"}
    Dest = {"user", "unknown"}
    Client = {c1}
    MaxMail = 2
    MaxBox = 5
    MaxLog = 3
INVARIANTS StoreSound LabelReplay PatchExact JmapChangesSound
PROPERTY Recorded
CHECK_DEADLOCK FALSE
