SPECIFICATION Spec
CONSTANTS
    Uploads = {"none", "text", "number", "colons", "spaced", "array", "last", "full", "over", "domain4", "limits",
               "value", "key"}
    Domain <- MCDomain
    Json <- MCJson
    Members <- MCMembers
    Places <- MCPlaces
    DomainSize = 4
    Entries = 3
    KeySize = 3
    TmpBufSize = 12
INVARIANTS
    ArbitraryTypeOK
    EntriesInOrder
    ReviewShowsMessage
    OverrunNeedsFullMessage
    
CHECK_DEADLOCK FALSE
