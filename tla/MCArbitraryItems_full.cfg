SPECIFICATION Spec
CONSTANTS
    Uploads = {"text", "full", "over"}
    Domain <- MCDomain
    Json <- MCJson
    Members <- MCMembers
    Places <- MCPlaces
    DomainSize = 6
    Entries = 3
    KeySize = 3
    TmpBufSize = 12
INVARIANT
    OneLevelIsReviewed
CHECK_DEADLOCK FALSE
