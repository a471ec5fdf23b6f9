SPECIFICATION Spec
CONSTANTS
    Uploads <- MCUploads
    Bytes <- MCBytes
    Meaning <- MCMeaning
    Early <- MCEarly
    Tails <- MCTails
    BinSize <- MCBinSize
    StringSize <- MCStringSize
    Ascii <- MCAscii
    ACCT_SIZE = 2
    Checksum <- MCChecksum
INVARIANTS
    SearchTypeOK
    OffsetInWindow
    FoundIsMeaning
    FoundInOneWalk
    EarlyFieldsAreFound
    ValidIsAccepted
    AddressNamesKey
PROPERTY
    SearchEnds
