SPECIFICATION Spec
CONSTANTS
    Uploads = {"cutOne", "cutTwo"}
    Bytes <- MCBytes
    Meaning <- MCMeaning
    Early <- MCEarly
    Tails <- MCStaleTails
    BinSize <- MCBinSize
    StringSize <- MCStringSize
    Ascii <- MCAscii
    ACCT_SIZE = 2
    Checksum <- MCChecksum
INVARIANT
    ReadsAreSigned
