SPECIFICATION Spec
CONSTANTS
    Transactions <- MCTransactions
    Settings <- MCSettings
INVARIANTS
    ItemsTypeOK
    EveryFieldShownOnce
    SenderAndRekeyShown
    AcceptedIsShowable
    BatchCountsAgree
