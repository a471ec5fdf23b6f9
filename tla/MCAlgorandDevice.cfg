SPECIFICATION Spec
CONSTANTS
    AccountIds <- MCAccountIds
    Txns <- MCTxns
    Messages <- MCMessages
    Size <- MCSize
    Fee <- MCFee
    WellFormed <- MCWellFormed
    Mixtures <- MCMixtures
    AppCalls <- MCAppCalls
    BufferSize = 3
    FeeModulus = 3
    Apdus <- MCApdus
    Blindsign = {TRUE, FALSE}
    Disruptions = {"pin", "restart", "toggle"}
INVARIANTS
    TypeOK
    GroupCountConsistent
    ReviewCoversUpload
PROPERTIES
    SignsWholeUpload
    UnreviewedSignatureOwesReview
