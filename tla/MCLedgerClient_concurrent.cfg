SPECIFICATION FairSpec
CONSTANTS
    AccountIds <- MCAccountIds
    Txns <- MCTxns
    Messages <- MCMessages
    Size <- MCSize
    Fee <- MCFee
    WellFormed <- MCWellFormed
    Mixtures <- MCMixtures
    AppCalls <- MCAppCalls
    Sender <- MCSender
    Request <- MCRequest
    Calls = {"group1", "sign1", "data"}
    Blindsign = {FALSE}
    MaxConcurrent = 2
    MaxFaults = 1
    Disruptions = {"lost", "abandon", "restart"}
    BufferSize = 4
    FeeModulus = 100
    Apdus = {}
INVARIANTS
    ReleasedIsApproved
    SignatureOfRequest
PROPERTIES
    AllCallsFinish
CHECK_DEADLOCK FALSE
