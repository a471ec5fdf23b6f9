SPECIFICATION FairSpec
CONSTANTS
    AccountIds <- MCAccountIds
    Txns <- MCTxns
    Messages <- MCMessages
    Size <- MCSize
    Fee <- MCFee
    WellFormed <- MCWellFormed
    Mixtures <- MCMixtures
    AppCalls <- MCAppCalls
    Sender <- MCSender
    Request <- MCRequest
    Calls = {"group1", "sign1", "data", "group2"}
    Blindsign = {TRUE, FALSE}
    MaxConcurrent = 1
    MaxFaults = 0
    Disruptions = {}
    BufferSize = 4
    FeeModulus = 100
    Apdus = {}
INVARIANTS
    ClientTypeOK
    SummaryCoversGroup
    FailsOnlyForCause
PROPERTIES
    ImplementsService
    AllCallsFinish
CHECK_DEADLOCK FALSE
