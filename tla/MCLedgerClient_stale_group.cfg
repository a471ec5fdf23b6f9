SPECIFICATION ClientSpec
CONSTANTS
    AccountIds <- MCAccountIds
    Txns <- MCTxns
    Messages <- MCMessages
    Size <- MCSize
    Fee <- MCFee
    WellFormed <- MCWellFormed
    Mixtures <- MCMixtures
    AppCalls <- MCAppCalls
    Sender <- MCSender
    Request <- MCRequest
    Calls = {"badgroup", "group2"}
    Blindsign = {TRUE}
    MaxConcurrent = 1
    MaxFaults = 0
    Disruptions = {}
    BufferSize = 4
    FeeModulus = 100
    Apdus = {}
INVARIANTS
    ReleasedIsApproved
CHECK_DEADLOCK FALSE
