SPECIFICATION ClientSpec
CONSTANTS
    AccountIds <- MCAccountIds
    Txns <- MCTxns
    Messages <- MCMessages
    Size <- MCSize
    Fee <- MCFee
    WellFormed <- MCWellFormed
    Mixtures <- MCMixtures
    AppCalls <- MCAppCalls
    Sender <- MCSender
    Request <- MCRequest
    Calls = {"data", "bare0"}
    Blindsign = {FALSE}
    MaxConcurrent = 1
    MaxFaults = 0
    Disruptions = {}
    BufferSize = 4
    FeeModulus = 100
    Apdus = {}
INVARIANTS
    KeyOfAccount
CHECK_DEADLOCK FALSE
