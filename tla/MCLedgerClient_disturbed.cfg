SPECIFICATION ClientSpec
CONSTANTS
    AccountIds <- MCAccountIds
    Txns <- MCTxns
    Messages <- MCMessages
    Size <- MCSize
    Fee <- MCFee
    WellFormed <- MCWellFormed
    Mixtures <- MCMixtures
    AppCalls <- MCAppCalls
    Sender <- MCSender
    Request <- MCRequest
    Calls = {"group1", "sign0", "retry", "asked1", "data"}
    Blindsign = {FALSE}
    MaxConcurrent = 1
    MaxFaults = 2
    Disruptions = {"pin", "lost", "abandon", "restart", "toggle"}
    BufferSize = 4
    FeeModulus = 100
    Apdus = {}
INVARIANTS
    KeyOfAccount
    SignatureOfRequest
CHECK_DEADLOCK FALSE
