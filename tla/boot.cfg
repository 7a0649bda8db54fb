SPECIFICATION FairSpec
CONSTANTS
    Text <- MCText
    StrLen <- MCStrLen
    Empty = ""
    None = "absent"
    Requests <- MCRequests
    FormEncode <- MCFormEncode
    Faults = {}
    MAXIMUM_RETRY = 2
    Routers <- MCRouters
    MaxPowerLoss = 2
    MaxMistakes = 2
INVARIANTS TypeOK UsableWasGiven
PROPERTIES GoodConfigIsKept EventuallyRunning ImplementsProvisioning
