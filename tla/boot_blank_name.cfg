SPECIFICATION Spec
CONSTANTS
    Text <- MCText
    StrLen <- MCStrLen
    Empty = ""
    None = "absent"
    Requests <- MCRequests
    FormEncode <- MCFormEncode
    Faults = {}
    MAXIMUM_RETRY = 5
    Routers <- MCRouters
    MaxPowerLoss = 1
    MaxMistakes = 1
INVARIANT NoNameNoStation
