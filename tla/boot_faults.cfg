SPECIFICATION Spec
CONSTANTS
    Text <- MCText
    StrLen <- MCStrLen
    Empty = ""
    None = "absent"
    Requests <- MCLongRequests
    FormEncode <- MCFormEncode
    Faults = {"httpd", "nvs_pages", "nvs_open", "nvs_set"}
    MAXIMUM_RETRY = 2
    Routers <- MCRouters
    MaxPowerLoss = 1
    MaxMistakes = 1
INVARIANT StoredFits
\* httpd_start may fail, and the main task then waits for ever: a real stop.
CHECK_DEADLOCK FALSE
