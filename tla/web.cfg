SPECIFICATION WebFairSpec
CONSTANTS
    Text <- MCText
    StrLen <- MCStrLen
    Empty = ""
    None = "absent"
    Requests <- AnyForms
    FormEncode <- MCFormEncode
    Faults = {"httpd"}
INVARIANTS GroupAliveInHandler AdoptsWholeRequests BuffersFit
\* httpd_start may fail, and the main task then waits for ever: a real stop.
CHECK_DEADLOCK FALSE
PROPERTY SubmissionEndsSetup
