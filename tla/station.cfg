SPECIFICATION StaFairSpec
CONSTANT MAXIMUM_RETRY = 5
INVARIANTS GroupAliveForHandler FailAfterAllRetries GivesUpWhenQuiet
PROPERTY StationReturns
