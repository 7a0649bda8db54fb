SPECIFICATION FairSpec
CONSTANTS
    MaxConnects = 8
    MaxCommands = 2
    MaxReports = 2
    MaxInbound = 1
INVARIANTS TypeOK TopicGrowth
PROPERTIES RepliesNotSwapped ObeysRemoteControl NothingStaysUnderWay UartIsReleased
