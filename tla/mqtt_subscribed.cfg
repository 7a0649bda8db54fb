SPECIFICATION Spec
CONSTANTS
    MaxConnects = 1
    MaxCommands = 0
    MaxReports = 1
    MaxInbound = 1
INVARIANT SubscribedWhenConnected
