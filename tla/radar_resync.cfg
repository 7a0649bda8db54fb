SPECIFICATION FairSpec
CONSTANTS
    RingSize = 40
    QueueSize = 2
    Cuts = {4}
    MaxChanges = 1
    MaxOverflows = 1
PROPERTY PresenceNoticed
