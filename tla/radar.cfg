SPECIFICATION FairSpec
CONSTANTS
    RingSize = 24
    QueueSize = 1
    Cuts = {6}
    MaxChanges = 1
    MaxOverflows = 2
INVARIANTS TypeOK ReadNeverBlocks
PROPERTIES BeliefsComeFromFrames NoticedInStep
\* With its overflows used up, the driver waits for the task.
