SPECIFICATION FairSpec
CONSTANTS
    TicksPerBeat = 1
    QueueLen = 1
    MaxDescriptors = 2
    MaxPlugs = 1
PROPERTY
    ResyncedOnConnect
