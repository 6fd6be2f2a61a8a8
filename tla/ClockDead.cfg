SPECIFICATION Spec
CONSTANTS
    TicksPerBeat = 2
    QueueLen = 1
    MaxDescriptors = 2
    MaxPlugs = 1
\* AlwaysInStep, in place of this invariant, is violated too.
INVARIANT
    RunningClockTicks
