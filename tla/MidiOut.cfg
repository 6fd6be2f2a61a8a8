SPECIFICATION Spec
CONSTANTS
    TicksPerBeat = 2
    QueueLen = 1
    MaxDescriptors = 3
    MaxPlugs = 2
INVARIANTS
    ClockTypeOK
    UsbTypeOK
    PosixInStep
    TailIsOneClock
    ClaimOwnsEndpoint
    BytesAreCounted
    CleanDeviceInStep
PROPERTY
    PosixImplementsStream
