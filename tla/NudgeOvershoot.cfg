\* One nudge of a settled clock.
SPECIFICATION FairSpec
CONSTANTS
    TicksPerBeat = 6
    Period = 16
    Floor = 6
    Gain = 4
    Offsets = {0, 10}
    MaxNudges = 1
INVARIANTS NudgeDoesNotOvershoot
