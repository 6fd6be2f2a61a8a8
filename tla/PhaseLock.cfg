\* Six ticks to the beat, from every phase, two nudges to and from a small offset.
SPECIFICATION FairSpec
CONSTANTS
    TicksPerBeat = 6
    Period = 16
    Floor = 6
    Gain = 4
    Offsets = {0, 3}
    MaxNudges = 2
PROPERTIES Locks
