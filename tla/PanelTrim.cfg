SPECIFICATION FairSpec
CONSTANTS
    Pins = {}
    MaxOffset = 1
    Together = 1
    Events = {"nudge", "powerFail"}
PROPERTY
    EveryTrimReachesNvs
