SPECIFICATION FairSpec
CONSTANTS
    Pins = {}
    MaxOffset = 1
    Together = 2
    Events = {"tap", "nudge", "menu", "powerFail"}
INVARIANT
    UsedPressNeverResyncs
PROPERTIES
    SubModesTimeOut
    OffsetReachesNvs
