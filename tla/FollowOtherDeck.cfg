SPECIFICATION FollowSpec
CONSTANTS
    Debounce = 1
    Live = 2
    Silence = 3
    Grace = 4
    SlipThreshold = 3
    UiOps = {}
    OtherDeck = TRUE
    Jumps = FALSE
    Steady = 1
INVARIANT ClockStopsWithMasterSilence
