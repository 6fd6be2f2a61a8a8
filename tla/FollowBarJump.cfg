SPECIFICATION FollowSpec
CONSTANTS
    Debounce = 1
    Live = 1
    Silence = 1
    Grace = 2
    SlipThreshold = 3
    UiOps = {}
    OtherDeck = FALSE
    Jumps = TRUE
    Steady = 8
INVARIANT BarRegained
