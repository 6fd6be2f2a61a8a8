SPECIFICATION FollowSpec
CONSTANTS
    Debounce = 1
    Live = 1
    Silence = 2
    Grace = 3
    SlipThreshold = 2
    UiOps = {"keep", "link"}
    OtherDeck = FALSE
    Jumps = FALSE
    Steady = 1
INVARIANT RecoveryWindow
