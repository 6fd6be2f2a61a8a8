SPECIFICATION FairFollowSpec
CONSTANTS
    Debounce = 1
    Live = 1
    Silence = 1
    Grace = 1
    SlipThreshold = 1
    UiOps = {"deferred"}
    OtherDeck = TRUE
    Jumps = FALSE
    Steady = 1
PROPERTIES ResyncServed
