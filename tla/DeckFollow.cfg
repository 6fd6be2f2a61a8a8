SPECIFICATION FollowSpec
CONSTANTS
    Debounce = 1
    Live = 1
    Silence = 1
    Grace = 1
    SlipThreshold = 2
    UiOps = {"ignore", "manual", "role", "free", "deferred", "immediate"}
    OtherDeck = TRUE
    Jumps = FALSE
    Steady = 1
INVARIANTS FollowTypeOK StopIsDebounced SlipNeedsLosses SlaveInStep StoppedIsClean
