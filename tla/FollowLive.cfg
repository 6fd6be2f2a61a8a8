SPECIFICATION FairFollowSpec
CONSTANTS
    Debounce = 1
    Live = 1
    Silence = 1
    Grace = 1
    SlipThreshold = 2
    UiOps = {"deferred", "immediate"}
    OtherDeck = FALSE
    Jumps = FALSE
    Steady = 0
PROPERTIES DeckDrives ResyncServed
