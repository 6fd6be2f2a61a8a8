SPECIFICATION Spec
CONSTANTS
    Pins = {1}
    MaxOffset = 0
    Together = 1
    Events = {"menu", "deck", "role"}
PROPERTY
    OneClaimPerStop
