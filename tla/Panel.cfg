SPECIFICATION Spec
CONSTANTS
    Pins = {1}
    MaxOffset = 0
    Together = 2
    Events = {"menu", "deck", "role"}
INVARIANTS
    PanelTypeOK
    ShownIsInForce
    MasterIsPermitted
    NothingStaleRestored
