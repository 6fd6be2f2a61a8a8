\* The knob, a button or the two nudge buttons, polled for ever.
SPECIFICATION Spec
CONSTANTS
    Debounce = 3
    Escrow = 8
    RepeatDelay = 20
    RepeatStart = 11
    RepeatMin = 4
    RepeatAccel = 2
    ComboHold = 30
    Chatter = 3
    MaxTurn = 12
\* OneStepPerPress, in place of this invariant, is violated too.
INVARIANTS ComboNudgesNothing
