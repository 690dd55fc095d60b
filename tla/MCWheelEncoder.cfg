SPECIFICATION Spec
CONSTANTS
    Reload = 6
    Limit = 2
    Sign <- RightWheel
    MaxPulses = 3
INVARIANTS
    KeptReadingExact
    NoCarryOver
PROPERTY StoppedWheelSeen
