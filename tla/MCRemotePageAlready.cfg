SPECIFICATION Spec
CONSTANTS
    Cars = {c1, c2}
    NoCar = NoCar
    MaxPresses = 3
    MaxTaps = 2
    MaxSwitches = 2
INVARIANT AlreadyDiscovering
CHECK_DEADLOCK FALSE
