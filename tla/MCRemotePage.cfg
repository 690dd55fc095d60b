SPECIFICATION Spec
CONSTANTS
    Cars = {c1, c2}
    NoCar = NoCar
    MaxPresses = 3
    MaxTaps = 2
    MaxSwitches = 2
INVARIANTS
    TypeOK
    DiscoveryOnce
    SteersTheNamed
PROPERTIES
    ScanFinds
    TargetObtained
CHECK_DEADLOCK FALSE
