SPECIFICATION Spec
CONSTANTS
    Demands <- MCDemands
    TurnRates <- MCTurnRates
    Directions <- MCDirections
    UInt <- MCUInt
INVARIANTS
    TypeOK
    TurnTermJustified
    DutyInRange
    ModestTurnInRange
    WheelsPullTogether
PROPERTY CommandReachesWheels
