SPECIFICATION Spec
CONSTANTS
    Demands <- MCDemands
    TurnRates <- MCTurnRates
    Directions <- MCDirections
    UInt <- MCUInt
INVARIANT TurnsOppose
