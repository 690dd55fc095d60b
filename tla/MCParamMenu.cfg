SPECIFICATION Spec
CONSTANTS
    Words = 7
    Int16 <- MCInt16
    Erased <- MCErased
    Factory <- MCOldCar
    Chords <- MCChords
    MaxEdits = 1
    MaxCuts = 1
INVARIANTS
    TypeOK
    DisplayTruth
    DrivesAsSaved
    Durable
    PrefixThenRest
PROPERTIES
    FlashSpec
    HoldingEntryLeaves
