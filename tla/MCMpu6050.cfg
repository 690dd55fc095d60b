SPECIFICATION Spec
CONSTANTS
    Boots <- MCBoots
    Ids <- MCIds
    Samples <- MCSamples
INVARIANTS
    TypeOK
    Configured
    SampleWhole
PROPERTY FreshAgain
