SPECIFICATION Spec
CONSTANTS
    Bytes <- MCBytes
    NoByte = "none"
    ByteTime = 4
    Frame = 2
INVARIANTS
    TypeOK
    UpToDate
    DeafOnlyIfRobbed
    FramesWhole
PROPERTIES
    KeepsBalancing
    FreezeEnds
