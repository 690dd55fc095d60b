SPECIFICATION Spec
CONSTANTS
    Bytes <- MCBytes
    NoByte = "none"
    ByteTime = 4
    Frame = 2
PROPERTIES
    EveryByteTaken
