SPECIFICATION FramingSpec
CONSTANTS
    Bytes <- MCBytes
    BufSize = 7
INVARIANT BufferHoldsLine
PROPERTY ImplementsFraming
