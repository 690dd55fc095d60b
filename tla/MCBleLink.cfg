SPECIFICATION LinkSpec
CONSTANTS
    Bytes <- MCBytes
    BufSize = 20
    PhoneChannels <- MCPhoneChannels
    PcChannels <- MCPcChannels
    PcParams <- MCPcParams
    Numbers <- MCNumbers
    Junk <- MCJunk
    Noise <- MCNoise
INVARIANTS
    LinkTypeOK
    TrustedPacketObeyed
    NoTurnResurrected
