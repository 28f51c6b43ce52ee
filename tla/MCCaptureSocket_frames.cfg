SPECIFICATION FairSpec
CONSTANTS
    Packet <- MCPackets
    NoPacket = NoPacket
    MaxBlock = 8
    Unset = Unset
    Hidden = Hidden
    MaxFrames = 2
    Streams <- MCStreams
    ChunkSizes = {5, 9}
    MaxChatter = 1
    a1 = a1
    a2 = a2
    lab = lab
    ch1 = ch1
    ch6 = ch6
CHECK_DEADLOCK FALSE
INVARIANTS
    TypeOK
    SummaryMatchesFile
    NothingLost
PROPERTY FlowEnds
