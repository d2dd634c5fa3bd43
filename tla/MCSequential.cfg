SPECIFICATION MCSpec
CONSTANTS
    Sessions = {s1, s2, s3}
    Rooms = {r1, r2, r3}
    Inputs <- FrameInputs
    Chunks = {1, 2, 3}
    MaxMessage = 2
    Limits = {7, 8}
    CompactAt = 6
    Clients <- FrameStreams
    MessageLimit = 129
    BufferLimit = 140
    RequireMasking = TRUE
    Streams <- Peers
    ReadSizes = {1, 2, 3, 5}
    MaxHandshake = 8
    MaxSession = 10
    CheckOrigin = TRUE
    EmptyOriginValid = FALSE
    MaxHeader = 3
    MaxPayload = 5
    Second = 4
    MaxMessages = 3
    MalformedLimit = 3
CHECK_DEADLOCK FALSE
INVARIANTS
    RegistryInv
    BuffersFit
    ChunkingIrrelevant
    EventsExact
    DetectionExact
    WireExact
    CodecExact
    LimitsExact
PROPERTIES
    RefinesMembership
