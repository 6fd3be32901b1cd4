SPECIFICATION MCSpec
CONSTANTS
    Length <- MCLength
    SEGMENT_SIZE = 3
    MaxSegments = 2
    MaxEpoch = 10
    Sessions = {"t"}
    ChunkIndexes <- MCChunkIndexes
    ConsensusKind <- MCConsensusKind
    Participants <- MCParticipants
    EscrowCells <- MCEscrowCells
    Windows = {2}
    Times = {1, 2}
    MaxTime = 5
    CertificateShapes = {}
    CourtShapes = {}
    LockShapes = {}
    SignerSets = {}
    MaxRewrites = 2
    MaxCrashes = 2
    Cells <- MCCells
    Plan <- MCPlan
    Menus <- MCMenus
    Paths = {}
    InclusionPaths = {}
    Confirmations <- MCConf
    MinFee = 1
    FeeRate = 1000
    MaxFee = 2
    MaxU64 = 20
    MaxReorg = 1
    MaxHeight = 3
    MaxForks = 1
    MaxDecisions = 1
INVARIANT EveryChunkProves
CHECK_DEADLOCK FALSE
