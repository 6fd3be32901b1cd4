SPECIFICATION MCSpec
CONSTANTS
    Length <- MCLength
    SEGMENT_SIZE = 3
    MaxSegments = 2
    MaxEpoch = 10
    Sessions = {"s", "t"}
    ChunkIndexes <- MCChunkIndexes
    ConsensusKind <- MCConsensusKind
    Participants <- MCParticipants
    EscrowCells <- MCEscrowCells
    Windows = {2}
    Times = {1, 2}
    MaxTime = 5
    CertificateShapes <- MCCertificateShapes
    CourtShapes <- MCCourtShapes
    LockShapes <- MCLockShapes
    SignerSets <- MCSignerSets
    MaxRewrites = 2
    MaxCrashes = 1
    Cells <- MCCells
    Plan <- MCPlan
    Menus <- MCMenus
    Paths = {"s1"}
    InclusionPaths = {"i1"}
    Confirmations <- MCConf
    MinFee = 1
    FeeRate = 1000
    MaxFee = 1
    MaxU64 = 20
    MaxReorg = 1
    MaxHeight = 3
    MaxForks = 1
    MaxDecisions = 1
INVARIANTS
    
    ReadyIsFinal
    ReadyIsFounded
PROPERTIES
    StaysAccepted
CHECK_DEADLOCK FALSE
