SPECIFICATION MCSpec
CONSTANTS
    Tx <- MCTx
    Body <- MCBody
    Base <- MCBase
    Batches <- MCBatches
    Accesses <- MCAccesses
    MaxU64 = 30
    Occupied = 1
    ZeroHash = "zero"
    max_size = 4
    CyclesPerByte = 1
    MaxOverlays = 6
    MAX_VMS_COUNT = 3
    MAX_INSTANTIATED_VMS = 2
    MAX_FDS = 2
    Lengths <- MCLengths
    MaxVmId = 2
    MaxFdSlot = 4
    MaxBytes = 2
    Cells <- MCCells
    Members <- MCMembers
    Library <- MCLibrary
    NoScript = NoScript
    Programs <- MCPrograms
    Transactions <- MCTransactions
    Limits = {0, 1, 2, 4, 9}
    max_cycles = 9
    MaxSlices = 4
    Headers = {"h", "i"}
    CellHeader <- MCCellHeader
    HeaderCell <- MCHeaderCell
    Length <- MCLength
    EncodedLength = 2
    Sizes = {0, 1, 2}
    Bounds = {0, 1, 2}
    Indices = {1, 2, 3}
    Parts = {"pool", "batch", "verifier", "calls", "machines", "producer"}
CHECK_DEADLOCK FALSE
INVARIANTS
    PassedBatchApplies
    VerifiedInFull
    ReadsAreWhole
    QueuedWorkKept
PROPERTIES
    PoolKept
    BytesInOrder
    WorkIsTaken
