SPECIFICATION MCSpec
CONSTANTS
    Issuer = "a"
    Consumer = "b"
    MinimumStage = 1
    limits <- MCLimits
    Budgets <- MCBudgets
    MaxParks = 2
    MaxBlocks <- MCMaxBlocks
    MaxReceipts = 1
    Expected <- MCExpected
    Pieces = {"x", "y"}
    output_bytes = 2
    stderr_bytes = 1
    PipeSize = 2
    DrainReads = 1
    MaxWritten <- MCMaxWritten
    Calls <- MCCalls
    Frames = {"f"}
    Blocks = {"g"}
    MaxSnapshot = 2
    input_bytes = 1
    WorkerPieces = 2
    WorkerCalls <- MCWorkerCalls
    MaxRuns = 2
    Topologies <- MCTopologies
    MaxSessionBlocks = 2
    max_unpublished_blocks = 1
INVARIANTS
    PublishedIsOneMoment
    ReplayIsSound
PROPERTIES
    HostKept
    WorkEnds
CHECK_DEADLOCK FALSE
