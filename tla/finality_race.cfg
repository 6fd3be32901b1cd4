SPECIFICATION MCSpec
CONSTANTS
    Exports <- MCExports
    MaxHeight = 3
    IssueAt = 1
    CloseAt = 3
    MaxRetains = 1
    Plans <- MCPlans
    Contents <- MCContents
    chunk_bytes = 2
    Lower <- MCLower
    MaxWrites = 1
    GroupMembers <- MCGroup
    Tx <- MCTx
    Rivals <- MCRivals
    max_attempts = 2
    poll_attempts = 2
    min_confirmations = 2
    max_cycles = 1
    MaxBlocks = 5
    Offers <- MCOffers
    Evidences <- MCEvidences
    Configs <- MCConfigs
    Capacities <- MCCapacities
    Balances = {0, 1, 2, 3, 4, 5, 6, 7}
    MaxU64 = 6
    MaxU128 = 12
    MaxEpoch = 2
    MaxExits = 1
    NoRef = NoRef
    NoSession = NoSession
INVARIANT
    FinalizedWasBuried
CHECK_DEADLOCK FALSE
