SPECIFICATION MCSpec
CONSTANTS
    v1 = v1
    v2 = v2
    v3 = v3
    a = a
    b = b
    n1 = n1
    n2 = n2
    Validators <- MCValidators
    Byzantine <- MCByzantine
    Order <- MCOrder
    Weight <- MCWeight
    quorum_power = 5
    height = 3
    Values <- MCValues
    Nil = Nil
    MaxRound = 2
    Nodes = {n1, n2}
    Sessions <- MCSessions
    Signers <- MCSigners
    Blocks <- MCBlocks
    PublicKeys <- MCPublicKeys
    LongIds <- MCLongIds
    MAX_SIGNATURES = 2
    MaxU64 = 8
    MaxLength = 2
    MaxSigned = 4
SYMMETRY Symmetry
INVARIANTS
    Agreement
    NoEquivocation
    FinalityHolds
CHECK_DEADLOCK FALSE
