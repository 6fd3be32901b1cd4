CONSTANTS
    w1 = w1
    w2 = w2
    c1 = c1
    c2 = c2
    c = c
    p = p
    Workers <- MCWorkers
    Batches <- MCBatches
    MaxEpochs = 2
    MaxHeight = 2
    NoOwnership = NoOwnership
    NoHead = NoHead
    NoReservation = NoReservation
    NoSubmission = NoSubmission
SPECIFICATION MCSpec
INVARIANTS
    RecoverableUnlessReplaced
    CertifiedHistory
PROPERTIES
    LedgerUnlessReplaced
    RevokedWorkIsSettled
