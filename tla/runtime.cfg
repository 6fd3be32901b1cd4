SPECIFICATION MCSpec
CONSTANTS
    w1 = w1
    w2 = w2
    Workers <- MCWorkers
    N = 3
    Registered <- FirstAndLast
    Stages = 2
    Limit = 2
    MaxCrashes = 1
    Senders = {"a", "b"}
    peers = {"a", "b"}
    Callers <- MCCallers
    Loads <- MCLoads
    Clients <- MCClients
    Drift <- MCDrift
    max_future_drift = 0
    max_message_age = 0
    limit = 2
    max_network_queue_messages = 2
    MAX_OUTBOUND_SEQUENCE_RETRIES = 2
    MaxFaults = 1
    MaxTime = 1
    Requests <- MCRequests
    limits <- MClimits
    Tasks <- MCTasks
    Budgets <- MCBudgets
    Predecessor = TRUE
    RECOVERY_PAGE_SIZE = 2
    MaxHeight = 3
    MaxInterrupts = 1
CHECK_DEADLOCK FALSE
INVARIANTS
    AcknowledgedIsComplete
    NothingLost
PROPERTIES
    OneStageAtATime
    VerdictsAreRight
    NothingWaitsForever
