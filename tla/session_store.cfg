SPECIFICATION Spec
CONSTANTS
    A = A
    B = B
    S = S
    T = T
    c1 = c1
    c2 = c2
    x = x
    y = y
    Sessions <- MCSessions
    Handles <- MCHandles
    Intents <- MCIntents
    Commands <- MCCommands
    EffectsPolicy <- AllApplication
    Profile <- SameProfile
    Plans <- MCPlans
    MAX_HANDOFF_OWNER_DEPTH = 1
    Stages = 1
    MaxTime = 0
    MaxEffects = 1
    NoRef = NoRef
    NoGenesis = NoGenesis
    NoSession = NoSession
    NoWal = NoWal
    NoHandle = NoHandle
SYMMETRY Symmetry
CHECK_DEADLOCK FALSE
INVARIANTS
    AlwaysRecoverable
    HandoffsKept
    CommandsOnce
PROPERTIES
    ClaimsSpec
    NothingUndone
