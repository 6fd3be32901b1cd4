SPECIFICATION MCSpec
CONSTANTS
    a = a
    b = b
    p = p
    q = q
    w = w
    Ids <- BothIds
    Payloads <- BothPayloads
    MaxEntries = 2
    MaxCommands = 2
    MaxToken = 2
    NoReservation = NoReservation
    NoSubmission = NoSubmission
    Sessions = {"s", "t"}
    NoRef = NoRef
    Clients = {"c", "d"}
    Owners = {"w", "x"}
    Source <- MCSource
    Target <- MCTarget
    Genesis <- MCGenesis
    Scripts <- MCScripts
    in_flight = 1
    response_bytes = 2
    MAX_EFFECTS = 1
    MaxFailures = 1
SYMMETRY Symmetry
INVARIANTS
    NoWorkRepeated
    AdmissionOrder
    AnswersAreTrue
PROPERTY
    OutcomesAreFinal
CHECK_DEADLOCK FALSE
