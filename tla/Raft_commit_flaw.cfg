CONSTANTS
    Nil = Nil
    Server = {n1, n2, n3}
    Command = {c}
    Campaigners = {n1, n2}
    Crashers = {}
    Prevote = FALSE
    Pipelining = TRUE
    Transfers = FALSE
    MaxEntries = 1
    MaxTerm = 3
    MaxLog = 1
    MaxInFlight = 3
    MaxUncommitted = 1
SPECIFICATION Spec
CHECK_DEADLOCK FALSE
SYMMETRY Symmetry
INVARIANT LeaderCompleteness
