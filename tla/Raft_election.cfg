CONSTANTS
    Nil = Nil
    Server = {n1, n2, n3}
    Command = {c}
    Campaigners = {n1, n2, n3}
    Crashers = {n1, n2, n3}
    Prevote = TRUE
    Pipelining = TRUE
    Transfers = TRUE
    MaxEntries = 1
    MaxTerm = 2
    MaxLog = 0
    MaxInFlight = 3
    MaxUncommitted = 1
SPECIFICATION Spec
CHECK_DEADLOCK FALSE
SYMMETRY Symmetry
INVARIANTS TypeOK ElectionSafety PersistedBeforeSend
PROPERTY OneVotePerTerm
