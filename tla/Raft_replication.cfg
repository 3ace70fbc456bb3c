CONSTANTS
    Nil = Nil
    Server = {n1, n2, n3}
    Command = {c}
    Campaigners = {n1, n2}
    Crashers = {}
    Prevote = FALSE
    Pipelining = FALSE
    Transfers = FALSE
    MaxEntries = 1
    MaxTerm = 2
    MaxLog = 2
    MaxInFlight = 3
    MaxUncommitted = 1
SPECIFICATION Spec
CHECK_DEADLOCK FALSE
SYMMETRY Symmetry
INVARIANTS LogMatching LeaderHoldsItsTerm AppliedOnQuorum
PROPERTY DeltaExact
