SPECIFICATION Spec
CONSTANTS
    c = c
    Command = {c}
    Pipelining = TRUE
    MaxEntries = 1
    Term = 3
    LeaderLogs <- OneLog
    FollowerLogs <- Diverged
    Snapshots = {0}
    ParallelWrite = FALSE
    MaxLog = 4
    MaxInFlight = 3
PROPERTY Converges
