SPECIFICATION Spec
CONSTANTS
    c = c
    Command = {c}
    Pipelining = TRUE
    MaxEntries = 1
    Term = 3
    LeaderLogs <- OneLog
    FollowerLogs <- Prefixes
    Snapshots = {0, 2}
    ParallelWrite = TRUE
    MaxLog = 3
    MaxInFlight = 3
INVARIANT MatchIsTrue
PROPERTIES Converges CommitSpreads CommittedKept
