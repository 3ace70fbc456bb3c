SPECIFICATION Spec
CONSTANTS
    n1 = n1
    n2 = n2
    n3 = n3
    Nil = Nil
    Crashers = {n2}
    Server = {n1, n2, n3}
    Bootstrap = {n1, n2}
    Mode = "JointConsensus"
    Change <- MCChange
    MaxTerm = 2
    MaxLog = 3
    MaxReads = 2
CONSTRAINT Orderly
CHECK_DEADLOCK FALSE
INVARIANTS TypeOK ElectionSafety LeaderCompleteness ChangesOverlap HeirFit ReadsCoverCommitted
PROPERTY RemovedStayOut
