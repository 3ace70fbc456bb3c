SPECIFICATION Spec
CONSTANTS
    short = short
    long = long
    Record <- MCRecord
    NoRecord = NoRecord
    Size <- MCSize
    SegmentSize = 3
    MaxSize = 7
    Crash = {"kill", "power"}
    Fault = {"sync", "create", "sync_dir", "write"}
INVARIANTS
    TypeOK
    SyncedSurvive
    Reopens
    OldSegmentsStable
PROPERTY
    Implements
