SPECIFICATION Spec
CONSTANTS
    short = short
    long = long
    Record <- MCRecord
    Size <- MCSize
    NoRecord = NoRecord
    SegmentSize = 3
    MaxSize = 5
    Crash = {"kill", "rotation", "power"}
    Fault = {}
INVARIANTS
    SyncedSurvive
