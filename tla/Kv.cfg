SPECIFICATION ConsoleSpec
CONSTANTS
    Name = {n1}
    Body = {b1, b2}
    Client = {1, 2}
    Sequence = {1, 2}
    MaxU64 = 3
    Nothing = Nothing
    ForeignMutation <- MCForeign
    Leaving = {2}
SYMMETRY Symmetric
INVARIANTS
    TypeOK
    AtMostOnce
    RepliesAreTrue
    CompareAndSwap
    EntriesMatchHistory
    TrackerAgrees
    SavesWhatWasSeen
    GivenUpIsFinal
    NumbersNameOneRequest
