SPECIFICATION Spec
CONSTANTS
    Node = {n1, n2}
    n1 = n1
    n2 = n2
    Nobody = Nobody
    Readers = {r1}
    Writers = {w1, w2}
    MaxIndex = 2
SYMMETRY Symmetric
INVARIANTS WaitersAttended AcknowledgedIsChosen ReadsCurrent
CHECK_DEADLOCK FALSE
