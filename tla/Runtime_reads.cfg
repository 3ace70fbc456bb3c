SPECIFICATION Spec
CONSTANTS
    Node = {n1, n2}
    n1 = n1
    n2 = n2
    Nobody = Nobody
    Readers = {r1, r2}
    Writers = {w1}
    MaxIndex = 2
SYMMETRY Symmetric
INVARIANT ReadsCurrent
CHECK_DEADLOCK FALSE
