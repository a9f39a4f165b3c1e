\* linkedlist.c, windows edition: 4 nodes, 2 values, indices 0..5.
CONSTANTS
    a1 = a1
    a2 = a2
    a3 = a3
    a4 = a4
    v1 = v1
    v2 = v2
    Addr = {a1, a2, a3, a4}
    Val = {v1, v2}
    NULL = NULL
    Build = "windows"
    MaxIndex = 5
SYMMETRY Symmetry
SPECIFICATION Spec
INVARIANTS TypeOK WellLinked
PROPERTIES Implements
\* A call that goes through a NULL pointer ends the process.
CHECK_DEADLOCK FALSE
