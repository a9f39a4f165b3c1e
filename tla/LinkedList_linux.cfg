\* linkedlist.c, linux edition: 4 nodes, 2 values, indices 0..5.
CONSTANTS
    a1 = a1
    a2 = a2
    a3 = a3
    a4 = a4
    v1 = v1
    v2 = v2
    Addr = {a1, a2, a3, a4}
    Val = {v1, v2}
    NULL = NULL
    Build = "linux"
    MaxIndex = 5
SYMMETRY Symmetry
SPECIFICATION Spec
PROPERTIES Implements NeverEmptiesAgain
\* A call that goes through a NULL pointer ends the process.
CHECK_DEADLOCK FALSE
