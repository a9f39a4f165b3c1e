\* A heap of two blocks and one value: room for one push, then none.
CONSTANTS
    Addr = {a1, a2}
    NULL = NULL
    Vals = {1}
SPECIFICATION FairSpec
PROPERTIES NoAnswerIsAwaitedForEver ServedUnlessEarly
\* The process ends.
CHECK_DEADLOCK FALSE
