\* A heap of four blocks, for two values and their nodes, and two values to push.
CONSTANTS
    Addr = {a1, a2, a3, a4}
    NULL = NULL
    Vals = {1, 2}
SPECIFICATION Spec
SYMMETRY Blocks
INVARIANTS WellStacked OneAtATime AnswersTheWord EndsByHangUp
PROPERTIES Implements PoppedIsLost AfterTheEndOnlyRepeats
\* The process ends.
CHECK_DEADLOCK FALSE
