\* Two structs, a pool of up to three, replies with one or no known node.
CONSTANTS
    Nodes = {n1, n2}
    Lengths = {5, 7}
    MaxPool = 3
    MaxPeers = 1
SPECIFICATION FairSpec
INVARIANTS TypeOK NothingLearned
PROPERTIES EndsOnAFailure AloneDeadOrWaiting
\* The process may end.
CHECK_DEADLOCK FALSE
