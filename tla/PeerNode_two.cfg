\* Two connections that may send any request in any pieces, or none, and may
\* close or reset at any moment; a pool of at most one node.
CONSTANTS
    MaxConn = 2
    BackLog = 1
    MaxKnown = 1
    Asks = {0, 1, 16777216}
    Pieces = {1, 2, 3, 4}
    Ends = {"closed", "reset"}
    Stops = {"exit"}
SPECIFICATION Spec
INVARIANTS NeverOlder  SilentRequestsEcho OnlyEmptyListsServed
\* The process may end.
CHECK_DEADLOCK FALSE
