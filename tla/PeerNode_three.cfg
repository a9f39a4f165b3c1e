\* Three connections that send 1, or 1 in the wrong byte order, in any pieces,
\* or close with or without a request; the node is not stopped.
CONSTANTS
    MaxConn = 3
    BackLog = 1
    MaxKnown = 0
    Asks = {1, 16777216}
    Pieces = {1, 2, 3, 4}
    Ends = {"closed"}
    Stops = {}
SPECIFICATION Spec
INVARIANTS SilentRequestsEcho
\* The process may end.
CHECK_DEADLOCK FALSE
