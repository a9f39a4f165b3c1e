\* Two connections that sync, ask for a file, in any pieces, or fall silent
\* for ever, and a stop at any moment.
CONSTANTS
    MaxConn = 2
    BackLog = 1
    MaxKnown = 0
    Asks = {0, 1}
    Pieces = {1, 2, 3, 4}
    Ends = {}
    Stops = {"exit", "Ctrl-C"}
SPECIFICATION FairSpec
PROPERTIES OnlySilenceStarves SyncReachesNewest AtMostOneMore
\* The process may end.
CHECK_DEADLOCK FALSE
