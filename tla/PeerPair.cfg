\* Two clients that ask for files, and the downloading node after them, so that
\* it may be given a socket that both of their handlers hold.
CONSTANTS
    MaxConn = 3
    Before = 2
    BackLog = 1
    MaxKnown = 0
    Asks = {0}
    Pieces = {4}
    Ends = {}
    Stops = {}
SPECIFICATION PairSpec
INVARIANTS OnlyFileThreadsClose NeverTheFile OnlyAMistakeAnswers EveryDownloadIsTheLast
PROPERTIES DownloadStallsTheNode
\* The processes may end.
CHECK_DEADLOCK FALSE
