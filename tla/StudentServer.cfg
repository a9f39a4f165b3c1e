\* Names of one byte, answers of two: a student is three bytes.
CONSTANTS
    c1 = c1
    c2 = c2
    Clients <- TwoClients
    Turns <- FourAndOne
    NameLen = 1
    AnswerLen = 2
    BackLog = 1
SPECIFICATION FairSpec
INVARIANTS InStep
PROPERTIES  OnlyAStayerStarves
\* All clients may leave.
CHECK_DEADLOCK FALSE
