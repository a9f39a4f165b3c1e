\* Two clients and at most three threads.
CONSTANTS
    Clients = {c1, c2}
    Threads = {t1, t2, t3}
    NONE = none
SPECIFICATION FairSpec
INVARIANTS NobodyForgotten OneThreadOneClient
PROPERTIES AnsweredUnlessLost
\* Clients send one datagram each, and the server may end.
CHECK_DEADLOCK FALSE
