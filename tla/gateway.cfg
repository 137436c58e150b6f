\* Two connections compete for one session and run commands, while a thread
\* asks for the status and terminates sessions.
CONSTANTS
    Conns = {c1, c2}
    Threads = {t1}
    MaxSessions = 1
    MaxBacklog = 1
    NoConn = NoConn
SPECIFICATION FairSpec
INVARIANTS TypeOK SessionLimit NoGhostSessions NoOrphanChild
PROPERTIES GoneHandlersEnd ChildrenEnd
CHECK_DEADLOCK FALSE
