\* Two connections and one Flask thread.
CONSTANTS
    Conns = {c1, c2}
    Threads = {t1}
    MaxSessions = 2
    MaxBacklog = 1
    NoConn = NoConn
SPECIFICATION Spec
SYMMETRY Symmetry
PROPERTY PrunesOnlyDisconnected
CHECK_DEADLOCK FALSE
