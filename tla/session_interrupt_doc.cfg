\* Ctrl-C while a command runs.
CONSTANTS
    Commands = {s1, s2}
    Unknown = {}
    Blocked = {}
    Connections = 1
    MaxInbox = 2
    NoCommand = NoCommand
SPECIFICATION Spec
SYMMETRY Symmetry
PROPERTY InterruptReachesCommand
CHECK_DEADLOCK FALSE
