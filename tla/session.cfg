\* A patient user over two connections, and a hasty one whose commands hang.
CONSTANTS
    Commands = {u1, u2, s1, b1}
    Unknown = {u1, u2}
    Blocked = {b1}
    Connections = 2
    MaxInbox = 1
    NoCommand = NoCommand
SPECIFICATION FairSpec
INVARIANTS TypeOK ConfirmedOnly
PROPERTY EveryCommandAnswered
CHECK_DEADLOCK FALSE
