\* Two threads publish at once to readers that come, go and resume.
CONSTANTS
    Publishers = {p1, p2}
    Subscribers = {s1, s2}
    QueueSize = 2
    ReplaySize = 2
    MaxEvents = 4
SPECIFICATION Spec
SYMMETRY Symmetry
CONSTRAINT FewTogether
INVARIANTS TypeOK NeverTwice NoSilentLoss
PROPERTY ImplementsFanOut
CHECK_DEADLOCK FALSE
