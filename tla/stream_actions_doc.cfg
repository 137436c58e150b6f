\* Telemetry and a request publish at once.
CONSTANTS
    Publishers = {t, f}
    Subscribers = {s1}
    QueueSize = 2
    ReplaySize = 2
    MaxEvents = 2
    Telemetry = {t}
    MaxRestarts = 0
    MaxWire = 2
SPECIFICATION StreamSpec
PROPERTY ActionsAreTaken
CHECK_DEADLOCK FALSE
