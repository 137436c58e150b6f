\* One page that resumes, starts over, loses its connections and survives a
\* restart of the backend.
CONSTANTS
    Publishers = {t}
    Subscribers = {s1, s2}
    QueueSize = 2
    ReplaySize = 1
    MaxEvents = 3
    Telemetry = {t}
    MaxRestarts = 1
    MaxWire = 1
SPECIFICATION FairStreamSpec
INVARIANTS
    StreamTypeOK NothingSkipped
    OnePublisherLosesNothing OnePublisherInOrder
    OnePublisherResumesComplete OnePublisherNoticesAreTrue
PROPERTIES TakenOnce WindowNoticesShown RecoversFromRestart
CHECK_DEADLOCK FALSE
