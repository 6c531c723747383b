CONSTANTS
    Tasks = {t1}
    Specs <- OneSpec
    EnvViews = {"Good", "NotFound"}
    Phases = {"Ready"}
    Deadlines = {"ttl"}
    Tokens = {k1, k2, k3, k4, k5, k6, k7}
    NoToken = NoToken
    MaxUid = 1
    Disturbances = {"delete", "fault", "crash"}
    MaxDisturbances = 1

SPECIFICATION FairSpec

PROPERTIES
    DoomedTasksGo
    PendingTasksMove
    ExpiredTasksStop
    NothingIsLeft

\* Tasks that are gone or kept, and users who stop: the system may rest.
CHECK_DEADLOCK FALSE
