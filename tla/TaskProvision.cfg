CONSTANTS
    Tasks = {t1}
    Specs <- OneSpec
    EnvViews = {"Good"}
    Phases = {"Starting", "Ready"}
    Deadlines = {"provision"}
    Tokens = {k1, k2, k3, k4, k5, k6, k7}
    NoToken = NoToken
    MaxUid = 1
    Disturbances = {"loss", "crash"}
    MaxDisturbances = 2

SPECIFICATION FairSpec

PROPERTIES
    LostChildIsNoticed

\* Tasks that are gone or kept, and users who stop: the system may rest.
CHECK_DEADLOCK FALSE
