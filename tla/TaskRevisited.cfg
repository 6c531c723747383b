CONSTANTS
    Tasks = {t1}
    Specs <- OneSpec
    EnvViews = {"Good"}
    Phases = {"Ready"}
    Deadlines = {"ttl"}
    Tokens = {k1, k2, k3, k4, k5, k6, k7}
    NoToken = NoToken
    MaxUid = 1
    Disturbances = {"fault"}
    MaxDisturbances = 1

SPECIFICATION Spec

INVARIANTS
    RunningIsRevisited

\* Tasks that are gone or kept, and users who stop: the system may rest.
CHECK_DEADLOCK FALSE
