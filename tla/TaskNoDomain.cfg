CONSTANTS
    Tasks = {t1}
    Specs <- NoDomain
    EnvViews = {"Good"}
    Phases = {"Ready"}
    Deadlines = {"provision"}
    Tokens = {k1, k2, k3, k4, k5, k6, k7}
    NoToken = NoToken
    MaxUid = 1
    Disturbances = {}
    MaxDisturbances = 0

SPECIFICATION Spec

INVARIANTS
    NoIngressNoTimeout

\* Tasks that are gone or kept, and users who stop: the system may rest.
CHECK_DEADLOCK FALSE
