CONSTANTS
    Tasks = {t1}
    Specs <- OneSpec
    EnvViews = {"Good", "BadPod"}
    Phases = {"Ready"}
    Deadlines = {}
    Tokens = {k1, k2, k3, k4, k5, k6, k7}
    NoToken = NoToken
    MaxUid = 2
    Disturbances = {"delete"}
    MaxDisturbances = 1

SPECIFICATION Spec

INVARIANTS
    IInv

PROPERTIES
    DeleteIsDue

\* Tasks that are gone or kept, and users who stop: the system may rest.
CHECK_DEADLOCK FALSE
