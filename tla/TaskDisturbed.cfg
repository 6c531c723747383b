CONSTANTS
    Tasks = {t1}
    Specs <- TwoSpecs
    EnvViews = {"Good", "NoIP"}
    Phases = {"Ready", "Exited", "Failed", "Succeeded"}
    Deadlines = {"ttl"}
    Tokens = {k1, k2, k3, k4, k5, k6, k7}
    NoToken = NoToken
    MaxUid = 1
    Disturbances = {"edit", "delete", "loss", "fault", "crash"}
    MaxDisturbances = 1

SPECIFICATION Spec

INVARIANTS
    TypeOK
    NoLostWakeup
    RunningIsAnnounced
    TokensOK
    UndisturbedTokenMatches

PROPERTIES
    ImplementsLifecycle
    PublishedTokensStay

\* Tasks that are gone or kept, and users who stop: the system may rest.
CHECK_DEADLOCK FALSE
