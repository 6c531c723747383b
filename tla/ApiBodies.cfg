CONSTANTS
    Builds = {b1}
    BuildSpecs = {s1}
    Tasks = {t1}
    Unnamed = Unnamed
    NoTask = NoTask
    Managers = {m1}
    Services = {api}
    Clients = {c1}
    Server <- OneServer
    Malformed = Malformed
    Count = 7
    Given <- DocumentedProperties
    LeaderElect = TRUE
    ClientKinds <- BothKinds
    MaxActs = 3
    MaxFaults = 0

SPECIFICATION Spec

PROPERTIES
    DocumentedBodiesBind

\* Users stop.
CHECK_DEADLOCK FALSE
